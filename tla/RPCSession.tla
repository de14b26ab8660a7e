----------------------------- MODULE RPCSession -----------------------------
(***************************************************************************)
(* One client of the SDK and the `matchlock rpc` process it started, as    *)
(* SDKClient and RPCHandler, talking over two pipes.                       *)
(***************************************************************************)
EXTENDS RPCHandler, SDKClient

vars == <<wireVars, handlerVars, clientVars>>

SessionInit == WireInit /\ HandlerInit /\ ClientInit

\* The process is killed from outside or dies.
ProcessDies ==
    /\ ProcessEnds
    /\ UNCHANGED <<kind, toClient, stdinClosed, clientVars>>

CloseKillsProcess == CloseKills /\ ProcessEnds

SessionNext ==
    \/ HandlerNext /\ UNCHANGED clientVars
    \/ ClientNext /\ UNCHANGED handlerVars
    \/ CloseKillsProcess
    \/ ProcessDies

SessionSpec == SessionInit /\ [][SessionNext]_vars

(***************************************************************************)
(* Goroutines that can run do run.  Nothing makes a command end or read    *)
(* its stdin, a user call, give up or close, or a signal arrive.  Close's  *)
(* timeouts do expire.                                                     *)
(***************************************************************************)
FairSessionSpec ==
    /\ SessionSpec
    /\ WF_vars(~exited /\ LoopStep /\ UNCHANGED clientVars)
    /\ \A r \in Calls :
          /\ WF_vars(~exited /\ RequestStep(r) /\ UNCHANGED clientVars)
          /\ WF_vars(PumpStep(r) /\ UNCHANGED handlerVars)
    /\ \A c \in Ids : WF_vars(CallStep(c) /\ UNCHANGED handlerVars)
    /\ WF_vars(ReaderStep /\ UNCHANGED handlerVars)
    /\ WF_vars((CloseStep /\ UNCHANGED handlerVars) \/ CloseKillsProcess)
    /\ WF_vars(GiveUp(Closer) /\ UNCHANGED handlerVars)

-----------------------------------------------------------------------------
\* Type invariant of both processes and the pipes between them.
SessionTypeOK == HandlerTypeOK /\ ClientTypeOK

(***************************************************************************)
(* "Keep stdin and stdin EOF notifications in transport order"             *)
(* (handler.go): a command reads the chunks its caller's reader produced,  *)
(* in that order and without a gap, and sees end of file after the last    *)
(* one, or when it is cancelled.                                           *)
(***************************************************************************)
StdinInOrder ==
    \A r \in Calls : \A i \in 1..Len(got[r]) :
        got[r][i] = i \/ (got[r][i] = EOF /\ i = Len(got[r]) /\ Cancelled(r))

(***************************************************************************)
(* "Create and close run synchronously to avoid races" (handler.go): a     *)
(* request that is running has its VM, and nobody has begun to close it.   *)
(***************************************************************************)
RequestsRunOnOpenVM ==
    \A r \in Calls :
        hpc[r] \in {"ready", "running", "replace", "listen", "install"}
            => vm # None /\ vm \in openVMs /\ loopVM = None

(***************************************************************************)
(* "serializes port-forward manager replacement" (handler.go, pfMu): every *)
(* open port-forward manager has an owner that will close it: the handler, *)
(* the request that is about to install it, or handleClose.                *)
(***************************************************************************)
NoStrayListeners ==
    \A m \in openPF : m \in {pf, loopPF, pfMu}

(***************************************************************************)
(* "Close closes the sandbox and cleans up resources" (client.go): when    *)
(* the close request is answered without an error, the VM and the port     *)
(* forwards are closed and the entrypoint is cancelled.                    *)
(***************************************************************************)
ClosedMeansClosed ==
    closeOK => openVMs = {} /\ openPF = {} /\ entry = "none"

\* Close's own request, or the cancel of it, waits to be written: the pipe is
\* full, and the loop that should read it waits as well.
CloseWaits == cpc[Closer] \in {"write", "cancel"} /\ FullPipe

\* The reader waits, with pendingMu held, to fail a call that gave up although
\* its result had arrived: the channel has room for one, and nobody empties it.
ReaderWaits == \E c \in failing : cpc[c] = "leave" /\ resCh[c] # <<>>

SessionOver ==
    /\ exited /\ closing = "closed"
    /\ \A c \in Ids : cpc[c] \in {"idle", "returned"}

(***************************************************************************)
(* Once Close is called, the process ends, Close returns and so does every *)
(* call that was in flight, although commands need not end nor read their  *)
(* stdin: the only places where the client can hang for ever are the two   *)
(* above (client.go:169, protocol.go:206).                                 *)
(***************************************************************************)
CloseEndsSession ==
    \/ <>[](CloseWaits \/ ReaderWaits)
    \/ closing # "open" ~> SessionOver

(***************************************************************************)
(* "Send close RPC with a bounded context so it doesn't block forever"     *)
(* (client.go:166): Close goes on to close stdin and wait for the process, *)
(* also where the reader does not hang.  The code does not meet this: the  *)
(* context bounds the wait for the answer, not the write.                  *)
(***************************************************************************)
CloseDoesNotBlock ==
    []~ReaderWaits => (closing = "request" ~> closing # "request")

(***************************************************************************)
(* "If the context is cancelled while waiting, a 'cancel' RPC is fired to  *)
(* abort the server-side operation" (protocol.go): a command whose caller  *)
(* gave up does not run on, as long as the session lives.  The code does   *)
(* not meet this (README, Deviations).                                     *)
(***************************************************************************)
CancelAborts ==
    \A c \in Calls :
        c \in gaveUp ~> (hpc[c] \in {"none", "respond", "done"} \/ exited)

-----------------------------------------------------------------------------
(***************************************************************************)
(* The inductive invariant behind the safety properties (proofs in         *)
(* RPCSessionProofs).                                                      *)
(***************************************************************************)

\* What is known of the methods and lines beyond their types.
KindsKnown ==
    /\ kind[Closer] = "close"
    /\ \A c \in Calls : kind[c] \in Kinds
    /\ \A i \in 1..Len(toServer) :
          toServer[i].m = "stdin" => toServer[i].id \in Calls /\ toServer[i].n >= 1

\* Only the reader at EOF fails calls; a pump starts with its call and stops at
\* the end of its input.
ClientInv ==
    /\ reader # "fail" => failing = {}
    /\ \A c \in Calls :
          /\ cpc[c] = "idle" => pump[c] = "off" /\ sent[c] = 0
          /\ pump[c] # "off" => sent[c] < EOF

\* Where the loop has a create or a close in hand, and where it has waited
\* for the requests in flight.
Serving == {"wait", "factory", "start", "take", "closePF", "closeVM"}
Exclusive == Serving \ {"wait"}

LoopInv ==
    /\ loop = "wait" => kind[line.id] \in {"create", "close"}
    /\ loop \in {"factory", "start"} => kind[line.id] = "create"
    /\ loop = "send" => line.id \in Calls /\ line.n >= 1
    /\ closed => loop \in {"scan", "drain", "closePF", "closeVM"}
    /\ loop \in Exclusive \/ exited \/ (closed /\ loop # "drain") => InFlight = {}

Lines(m, c) == {i \in 1..Len(toServer) : toServer[i].m = m /\ toServer[i].id = c}

\* The handler has not read the request of c yet.
Unread(c) ==
    /\ hpc[c] = "none"
    /\ c # vm /\ c \notin openVMs
    /\ loop \in Serving => line.id # c

\* A call writes its request once.
RequestOnce(c) ==
    /\ cpc[c] \in {"idle", "write"} => Lines("request", c) = {} /\ Unread(c)
    /\ Lines("request", c) # {} => Unread(c)
    /\ \A i, j \in Lines("request", c) : i = j

\* The handler's VM is open until handleClose has taken it.
VMInv ==
    /\ vm # None => vm \in openVMs
    /\ loop \in {"wait", "factory", "start"} => vm # line.id
    /\ loop = "start" => line.id \in openVMs
    /\ loopVM # None => closed /\ vm = None
    /\ loop \in {"closePF", "closeVM"} => closed /\ vm = None
    /\ RequestsRunOnOpenVM

\* pfMu is held over the replacement, and an open manager has an owner.
ForwardPCs == {"replace", "listen", "install"}

ForwardInv ==
    /\ \A r \in Calls : pfMu = r <=> hpc[r] \in ForwardPCs
    /\ \A r \in Calls : hpc[r] \in {"listen", "install"} => pf = None
    /\ loop \in {"closePF", "closeVM"} => pf = None
    /\ loopPF # None => loop = "closePF"
    /\ \A m \in openPF : m \in {pf, loopPF} \/ hpc[m] = "install"

\* A program creates one VM with its client.  (handleCreate forgets the VM of
\* an earlier create, which then stays open.)
OneCreate ==
    \A s \in Scenarios : \A c, d \in Calls :
        s[c] = "create" /\ s[d] = "create" => c = d

\* Then every open VM belongs to the handler or to the loop.
VMsAreKnown ==
    /\ \A c, d \in Calls : kind[c] = "create" /\ kind[d] = "create" => c = d
    /\ \A v \in openVMs :
          /\ kind[v] = "create"
          /\ v \in {vm, loopVM} \/ (loop = "start" /\ v = line.id)
    /\ entry # "none" => vm # None

\* handleClose has answered without an error.
ClosedOK ==
    \/ closeOK
    \/ resCh[Closer] = <<"ok">>
    \/ \E i \in 1..Len(toClient) : toClient[i].m = "response" /\ toClient[i].ok

\* From then on nothing is open and nothing can be opened.
AllClosed ==
    /\ closed \/ exited
    /\ loop \in {"scan", "drain"} /\ loopVM = None
    /\ InFlight = {} /\ vm = None
    /\ openVMs = {} /\ openPF = {} /\ entry = "none"

\* The number the next chunk of r that reaches its channel must have.
NextChunk(r) ==
    Len(got[r]) + Len(chan[r]) + (IF loop = "send" /\ line.id = r THEN 2 ELSE 1)

\* No input of r is under way.
NoInput(r) ==
    /\ got[r] = <<>> /\ chan[r] = <<>>
    /\ ~(loop = "send" /\ line.id = r)
    /\ Lines("stdin", r) = {}
    /\ pump[r] # "send"
    /\ pump[r] = "wait" => sent[r] = 0
    /\ \A i \in 1..Len(toClient) : ~(toClient[i].m = "ready" /\ toClient[i].id = r)

\* The input of r on its way from the pump to the command, piece by piece.
ReadInOrder(r) ==
    /\ \A i \in 1..Len(got[r]) :
          got[r][i] = i \/ (got[r][i] = EOF /\ i = Len(got[r]) /\ Cancelled(r))
    /\ ~AtEOF(r) => \A i \in 1..Len(chan[r]) : chan[r][i] = Len(got[r]) + i

PipeInOrder(r) ==
    /\ loop = "send" /\ line.id = r => line.n = NextChunk(r) - 1
    /\ \A i, j \in Lines("stdin", r) : i < j => toServer[i].n < toServer[j].n
    /\ \A i \in Lines("stdin", r) :
          /\ toServer[i].n >= NextChunk(r)
          /\ \A n \in NextChunk(r)..toServer[i].n :
                \E j \in Lines("stdin", r) : toServer[j].n = n
    /\ pump[r] # "off" =>
          /\ sent[r] + 1 >= NextChunk(r)
          /\ \A i \in Lines("stdin", r) : toServer[i].n <= sent[r]
          /\ \A n \in NextChunk(r)..sent[r] :
                \E j \in Lines("stdin", r) : toServer[j].n = n

\* The command has not announced itself yet.
EarlyPCs == {"none", "spawned", "handle", "ready"}

InputInv(r) ==
    /\ ~exited /\ hpc[r] \in EarlyPCs => NoInput(r)
    /\ r \notin Sessions => got[r] = <<>> /\ chan[r] = <<>>
    /\ r \in Sessions => ReadInOrder(r)
    /\ r \in Sessions /\ ~AtEOF(r) => PipeInOrder(r)

SessionInv ==
    /\ SessionTypeOK /\ KindsKnown /\ ClientInv /\ LoopInv /\ VMInv /\ ForwardInv
    /\ exited \/ \A c \in Calls : RequestOnce(c)
    /\ \A r \in Calls : InputInv(r)

CloseInv == VMsAreKnown /\ (ClosedOK => AllClosed)
=============================================================================
