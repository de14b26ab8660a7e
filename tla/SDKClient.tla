------------------------------ MODULE SDKClient -----------------------------
(***************************************************************************)
(* The Go SDK's client (pkg/sdk/client.go, protocol.go, exec.go): calls    *)
(* that may run concurrently, the pending table, the reader goroutine that *)
(* dispatches what comes back, the stdin pumps of running commands, and    *)
(* Close.  Every call of the SDK is sendRequestWithIDCtx with some method. *)
(***************************************************************************)
EXTENDS RPCWire

VARIABLES
    cpc,         \* cpc[c]: where call c is in sendRequestWithIDCtx
    pending,     \* keys of c.pending
    pendingNil,  \* c.pending = nil: the reader has ended
    resCh,       \* resCh[c]: the result channel of c, of capacity 1
    gaveUp,      \* calls that took the <-ctx.Done() branch
    reader,      \* where the reader goroutine is
    failing,     \* EOF: the pending calls it still has to fail
    pump,        \* pump[c]: where the stdin pump of c is
    sent,        \* sent[c]: how many stdin chunks it has written
    closing,     \* where Close is
    closeOK      \* the close request was answered without an error

callVars == <<cpc, gaveUp>>
readVars == <<pending, pendingNil, reader, failing>>
pumpVars == <<pump, sent>>
closeVars == <<closing, closeOK>>
clientVars == <<cpc, pending, pendingNil, resCh, gaveUp, reader, failing, pump,
                sent, closing, closeOK>>

CallPCs == {"idle", "write", "wait", "cancel", "leave", "returned"}

ClientInit ==
    /\ cpc = [c \in Ids |-> "idle"]
    /\ pending = {}
    /\ pendingNil = FALSE
    /\ resCh = [c \in Ids |-> <<>>]
    /\ gaveUp = {}
    /\ reader = "read"
    /\ failing = {}
    /\ pump = [c \in Calls |-> "off"]
    /\ sent = [c \in Calls |-> 0]
    /\ closing = "open"
    /\ closeOK = FALSE

-----------------------------------------------------------------------------
CGoto(c, l) == cpc' = [cpc EXCEPT ![c] = l]

\* A write to the process's stdin fails when the pipe is broken or closed; it
\* waits, with writeMu held, while the pipe is full.
Broken == stdinClosed \/ exited
Room == ~Broken /\ Len(toServer) < PipeCap

WriteLine(m, c, n) == toServer' = Append(toServer, [m |-> m, id |-> c, n |-> n])

\* pendingMu: only the reader keeps it over more than one step, at EOF.
MutexFree == reader # "fail"

\* The write of the request, or its error.
WriteOrFail(c) ==
    \/ Room /\ WriteLine("request", c, 0) /\ CGoto(c, "wait")
    \/ Broken /\ CGoto(c, "leave") /\ UNCHANGED toServer

FullPipe == ~Room /\ ~Broken

\* The call enters itself in the pending table, unless the reader has ended,
\* and writes its request.
Begin(c) ==
    /\ cpc[c] = "idle" /\ MutexFree
    /\ \/ pendingNil /\ CGoto(c, "returned") /\ UNCHANGED <<pending, toServer>>
       \/ /\ ~pendingNil
          /\ pending' = pending \cup {c}
          /\ \/ WriteOrFail(c)
             \/ FullPipe /\ CGoto(c, "write") /\ UNCHANGED toServer
    /\ UNCHANGED <<kind, toClient, stdinClosed, exited, pendingNil, resCh,
                   gaveUp, reader, failing, sent, closeOK>>

\* A call of the user, before or while Close runs; a command with stdin starts
\* its pump first.
Call(c) ==
    /\ kind[c] # "none"
    /\ c \in Sequenced =>
          \A d \in Calls : kind[d] = "create" => cpc[d] = "returned"
    /\ Begin(c)
    /\ pump' = [pump EXCEPT ![c] = IF kind[c] \in InputKinds THEN "wait" ELSE "off"]
    /\ UNCHANGED closing

\* The pipe has room again, or breaks.
WriteRequest(c) ==
    /\ cpc[c] = "write"
    /\ WriteOrFail(c)
    /\ UNCHANGED <<kind, toClient, stdinClosed, exited, gaveUp, readVars, resCh,
                   pumpVars, closeVars>>

Receive(c) ==
    /\ cpc[c] = "wait" /\ resCh[c] # <<>>
    /\ closeOK' = (closeOK \/ (c = Closer /\ resCh[c] = <<"ok">>))
    /\ resCh' = [resCh EXCEPT ![c] = <<>>]
    /\ CGoto(c, "leave")
    /\ UNCHANGED <<wireVars, gaveUp, readVars, pumpVars, closing>>

\* The context ends; select may take this branch with a result in the channel.
\* Create passes no context (so no create is Impatient); Close's own call has a
\* timeout.
GiveUp(c) ==
    /\ cpc[c] = "wait" /\ c \in Impatient \cup {Closer}
    /\ gaveUp' = gaveUp \cup {c}
    /\ CGoto(c, "cancel")
    /\ UNCHANGED <<wireVars, readVars, resCh, pumpVars, closeVars>>

\* sendCancelRequest: fire and forget, but the write may have to wait.
WriteCancel(c) ==
    /\ cpc[c] = "cancel"
    /\ \/ Room /\ WriteLine("cancel", c, 0)
       \/ Broken /\ UNCHANGED toServer
    /\ CGoto(c, "leave")
    /\ UNCHANGED <<kind, toClient, stdinClosed, exited, gaveUp, readVars, resCh,
                   pumpVars, closeVars>>

\* The deferred delete from the pending table.
Leave(c) ==
    /\ cpc[c] = "leave" /\ MutexFree
    /\ pending' = pending \ {c}
    /\ resCh' = [resCh EXCEPT ![c] = <<>>]
    /\ CGoto(c, "returned")
    /\ UNCHANGED <<wireVars, gaveUp, pendingNil, reader, failing, pumpVars,
                   closeVars>>

-----------------------------------------------------------------------------
(* startReader.                                                            *)

NextReply(m) ==
    /\ reader = "read" /\ toClient # <<>>
    /\ Head(toClient).m = m
    /\ toClient' = Tail(toClient)

\* handleNotification: the callback of the pending call lets its pump begin.
ReadReady ==
    /\ NextReply("ready")
    /\ LET c == Head(toClient).id
       IN  pump' = IF c \in pending /\ pump[c] = "wait"
                   THEN [pump EXCEPT ![c] = "send"] ELSE pump
    /\ UNCHANGED <<kind, toServer, stdinClosed, exited, callVars, readVars,
                   resCh, sent, closeVars>>

\* p.ch <- result; the response of a call that has left is dropped.
ReadResponse ==
    /\ NextReply("response")
    /\ LET c == Head(toClient).id
       IN  \/ /\ c \in pending /\ resCh[c] = <<>>
              /\ resCh' = [resCh EXCEPT ![c] =
                              <<IF Head(toClient).ok THEN "ok" ELSE "reply">>]
           \/ c \notin pending /\ UNCHANGED resCh
    /\ UNCHANGED <<kind, toServer, stdinClosed, exited, callVars, readVars,
                   pumpVars, closeVars>>

\* End of the process's stdout.  cmd.Wait, which Close starts, closes the pipe
\* when the process exits and may cut off what was not read yet.
ReadEOF ==
    /\ reader = "read" /\ exited
    /\ toClient = <<>> \/ closing # "open"
    /\ toClient' = <<>>
    /\ reader' = "fail"
    /\ failing' = pending
    /\ UNCHANGED <<kind, toServer, stdinClosed, exited, callVars, pending,
                   pendingNil, resCh, pumpVars, closeVars>>

\* FailPending mutated: the table is dropped without failing the calls.
FailPendingSkipped(c) ==
    /\ reader = "fail" /\ c \in failing
    /\ failing' = {}
    /\ UNCHANGED <<wireVars, callVars, pending, pendingNil, reader, resCh,
                   pumpVars, closeVars>>

\* p.ch <- ErrConnectionClose for every pending call, with pendingMu held.
FailPending(c) ==
    /\ reader = "fail" /\ c \in failing
    /\ resCh[c] = <<>>
    /\ resCh' = [resCh EXCEPT ![c] = <<"eof">>]
    /\ failing' = failing \ {c}
    /\ UNCHANGED <<wireVars, callVars, pending, pendingNil, reader, pumpVars,
                   closeVars>>

ReaderEnds ==
    /\ reader = "fail" /\ failing = {}
    /\ pendingNil' = TRUE
    /\ pending' = {}
    /\ reader' = "done"
    /\ UNCHANGED <<wireVars, callVars, failing, resCh, pumpVars, closeVars>>

-----------------------------------------------------------------------------
(* pumpExecInput.                                                          *)

\* PumpSends mutated: the pump does not wait for "ready".
PumpSendsEarly(c) ==
    /\ pump[c] \in {"wait", "send"} /\ Room
    /\ WriteLine("stdin", c, sent[c] + 1)
    /\ sent' = [sent EXCEPT ![c] = @ + 1]
    /\ pump' = [pump EXCEPT ![c] = IF sent[c] + 1 = EOF THEN "off" ELSE "send"]
    /\ UNCHANGED <<kind, toClient, stdinClosed, exited, callVars, readVars,
                   resCh, closeVars>>

\* The next chunk of stdin, or its end.
PumpSends(c) ==
    /\ pump[c] = "send" /\ Room
    /\ WriteLine("stdin", c, sent[c] + 1)
    /\ sent' = [sent EXCEPT ![c] = @ + 1]
    /\ pump' = [pump EXCEPT ![c] = IF sent[c] + 1 = EOF THEN "off" ELSE "send"]
    /\ UNCHANGED <<kind, toClient, stdinClosed, exited, callVars, readVars,
                   resCh, closeVars>>

\* doneCh is closed, the context ends before "ready", or the pipe is broken.
PumpEnds(c) ==
    /\ \/ pump[c] # "off" /\ cpc[c] = "returned"
       \/ pump[c] = "wait" /\ c \in gaveUp
       \/ pump[c] = "send" /\ Broken
    /\ pump' = [pump EXCEPT ![c] = "off"]
    /\ sent' = [sent EXCEPT ![c] = 0]
    /\ UNCHANGED <<wireVars, callVars, readVars, resCh, closeVars>>

-----------------------------------------------------------------------------
(* Client.Close: request, close stdin, wait for the process or kill it.    *)

CloseBegins ==
    /\ closing = "open"
    /\ Begin(Closer)
    /\ closing' = "request"
    /\ UNCHANGED pump

CloseStdin ==
    /\ closing = "request" /\ cpc[Closer] = "returned"
    /\ stdinClosed' = TRUE
    /\ closing' = "wait"
    /\ UNCHANGED <<kind, toServer, toClient, exited, callVars, readVars, resCh,
                   pumpVars, closeOK>>

CloseReturns ==
    /\ closing = "wait" /\ exited
    /\ closing' = "closed"
    /\ UNCHANGED <<wireVars, callVars, readVars, resCh, pumpVars, closeOK>>

\* The timeout expires: Process.Kill.  The kill itself is the composition's.
CloseKills ==
    /\ closing = "wait" /\ ~exited
    /\ closing' = "closed"
    /\ UNCHANGED <<kind, toClient, stdinClosed, callVars, readVars, resCh,
                   pumpVars, closeOK>>

CallStep(c) == WriteRequest(c) \/ Receive(c) \/ WriteCancel(c) \/ Leave(c)

PumpStep(c) == PumpSends(c) \/ PumpEnds(c)

ReaderStep ==
    \/ ReadReady \/ ReadResponse \/ ReadEOF \/ ReaderEnds
    \/ \E c \in Ids : FailPending(c)

CloseStep == CloseStdin \/ CloseReturns

ClientNext ==
    \/ \E c \in Calls : Call(c) \/ PumpStep(c)
    \/ \E c \in Ids : CallStep(c) \/ GiveUp(c)
    \/ ReaderStep
    \/ CloseBegins
    \/ CloseStep

-----------------------------------------------------------------------------
ClientTypeOK ==
    /\ cpc \in [Ids -> CallPCs]
    /\ pending \subseteq Ids
    /\ pendingNil \in BOOLEAN
    /\ resCh \in [Ids -> {<<>>} \cup {<<r>> : r \in {"ok", "reply", "eof"}}]
    /\ gaveUp \subseteq Ids
    /\ reader \in {"read", "fail", "done"}
    /\ failing \subseteq pending
    /\ pump \in [Calls -> {"off", "wait", "send"}]
    /\ sent \in [Calls -> 0..EOF]
    /\ closing \in {"open", "request", "wait", "closed"}
    /\ closeOK \in BOOLEAN
=============================================================================
