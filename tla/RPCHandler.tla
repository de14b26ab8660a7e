----------------------------- MODULE RPCHandler -----------------------------
(***************************************************************************)
(* The JSON-RPC handler of `matchlock rpc` (pkg/rpc/handler.go): a loop    *)
(* that reads requests from stdin, a goroutine for every request but       *)
(* create, close and stdin input, a table of cancel functions, the stdin   *)
(* channels of running commands and the port-forward manager.              *)
(*                                                                         *)
(* h.vm only changes while no request is in flight, so a handler that      *)
(* finds a VM keeps it; checking the parameters and getVM are one step.    *)
(* What a VM's own Close does is SandboxHost; here a VM is open from the   *)
(* factory until Close is called on it.  The answer to a cancel, streamed  *)
(* output and events are left out: nobody decides anything on them.        *)
(***************************************************************************)
EXTENDS RPCWire

CONSTANTS ChanCap   \* capacity of a stdin channel, 64 in the code

ASSUME HandlerAssumption == ChanCap \in Nat \ {0}

VARIABLES
    loop,      \* where the loop of Run is
    line,      \* the line it is working on
    loopVM,    \* local variables of handleClose: the VM and
    loopPF,    \*   the port-forward manager it took out of the handler
    hpc,       \* hpc[r]: where the goroutine of request r is
    ctxDone,   \* requests whose own context is cancelled
    runDone,   \* runCtx is cancelled
    closed,    \* h.closed
    vm,        \* h.vm: the create that made it
    openVMs,   \* VMs made by the factory and not yet closed
    entry,     \* the exec of a launched image entrypoint
    pf,        \* h.pfManager: the port_forward that made it
    openPF,    \* managers whose listeners are open
    pfMu,      \* who holds h.pfMu
    chan,      \* chan[r]: the stdin channel of command r
    got        \* got[r]: what command r has read of its stdin

goVars == <<hpc, ctxDone>>
vmVars == <<closed, vm, openVMs, entry>>
pfVars == <<pf, openPF, pfMu>>
inVars == <<chan, got>>
loopVars == <<loop, line, loopVM, loopPF>>
handlerVars == <<loop, line, loopVM, loopPF, hpc, ctxDone, runDone, closed, vm,
                 openVMs, entry, pf, openPF, pfMu, chan, got>>

LoopPCs == {"scan", "wait", "factory", "start", "take", "closePF", "closeVM",
            "send", "drain"}
RequestPCs == {"none", "spawned", "handle", "ready", "running", "replace",
               "listen", "install", "respond", "done"}

NoLine == [m |-> "request", id |-> Closer, n |-> 0]

HandlerInit ==
    /\ loop = "scan"
    /\ line = NoLine
    /\ loopVM = None
    /\ loopPF = None
    /\ hpc = [r \in Calls |-> "none"]
    /\ ctxDone = {}
    /\ runDone = FALSE
    /\ closed = FALSE
    /\ vm = None
    /\ openVMs = {}
    /\ entry = "none"
    /\ pf = None
    /\ openPF = {}
    /\ pfMu = None
    /\ chan = [r \in Calls |-> <<>>]
    /\ got = [r \in Calls |-> <<>>]

\* With the process its goroutines, listeners and pipes are gone.  What it
\* leaves behind on the host is SandboxHost's subject.
ProcessEnds ==
    /\ ~exited
    /\ exited' = TRUE
    /\ toServer' = <<>>
    /\ loop' = "scan"
    /\ line' = NoLine
    /\ loopVM' = None
    /\ loopPF' = None
    /\ hpc' = [r \in Calls |-> "none"]
    /\ ctxDone' = {}
    /\ runDone' = FALSE
    /\ closed' = FALSE
    /\ vm' = None
    /\ openVMs' = {}
    /\ entry' = "none"
    /\ pf' = None
    /\ openPF' = {}
    /\ pfMu' = None
    /\ chan' = [r \in Calls |-> <<>>]
    /\ got' = [r \in Calls |-> <<>>]

-----------------------------------------------------------------------------
\* sendResponse and sendRequestNotification: one line on stdout.
Emit(m, r, b) == toClient' = Append(toClient, [m |-> m, id |-> r, ok |-> b])

\* h.wg: requests whose goroutine has not ended.
InFlight == {r \in Calls : hpc[r] \notin {"none", "done"}}

\* h.cancels: requests whose goroutine has entered its cancel function.
Registered == {r \in Calls : hpc[r] \notin {"none", "spawned", "done"}}

\* Keys of h.execPipes and h.execTTYs: commands with an open stdin channel.
Sessions == {r \in Calls : kind[r] \in InputKinds /\ hpc[r] \in {"ready", "running"}}

\* ctx.Err() # nil in the handler of r.
Cancelled(r) == r \in ctxDone \/ runDone

HGoto(r, l) == hpc' = [hpc EXCEPT ![r] = l]

-----------------------------------------------------------------------------
(* The loop of Run.                                                        *)

LoopBack == loop' = "scan" /\ line' = NoLine

NextLine(m) ==
    /\ loop = "scan" /\ toServer # <<>>
    /\ ~closed
    /\ Head(toServer).m = m
    /\ toServer' = Tail(toServer)

\* handleCancel, in the loop: it finds the request's cancel function or not.
ReadCancel ==
    /\ NextLine("cancel")
    /\ ctxDone' = ctxDone \cup ({Head(toServer).id} \cap Registered)
    /\ UNCHANGED <<kind, toClient, stdinClosed, exited, loopVars, hpc, runDone,
                   vmVars, pfVars, inVars>>

Synchronous(r) == kind[r] \in {"create", "close"}

\* create and close are handled in the loop.
ReadSynchronous ==
    /\ NextLine("request") /\ Synchronous(Head(toServer).id)
    /\ loop' = "wait"
    /\ line' = Head(toServer)
    /\ UNCHANGED <<kind, toClient, stdinClosed, exited, loopVM, loopPF, goVars,
                   runDone, vmVars, pfVars, inVars>>

\* Every other request gets a goroutine.
ReadRequest ==
    /\ NextLine("request") /\ ~Synchronous(Head(toServer).id)
    /\ HGoto(Head(toServer).id, "spawned")
    /\ UNCHANGED <<kind, toClient, stdinClosed, exited, loopVars, ctxDone,
                   runDone, vmVars, pfVars, inVars>>

\* stdin and stdin_eof: look the channel up; a command that is not there
\* (any more) loses the input.
ReadInput ==
    /\ NextLine("stdin")
    /\ IF Head(toServer).id \in Sessions
       THEN loop' = "send" /\ line' = Head(toServer)
       ELSE UNCHANGED <<loop, line>>
    /\ UNCHANGED <<kind, toClient, stdinClosed, exited, loopVM, loopPF, goVars,
                   runDone, vmVars, pfVars, inVars>>

\* safeSendExecInput: the send waits for room; the channel of a command that
\* has ended is closed, and the panic is recovered.
SendInput ==
    /\ loop = "send"
    /\ \/ /\ line.id \in Sessions
          /\ Len(chan[line.id]) < ChanCap
          /\ chan' = [chan EXCEPT ![line.id] = Append(@, line.n)]
       \/ line.id \notin Sessions /\ UNCHANGED chan
    /\ LoopBack
    /\ UNCHANGED <<wireVars, loopVM, loopPF, goVars, runDone, vmVars, pfVars,
                   got>>

\* End of stdin, or a line after close: the loop ends with stopRun.
ReadEnds ==
    /\ loop = "scan"
    /\ \/ toServer = <<>> /\ stdinClosed /\ UNCHANGED toServer
       \/ toServer # <<>> /\ closed /\ toServer' = Tail(toServer)
    /\ loop' = "drain"
    /\ closed' = TRUE
    /\ runDone' = TRUE
    /\ UNCHANGED <<kind, toClient, stdinClosed, exited, line, loopVM, loopPF,
                   goVars, vm, openVMs, entry, pfVars, inVars>>

\* Run returns when the last request has ended; the VM is not closed here.
RunReturns ==
    /\ loop = "drain" /\ InFlight = {}
    /\ ProcessEnds
    /\ UNCHANGED <<kind, toClient, stdinClosed>>

-----------------------------------------------------------------------------
(* handleCreate and handleClose, in the loop itself.                       *)

\* WaitInFlight mutated: create and close do not wait.
WaitInFlightSkipped ==
    /\ loop = "wait"
    /\ loop' = IF kind[line.id] = "create" THEN "factory" ELSE "take"
    /\ UNCHANGED <<wireVars, line, loopVM, loopPF, goVars, runDone, vmVars,
                   pfVars, inVars>>

\* Both first wait for the requests in flight.
WaitInFlight ==
    /\ loop = "wait" /\ InFlight = {}
    /\ loop' = IF kind[line.id] = "create" THEN "factory" ELSE "take"
    /\ UNCHANGED <<wireVars, line, loopVM, loopPF, goVars, runDone, vmVars,
                   pfVars, inVars>>

\* The parameters are refused or the factory fails.
CreateRefused ==
    /\ loop = "factory"
    /\ Emit("response", line.id, FALSE)
    /\ LoopBack
    /\ UNCHANGED <<kind, toServer, stdinClosed, exited, loopVM, loopPF, goVars,
                   runDone, vmVars, pfVars, inVars>>

Factory ==
    /\ loop = "factory"
    /\ openVMs' = openVMs \cup {line.id}
    /\ loop' = "start"
    /\ UNCHANGED <<wireVars, line, loopVM, loopPF, goVars, runDone, closed, vm,
                   entry, pfVars, inVars>>

\* vm.Start fails, or the image entrypoint ends at once with an error.
StartFails ==
    /\ loop = "start"
    /\ openVMs' = openVMs \ {line.id}
    /\ Emit("response", line.id, FALSE)
    /\ LoopBack
    /\ UNCHANGED <<kind, toServer, stdinClosed, exited, loopVM, loopPF, goVars,
                   runDone, closed, vm, entry, pfVars, inVars>>

\* The handler's VM is replaced; a launched entrypoint may go on running.
StartSucceeds ==
    /\ loop = "start"
    /\ openPF' = openPF \ {pf}
    /\ pf' = None
    /\ entry' \in {"none", "running"}
    /\ vm' = line.id
    /\ Emit("response", line.id, FALSE)
    /\ LoopBack
    /\ UNCHANGED <<kind, toServer, stdinClosed, exited, loopVM, loopPF, goVars,
                   runDone, closed, openVMs, pfMu, inVars>>

\* handleClose takes VM and manager out of the handler, cancels the entrypoint.
CloseTakes ==
    /\ loop = "take"
    /\ closed' = TRUE
    /\ loopVM' = vm /\ vm' = None
    /\ loopPF' = pf /\ pf' = None
    /\ entry' = "none"
    /\ loop' = "closePF"
    /\ UNCHANGED <<wireVars, line, goVars, runDone, openVMs, openPF, pfMu, inVars>>

\* ClosePortForwards mutated: an error is answered like success.
ClosePortForwardsAnswersOK ==
    /\ loop = "closePF"
    /\ openPF' = openPF \ {loopPF}
    /\ loopPF' = None
    /\ \/ loop' = "closeVM" /\ UNCHANGED <<toClient, line>>
       \/ loopPF # None /\ Emit("response", line.id, TRUE) /\ LoopBack
    /\ UNCHANGED <<kind, toServer, stdinClosed, exited, loopVM, goVars,
                   runDone, vmVars, pf, pfMu, inVars>>

\* When a listener's Close fails, handleClose returns without closing the VM.
ClosePortForwards ==
    /\ loop = "closePF"
    /\ openPF' = openPF \ {loopPF}
    /\ loopPF' = None
    /\ \/ loop' = "closeVM" /\ UNCHANGED <<toClient, line>>
       \/ loopPF # None /\ Emit("response", line.id, FALSE) /\ LoopBack
    /\ UNCHANGED <<kind, toServer, stdinClosed, exited, loopVM, goVars,
                   runDone, vmVars, pf, pfMu, inVars>>

CloseVM ==
    /\ loop = "closeVM"
    /\ openVMs' = openVMs \ {loopVM}
    /\ \E b \in BOOLEAN : (loopVM = None => b) /\ Emit("response", line.id, b)
    /\ loopVM' = None
    /\ LoopBack
    /\ UNCHANGED <<kind, toServer, stdinClosed, exited, loopPF, goVars,
                   runDone, closed, vm, entry, pfVars, inVars>>

-----------------------------------------------------------------------------
(* The goroutine of a request.                                             *)

\* It enters its cancel function in the table, some time after it was started.
RegisterCancel(r) ==
    /\ hpc[r] = "spawned"
    /\ HGoto(r, "handle")
    /\ UNCHANGED <<wireVars, loopVars, ctxDone, runDone, vmVars, pfVars, inVars>>

\* "VM not created", or the parameters are refused.
Refused(r) ==
    /\ hpc[r] = "handle"
    /\ HGoto(r, "respond")
    /\ UNCHANGED <<wireVars, loopVars, ctxDone, runDone, vmVars, pfVars, inVars>>

\* The handler calls into its VM; log_stream follows the log of the VM.
Enters(r, k) ==
    /\ hpc[r] = "handle" /\ kind[r] = k /\ vm # None
    /\ HGoto(r, "running")
    /\ UNCHANGED <<wireVars, loopVars, ctxDone, runDone, vmVars, pfVars, inVars>>

BeginExec(r) == Enters(r, "exec")

\* write_file, read_file, list_files, allow_list_add and _delete,
\* network_reset.
BeginCall(r) == Enters(r, "call")

BeginFollow(r) == Enters(r, "follow")

\* The stdin channel is entered in the table before "ready" is sent.
OpensStdin(r, k) ==
    /\ hpc[r] = "handle" /\ kind[r] = k /\ vm # None
    /\ HGoto(r, "ready")
    /\ UNCHANGED <<wireVars, loopVars, ctxDone, runDone, vmVars, pfVars, inVars>>

BeginExecPipe(r) == OpensStdin(r, "pipe")

BeginExecTTY(r) == OpensStdin(r, "tty")

SendReady(r) ==
    /\ hpc[r] = "ready"
    /\ Emit("ready", r, TRUE)
    /\ HGoto(r, "running")
    /\ UNCHANGED <<kind, toServer, stdinClosed, exited, loopVars, ctxDone,
                   runDone, vmVars, pfVars, inVars>>

AtEOF(r) == got[r] # <<>> /\ got[r][Len(got[r])] = EOF

\* execInputReader.Read on behalf of the command: the next chunk, or end of
\* file when the context is done.
ReadStdin(r) ==
    /\ hpc[r] = "running" /\ kind[r] \in InputKinds /\ ~AtEOF(r)
    /\ \/ /\ chan[r] # <<>>
          /\ got' = [got EXCEPT ![r] = Append(@, Head(chan[r]))]
          /\ chan' = [chan EXCEPT ![r] = Tail(@)]
       \/ /\ Cancelled(r)
          /\ got' = [got EXCEPT ![r] = Append(@, EOF)]
          /\ UNCHANGED chan
    /\ UNCHANGED <<wireVars, loopVars, goVars, runDone, vmVars, pfVars>>

\* The handler of a running request returns; the deferred functions of a
\* command with stdin delete its session and close the channel.
EndRunning(r) ==
    /\ HGoto(r, "respond")
    /\ chan' = [chan EXCEPT ![r] = <<>>]
    /\ got' = [got EXCEPT ![r] = <<>>]
    /\ UNCHANGED <<wireVars, loopVars, ctxDone, runDone, vmVars, pfVars>>

\* vm.Exec, ExecInteractive or the VM's method returns, or the log of a
\* log_stream cannot be read.
CommandEnds(r) ==
    /\ hpc[r] = "running"
    /\ EndRunning(r)

\* It returns because the context is cancelled.
CommandCancelled(r) ==
    /\ hpc[r] = "running" /\ kind[r] # "call"
    /\ Cancelled(r)
    /\ EndRunning(r)

\* The response, then the deferred functions: leave the table of cancel
\* functions, cancel the context, wg.Done.
Respond(r) ==
    /\ hpc[r] = "respond"
    /\ Emit("response", r, FALSE)
    /\ HGoto(r, "done")
    /\ ctxDone' = ctxDone \ {r}
    /\ UNCHANGED <<kind, toServer, stdinClosed, exited, loopVars, runDone,
                   vmVars, pfVars, inVars>>

-----------------------------------------------------------------------------
(* handlePortForward: under pfMu, close the old manager, start a new one.  *)

\* BeginForward mutated: no mutex around the replacement.
BeginForwardUnlocked(r) ==
    /\ hpc[r] = "handle" /\ kind[r] = "forward" /\ vm # None
    /\ pfMu' = r
    /\ HGoto(r, "replace")
    /\ UNCHANGED <<wireVars, loopVars, ctxDone, runDone, vmVars, pf, openPF,
                   inVars>>

BeginForward(r) ==
    /\ hpc[r] = "handle" /\ kind[r] = "forward" /\ vm # None
    /\ pfMu = None
    /\ pfMu' = r
    /\ HGoto(r, "replace")
    /\ UNCHANGED <<wireVars, loopVars, ctxDone, runDone, vmVars, pf, openPF,
                   inVars>>

ReplaceForward(r) ==
    /\ hpc[r] = "replace"
    /\ openPF' = openPF \ {pf}
    /\ pf' = None
    /\ HGoto(r, "listen")
    /\ UNCHANGED <<wireVars, loopVars, ctxDone, runDone, vmVars, pfMu, inVars>>

Listen(r) ==
    /\ hpc[r] = "listen"
    /\ openPF' = openPF \cup {r}
    /\ HGoto(r, "install")
    /\ UNCHANGED <<wireVars, loopVars, ctxDone, runDone, vmVars, pf, pfMu,
                   inVars>>

\* A listener cannot be bound; StartPortForwards closes the ones it has.
ListenFails(r) ==
    /\ hpc[r] = "listen"
    /\ pfMu' = None
    /\ HGoto(r, "respond")
    /\ UNCHANGED <<wireVars, loopVars, ctxDone, runDone, vmVars, pf, openPF,
                   inVars>>

Install(r) ==
    /\ hpc[r] = "install"
    /\ pf' = r
    /\ pfMu' = None
    /\ HGoto(r, "respond")
    /\ UNCHANGED <<wireVars, loopVars, ctxDone, runDone, vmVars, openPF, inVars>>

-----------------------------------------------------------------------------
\* The entrypoint's command ends by itself.
EntryEnds ==
    /\ entry = "running"
    /\ entry' = "none"
    /\ UNCHANGED <<wireVars, loopVars, goVars, runDone, closed, vm, openVMs,
                   pfVars, inVars>>

\* SIGINT or SIGTERM: contextWithSignal cancels runCtx; the loop reads on.
Signalled ==
    /\ ~runDone
    /\ runDone' = TRUE
    /\ UNCHANGED <<wireVars, loopVars, goVars, vmVars, pfVars, inVars>>

LoopStep ==
    \/ ReadCancel \/ ReadSynchronous \/ ReadRequest \/ ReadInput \/ SendInput
    \/ ReadEnds \/ RunReturns
    \/ WaitInFlight \/ CreateRefused \/ Factory \/ StartFails \/ StartSucceeds
    \/ CloseTakes \/ ClosePortForwards \/ CloseVM

\* What the goroutine of r does by itself.
RequestStep(r) ==
    \/ RegisterCancel(r) \/ Refused(r)
    \/ BeginExec(r) \/ BeginCall(r) \/ BeginFollow(r)
    \/ BeginExecPipe(r) \/ BeginExecTTY(r) \/ SendReady(r)
    \/ CommandCancelled(r) \/ Respond(r)
    \/ BeginForward(r) \/ ReplaceForward(r)
    \/ Listen(r) \/ ListenFails(r) \/ Install(r)

HandlerNext ==
    /\ ~exited
    /\ \/ LoopStep
       \/ \E r \in Calls : RequestStep(r) \/ ReadStdin(r) \/ CommandEnds(r)
       \/ EntryEnds
       \/ Signalled

-----------------------------------------------------------------------------
HandlerTypeOK ==
    /\ WireTypeOK
    /\ loop \in LoopPCs
    /\ line \in ServerLine
    /\ loopVM \in Calls \cup {None}
    /\ loopPF \in Calls \cup {None}
    /\ hpc \in [Calls -> RequestPCs]
    /\ ctxDone \subseteq Registered
    /\ runDone \in BOOLEAN
    /\ closed \in BOOLEAN
    /\ vm \in Calls \cup {None}
    /\ openVMs \subseteq Calls
    /\ entry \in {"none", "running"}
    /\ pf \in Calls \cup {None}
    /\ openPF \subseteq Calls
    /\ pfMu \in Calls \cup {None}
    /\ chan \in [Calls -> Seq(1..EOF)]
    /\ \A r \in Calls : Len(chan[r]) <= ChanCap
    /\ got \in [Calls -> Seq(1..EOF)]
=============================================================================
