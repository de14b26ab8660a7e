----------------------------- MODULE GuestAgent -----------------------------
(***************************************************************************)
(* The guest agent's exec service: one handler per connection, and in it   *)
(* the goroutines that copy output, read the host's frames and wait for    *)
(* the command.  The command itself is external: it reads and writes its   *)
(* pipes as it likes, may ignore SIGTERM, and may never end.               *)
(***************************************************************************)
EXTENDS ExecLink

Idle == UNCHANGED <<call, cli, u, relay, bk>>

\* ExecResponse and FileResponse: a status or an error, and in batch mode the
\* output.
Result(code, out) == Frame("result", [code |-> code, out |-> out])

-----------------------------------------------------------------------------
(* The connection and the start of the command. *)

\* serveExec accepts and handleExec reads the request; the host closed the
\* connection before it was complete.
AcceptRequest ==
    /\ guest.pc = "accept"
    /\ \/ /\ v.hg # <<>>
          /\ v' = [v EXCEPT !.hg = Tail(@)]
          /\ guest' = [guest EXCEPT !.pc = "start"]
       \/ /\ GuestEOF
          /\ v' = [v EXCEPT !.g = FALSE]
          /\ guest' = [guest EXCEPT !.pc = "closed"]
    /\ UNCHANGED proc /\ Idle

\* The file handlers answer and close; a failure of any of their steps is an
\* answer with an error.  The outcome stands where a command's status does.
ServeFile ==
    /\ guest.pc = "start" /\ call.mode = "file"
    /\ \E outcome \in {"zero", "error"} :
          /\ v' = [Writes(v, Result(outcome, PerStream(0))) EXCEPT !.g = FALSE]
          /\ proc' = [proc EXCEPT !.st = "gone", !.code = outcome]
    /\ guest' = [guest EXCEPT !.pc = "closed"]
    /\ Idle

\* What every handler does before cmd.Start: the process is the sandbox
\* launcher, the goroutines that copy output and read the host start with it.
Started(copiers) ==
    /\ guest' = [guest EXCEPT !.pc = "run", !.reader = "reading", !.w = copiers]
    /\ proc' = [proc EXCEPT !.st = "launcher"]
    /\ UNCHANGED v

\* Preparing or starting the command fails: the handler answers and closes.
StartFails(link, code, msgs) ==
    /\ v' = [link EXCEPT !.g = FALSE]
    /\ guest' = [guest EXCEPT !.pc = "closed"]
    /\ proc' = [proc EXCEPT !.st = "gone", !.code = code, !.out["stderr"] = msgs]

handleExecBatch ==
    /\ guest.pc = "start" /\ call.mode = "batch"
    /\ \/ Started(PerStream("done"))
       \/ StartFails(Writes(v, Result("error", PerStream(0))), "error", 0)
    /\ Idle

handleExecStreamBatch ==
    /\ guest.pc = "start" /\ call.mode = "stream"
    /\ \/ Started(PerStream("reading"))
       \/ StartFails(Writes(v, Result("error", PerStream(0))), "error", 0)
    /\ Idle

\* Pipe mode reports a failure as a message on stderr and exit status 1.
handleExecPipe ==
    /\ guest.pc = "start" /\ call.mode = "pipe"
    /\ \/ Started(PerStream("reading"))
       \/ StartFails(Writes(Writes(v, Frame("stderr", 1)), Frame("exit", "one")),
                     "one", 1)
    /\ Idle

\* A terminal has one output stream.
handleExecTTY ==
    /\ guest.pc = "start" /\ call.mode = "tty"
    /\ \/ Started([stdout |-> "reading", stderr |-> "done"])
       \/ StartFails(Writes(v, Frame("exit", "one")), "one", 0)
    /\ Idle

-----------------------------------------------------------------------------
(* The process: the sandbox launcher, then the command it executes. *)

\* In a terminal both streams are the PTY.
Emit(p, s) == LET t == IF call.mode = "tty" THEN "stdout" ELSE s
              IN [p EXCEPT !.out[t] = @ + 1, !.pipe[t] = @ + 1]

\* The launcher drops capabilities, installs the filter, switches the user
\* and executes the command; a failing step ends it with status 127.
RunLauncher ==
    /\ proc.st = "launcher"
    /\ \/ proc' = [proc EXCEPT !.st = "running"]
       \/ proc' = [Emit(proc, "stderr") EXCEPT !.st = "gone", !.code = "127"]
    /\ UNCHANGED <<v, guest>> /\ Idle

CommandRuns ==
    /\ proc.st = "running"
    /\ \/ \E s \in Streams : /\ proc.out["stdout"] + proc.out["stderr"] < call.outs
                             /\ proc' = Emit(proc, s)
       \/ proc.in > 0 /\ proc' = [proc EXCEPT !.in = @ - 1]
       \/ \E c \in {"zero", "signal"} :
             proc' = [proc EXCEPT !.st = "gone", !.code = c]
    /\ UNCHANGED <<v, guest>> /\ Idle

\* SIGTERM may end the process or be ignored, SIGKILL ends the group.
CommandSignalled ==
    /\ proc.st \in {"launcher", "running"}
    /\ \/ "TERM" \in proc.sig /\ proc' = [proc EXCEPT !.sig = @ \ {"TERM"}]
       \/ /\ proc.sig # {}
          /\ proc' = [proc EXCEPT !.st = "gone", !.code = "signal", !.sig = {}]
    /\ UNCHANGED <<v, guest>> /\ Idle

CommandKilled == CommandSignalled /\ "KILL" \in proc.sig /\ proc'.st = "gone"

-----------------------------------------------------------------------------
(* The goroutine that reads the host's side of the connection. *)

\* stdinPipe.Write: into the command's pipe, waiting while it is full; it
\* fails once the command is gone.
Fed(p) == IF p.st = "gone" THEN p ELSE [p EXCEPT !.in = @ + 1]
Full(p) == p.st # "gone" /\ p.in >= PipeCap

ReadStdin ==
    /\ guest.reader = "reading" /\ v.hg # <<>> /\ v.hg[1].kind = "stdin"
    /\ v' = [v EXCEPT !.hg = Tail(@)]
    /\ IF Full(proc)
       THEN guest' = [guest EXCEPT !.reader = "blocked"] /\ UNCHANGED proc
       ELSE proc' = Fed(proc) /\ UNCHANGED guest
    /\ Idle

WriteStdin ==
    /\ guest.reader = "blocked" /\ ~Full(proc)
    /\ proc' = Fed(proc)
    /\ guest' = [guest EXCEPT !.reader = "reading"]
    /\ UNCHANGED v /\ Idle

\* The empty frame ends the goroutine of pipe mode, which closes the command's
\* stdin.
ReadStdinEnd ==
    /\ guest.reader = "reading" /\ v.hg # <<>> /\ v.hg[1].kind = "end"
    /\ v' = [v EXCEPT !.hg = Tail(@)]
    /\ guest' = [guest EXCEPT !.reader = "ended"]
    /\ UNCHANGED proc /\ Idle

\* A terminal's other frames: a resize changes nothing modelled here, a signal
\* goes to the process, and a reader that has lost the frame borders does
\* nothing more.
ReadControl ==
    /\ guest.reader = "reading"
    /\ v.hg # <<>> /\ v.hg[1].kind \in {"resize", "signal", "garbage"}
    /\ LET k == v.hg[1].kind
       IN /\ guest' = [guest EXCEPT !.reader = IF k = "garbage" THEN "done" ELSE @]
          /\ proc' = [proc EXCEPT !.sig = IF k = "signal" /\ proc.st # "gone"
                                          THEN @ \cup {"TERM"} ELSE @]
    /\ v' = [v EXCEPT !.hg = Tail(@)]
    /\ Idle

\* cmd.Wait has returned and waitDone is closed.
Waited == guest.pc \notin {"start", "run"}

\* The host closed the connection: unless the command has been waited for, it
\* is to be terminated.  monitorVsockCancel, for batch and stream.
MonitorHangup ==
    /\ call.mode \in {"batch", "stream"} /\ guest.reader = "reading" /\ GuestEOF
    /\ guest' = [guest EXCEPT !.reader = IF Waited THEN "done" ELSE "checked"]
    /\ UNCHANGED <<v, proc>> /\ Idle

\* Mutant of PipeHangup: the stdin is closed, and that is all.
PipeHangupOnlyEnds ==
    /\ call.mode = "pipe" /\ guest.reader = "reading" /\ GuestEOF
    /\ guest' = [guest EXCEPT !.reader = "done"]
    /\ UNCHANGED <<v, proc>> /\ Idle

\* The same in the stdin goroutine of pipe mode, which also closes the stdin.
PipeHangup ==
    /\ call.mode = "pipe" /\ guest.reader = "reading" /\ GuestEOF
    /\ guest' = [guest EXCEPT !.reader = IF Waited THEN "done" ELSE "checked"]
    /\ UNCHANGED <<v, proc>> /\ Idle

\* A terminal only stops reading.
TTYHangup ==
    /\ call.mode = "tty" /\ guest.reader = "reading" /\ GuestEOF
    /\ guest' = [guest EXCEPT !.reader = "done"]
    /\ UNCHANGED <<v, proc>> /\ Idle

Terminate ==
    /\ guest.reader = "checked"
    /\ guest' = [guest EXCEPT !.reader = "done", !.timer = TRUE]
    /\ proc' = [proc EXCEPT !.sig = IF proc.st = "gone" THEN @ ELSE @ \cup {"TERM"}]
    /\ UNCHANGED v /\ Idle

\* The grace period is over; timer.Stop or the check of waitDone.
KillAfterGrace ==
    /\ guest.timer
    /\ guest' = [guest EXCEPT !.timer = FALSE]
    /\ proc' = [proc EXCEPT !.sig = IF Waited \/ proc.st = "gone" THEN @
                                    ELSE @ \cup {"KILL"}]
    /\ UNCHANGED v /\ Idle

-----------------------------------------------------------------------------
(* Output, the end of the command, and the answer. *)

\* A copier takes a chunk from its pipe and writes the header of its frame,
\* then the payload; chunks are numbered in the order they were written.
CopyHeader(s) ==
    /\ guest.w[s] = "reading" /\ proc.pipe[s] > 0
    /\ proc' = [proc EXCEPT !.pipe[s] = @ - 1]
    /\ guest' = [guest EXCEPT !.w[s] = "half"]
    /\ v' = Begins(v, s)
    /\ Idle

CopyPayload(s) ==
    /\ guest.w[s] = "half"
    /\ guest' = [guest EXCEPT !.w[s] = "reading"]
    /\ v' = Ends(v, s, Frame(s, proc.out[s] - proc.pipe[s]))
    /\ UNCHANGED proc /\ Idle

CopyEnd(s) ==
    /\ guest.w[s] = "reading" /\ proc.pipe[s] = 0 /\ proc.st = "gone"
    /\ guest' = [guest EXCEPT !.w[s] = "done"]
    /\ UNCHANGED <<v, proc>> /\ Idle

\* cmd.Wait without waiting for the copiers first.
WaitProcessOnly ==
    /\ guest.pc = "run" /\ proc.st = "gone" /\ call.mode # "tty"
    /\ guest' = [guest EXCEPT !.pc = "waited"]
    /\ UNCHANGED <<v, proc>> /\ Idle

\* wg.Wait for the copiers, then cmd.Wait and close(waitDone).
WaitCommand ==
    /\ guest.pc = "run" /\ proc.st = "gone" /\ call.mode # "tty"
    /\ \A s \in Streams : guest.w[s] = "done"
    /\ guest' = [guest EXCEPT !.pc = "waited"]
    /\ UNCHANGED <<v, proc>> /\ Idle

\* The terminal's handler waits for the process and not for its output.
WaitTTY ==
    /\ guest.pc = "run" /\ proc.st = "gone" /\ call.mode = "tty"
    /\ guest' = [guest EXCEPT !.pc = "waited"]
    /\ UNCHANGED <<v, proc>> /\ Idle

sendExecResponse ==
    /\ guest.pc = "waited" /\ call.mode \in {"batch", "stream"}
    /\ guest' = [guest EXCEPT !.pc = "answered"]
    /\ v' = Writes(v, Result(proc.code, IF call.mode = "batch" THEN proc.out
                                        ELSE PerStream(0)))
    /\ UNCHANGED proc /\ Idle

sendExitCode ==
    /\ guest.pc = "waited" /\ call.mode \in {"pipe", "tty"}
    /\ guest' = [guest EXCEPT !.pc = "answered"]
    /\ v' = Writes(v, Frame("exit", Encoded(proc.code)))
    /\ UNCHANGED proc /\ Idle

CloseConn ==
    /\ guest.pc = "answered"
    /\ guest' = [guest EXCEPT !.pc = "closed"]
    /\ v' = [v EXCEPT !.g = FALSE]
    /\ UNCHANGED proc /\ Idle

AgentMain ==
    \/ AcceptRequest \/ ServeFile
    \/ handleExecBatch \/ handleExecStreamBatch \/ handleExecPipe \/ handleExecTTY
    \/ WaitCommand \/ WaitTTY \/ sendExecResponse \/ sendExitCode \/ CloseConn

AgentReader ==
    \/ ReadStdin \/ WriteStdin \/ ReadStdinEnd \/ ReadControl
    \/ MonitorHangup \/ PipeHangup \/ TTYHangup \/ Terminate

AgentCopier(s) == CopyHeader(s) \/ CopyPayload(s) \/ CopyEnd(s)
=============================================================================
