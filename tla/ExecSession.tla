---------------------------- MODULE ExecSession ----------------------------
(***************************************************************************)
(* One command run in a sandbox: client, relay, backend, guest agent and   *)
(* process together, with a client that may disconnect at any moment and   *)
(* a VM that may die.                                                      *)
(***************************************************************************)
EXTENDS ExecRelay

\* The VM stops or crashes: the process and the agent are gone, what had
\* reached the host's end of the connection is still read.
VMDies ==
    /\ v.up
    /\ v' = [v EXCEPT !.up = FALSE, !.g = FALSE]
    /\ guest' = [guest EXCEPT !.pc = "closed", !.reader = "done",
                              !.w = PerStream("done"), !.timer = FALSE]
    /\ proc' = [proc EXCEPT !.st = "gone", !.sig = {}]
    /\ UNCHANGED <<call, cli, u, relay, bk>>

\* The process that owns the VM dies, and with it the relay, the backend and
\* a direct caller; both connections are closed.  Before the client connects
\* this is StopRelay; after the call nothing of it is left in the host.
HostDies ==
    /\ cli.pc # "idle" /\ (relay.pc # "done" \/ bk.rd \in {"reading", "lost"})
    /\ relay' = [relay EXCEPT !.pc = "done", !.wt = "done", !.sp = "closed",
                              !.ctx = TRUE, !.up = FALSE]
    /\ bk' = [bk EXCEPT !.pc = "done", !.in = "done", !.res = "error",
                        !.rd = IF @ = "off" THEN @ ELSE "done"]
    /\ u' = [u EXCEPT !.r = FALSE]
    /\ v' = [v EXCEPT !.h = FALSE]
    /\ cli' = IF call.via = "direct" /\ cli.pc = "wait"
              THEN [cli EXCEPT !.cut = TRUE, !.pc = "done", !.ret = "error"]
              ELSE [cli EXCEPT !.cut = TRUE]
    /\ UNCHANGED <<call, guest, proc>>

Environment ==
    \/ SendStdin \/ SendResize \/ Disconnect \/ CancelCall \/ StopRelay
    \/ CommandRuns \/ CommandSignalled \/ VMDies \/ HostDies

ExecNext ==
    \/ AgentMain \/ AgentReader \/ KillAfterGrace \/ \E s \in Streams : AgentCopier(s)
    \/ BackendMain \/ CancelCloses \/ BackendReader \/ BackendStdin \/ PumpResize
    \/ CallerSteps \/ RelayMain \/ RelayWatcher
    \/ RunLauncher \/ Environment

\* Every goroutine runs, the launcher executes the command, and a process that
\* was sent SIGKILL ends.  A command need not end, read or write, a client need
\* not send, disconnect or close its stdin.
ExecFairness ==
    /\ WF_execVars(AgentMain) /\ WF_execVars(AgentReader) /\ WF_execVars(KillAfterGrace)
    /\ \A s \in Streams : WF_execVars(AgentCopier(s))
    /\ WF_execVars(BackendMain) /\ WF_execVars(CancelCloses)
    /\ WF_execVars(BackendReader) /\ WF_execVars(BackendStdin) /\ WF_execVars(PumpResize)
    /\ WF_execVars(CallerSteps) /\ WF_execVars(RelayMain) /\ WF_execVars(RelayWatcher)
    /\ WF_execVars(RunLauncher) /\ WF_execVars(CommandKilled)

ExecSpec == ExecInit /\ [][ExecNext]_execVars /\ ExecFairness

-----------------------------------------------------------------------------
(* Properties *)

\* The frames on the two connections and the records of the goroutines.
Modes == {"batch", "stream", "pipe", "tty", "file"}
Codes == {"none", "zero", "error", "one", "127", "signal", "wrapped"}
InFrames == [kind : {"req"}, body : Modes]
               \cup [kind : {"stdin", "end", "resize", "signal", "garbage"}, body : {0, 1}]
OutFrames == [kind : Streams, body : Nat]
EndFrames == [kind : {"exit"}, body : Codes]
                \cup [kind : {"result"}, body : [code : Codes, out : [Streams -> Nat]]]
GuestFrames == OutFrames \cup EndFrames \cup [kind : {"garbage"}, body : {0}]

Callers == [pc : {"idle", "wait", "done"}, left : Nat, ended : BOOLEAN, resized : BOOLEAN,
            out : [Streams -> Seq(Nat)], ret : Codes, cut : BOOLEAN]
Sockets == [cr : Seq(InFrames), rc : Seq(OutFrames \cup EndFrames), c : BOOLEAN, r : BOOLEAN]
Relays == [pc : {"listen", "exec", "done"}, wt : {"off", "reading", "blocked", "done"},
           ctx : BOOLEAN, sp : {"empty", "chunk", "closed"}, rsz : BOOLEAN, up : BOOLEAN]
Backends == [pc : {"idle", "wait", "done"}, in : {"off", "reading", "half", "done"},
             rd : {"off", "reading", "lost", "done"}, res : Codes, out : [Streams -> Nat]]
Vsocks == [hg : Seq(InFrames), gh : Seq(GuestFrames), h : BOOLEAN, g : BOOLEAN, up : BOOLEAN,
           half : Streams \cup {"none"}, halfH : {"stdin", "none"}, torn : BOOLEAN]
Agents == [pc : {"none", "accept", "start", "run", "waited", "answered", "closed"},
           reader : {"off", "reading", "blocked", "checked", "ended", "done"},
           w : [Streams -> {"off", "reading", "half", "done"}], timer : BOOLEAN]
Processes == [st : {"none", "launcher", "running", "gone"}, code : Codes \ {"wrapped"},
              in : Nat, out : [Streams -> Nat], pipe : [Streams -> Nat],
              sig : SUBSET {"TERM", "KILL"}]

ExecTypeOK ==
    /\ call \in Calls /\ cli \in Callers /\ u \in Sockets /\ relay \in Relays
    /\ bk \in Backends /\ v \in Vsocks /\ guest \in Agents /\ proc \in Processes

\* What ExecCall calls lost and whole: the caller gave up, the relay or the VM
\* was not there, or two writers have mixed their frames.
Lost == cli.cut \/ ~v.up \/ v.torn \/ (bk.res = "error" /\ guest.pc = "none")
Whole == call.mode # "tty" /\ ~v.torn

ReportedCode == IF Piped THEN Encoded(proc.code) ELSE proc.code

Call == INSTANCE ExecCall WITH
            OutStreams <- Streams,
            produced <- proc.out, delivered <- cli.out,
            exited <- ReportedCode, answer <- cli.ret,
            lost <- Lost, whole <- Whole

\* The exec path keeps the promise of ExecCall for every kind of call: output
\* arrives in order and complete before the command's own status, and an
\* answer that is not the command's status only when the call was lost (the
\* copying goroutines, the relay's two goroutines and the agent's wait).
ImplementsCall == Call!CallSpec

\* A call returns once the command has ended, the VM is gone or the caller has
\* cancelled: no goroutine of the path waits for another one that is finished.
CallReturns ==
    (proc.st = "gone" \/ ~v.up \/ relay.ctx) ~> (cli.pc = "done")

\* Nobody in the guest watches the connection: a terminal session, a pipe call
\* whose stdin ended with an empty frame, or a reader waiting for a command
\* that does not read.
Unwatched == \/ call.mode \in {"tty", "file"}
             \/ guest.reader \in {"ended", "blocked"}

\* Cancelling a call kills its command for good, whenever the cancellation
\* comes (before the request is read, while the command starts, while it
\* ignores SIGTERM), as long as the agent watches the connection
\* (agent/main.go:594-616, monitorVsockCancel).
CancelKills ==
    <>relay.ctx => <>[](proc.st \in {"none", "gone"} \/ Unwatched)

\* exec_relay.go promises that a client that disconnects has its command
\* killed, in pipe mode too.  The code does not meet this: an empty stdin frame
\* ends the agent's reader, and nobody watches the connection any more.
DisconnectKillsPipe ==
    (call.mode = "pipe" /\ cli.cut /\ proc.st = "running") ~> (proc.st = "gone")

\* SendMessage promises framed messages: no two writers of one connection may
\* mix theirs.  The code does not meet this (README, Deviations).
FramesIntact == ~v.torn

-----------------------------------------------------------------------------
(* The inductive invariant behind ImplementsCall (ExecSessionProofs).      *)

Delivered(s) == Len(cli.out[s])
HasEnd(q) == \E i \in 1..Len(q) : q[i].kind \notin Streams
OnlyEnds(q) == \A i \in 1..Len(q) : q[i].kind \notin Streams

\* The caller and the relay: who has connected, answered and closed.
CallerInv ==
    /\ cli.pc = "done" <=> cli.ret # "none"
    /\ call.via = "relay" =>
          /\ u.c <=> cli.pc = "wait"
          /\ cli.pc = "idle" => u.rc = <<>> /\ u.cr = <<>> /\ ~u.r /\ relay.pc = "listen"
          /\ relay.pc = "exec" => u.r
          /\ cli.pc = "wait" /\ ~u.r => cli.cut \/ HasEnd(u.rc)
    /\ call.via = "direct" =>
          /\ cli.pc # "idle" /\ u.rc = <<>> /\ u.cr = <<>> /\ relay.pc # "listen"
          /\ relay.wt \in {"off", "done"} /\ relay.sp # "chunk"
          /\ bk.pc # "done" => cli.pc = "wait"
          /\ cli.pc = "wait" => relay.pc = "exec"
          /\ relay.ctx => cli.cut
    /\ relay.pc = "listen" => ~relay.ctx /\ relay.wt = "off" /\ relay.sp = "empty"
    /\ relay.ctx /\ relay.pc = "exec" => cli.cut \/ cli.pc = "done"

\* The backend: its connection is open only while it waits, and closed under
\* its reader only when the call is cancelled.
BackendInv ==
    /\ bk.pc = "idle" => bk.rd = "off" /\ bk.res = "none" /\ (guest.pc = "none" \/ ~v.up)
    /\ bk.pc = "wait" => relay.pc = "exec"
    /\ bk.rd = "reading" /\ ~v.h => relay.ctx
    /\ bk.pc # "idle" => relay.pc # "listen"
    /\ bk.pc = "done" => bk.res # "none"
    /\ v.h => bk.pc = "wait"
    /\ bk.rd \in {"reading", "lost"} => \/ bk.pc = "wait" /\ bk.res = "none"
                                        \/ bk.pc = "done" /\ bk.res = "error"
    /\ bk.rd = "lost" => v.torn
    /\ guest.pc = "none" => bk.pc # "wait" /\ bk.rd = "off"

NoGarbage == \A i \in 1..Len(v.gh) : v.gh[i].kind # "garbage"

\* The agent and the process: what has happened by each step.
AgentInv ==
    /\ guest.pc \in {"accept", "start", "run", "waited", "answered"} => v.g /\ v.up
    /\ guest.pc \in {"none", "accept", "start"} =>
          /\ proc.st = "none" /\ proc.out = PerStream(0) /\ proc.pipe = PerStream(0)
          /\ guest.w = PerStream("off") /\ v.half = "none" /\ v.gh = <<>>
    /\ NoGarbage \/ v.torn
    /\ guest.pc \in {"waited", "answered"} => proc.st = "gone"
    /\ proc.st # "gone" => proc.code = "none"
    /\ proc.st = "gone" /\ v.up => proc.code # "none"
    /\ proc.code = "error" => ~Piped
    /\ v.h /\ v.up /\ guest.pc \in {"answered", "closed"} => HasEnd(v.gh)
    /\ call.mode = "batch" => /\ \A s \in Streams : guest.w[s] \in {"off", "done"}
                              /\ OnlyEnds(v.gh)
                              /\ \A i \in 1..Len(u.rc) : u.rc[i].kind = "result"

\* The copier of a stream.
CopierInv(s) ==
    /\ Open(v) /\ NoGarbage => (guest.w[s] = "half" <=> v.half = s)
    /\ v.up /\ call.mode \in {"stream", "pipe"} /\ guest.w[s] = "done"
          => proc.pipe[s] = 0 /\ proc.st = "gone"
    /\ guest.pc \in {"waited", "answered"} /\ call.mode # "tty" => guest.w[s] = "done"
    /\ proc.pipe[s] <= proc.out[s]
    /\ guest.w[s] = "half" => proc.pipe[s] < proc.out[s]

\* The last of the first i frames of q that is of stream s has number w; n if
\* there is none.
Newest(q, i, s, n, w) ==
    \/ n = w /\ \A j \in 1..i : q[j].kind # s
    \/ \E j \in 1..i : /\ q[j].kind = s /\ q[j].body = w
                       /\ \A k \in j + 1..i : q[k].kind # s

\* The frames of stream s, up to the first that is torn, count on from n.
Clean(q, i) == \A j \in 1..i : q[j].kind # "garbage"
InOrder(q, s, n, max) ==
    \A i \in 1..Len(q) : Clean(q, i) /\ q[i].kind = s
        => q[i].body <= max /\ Newest(q, i - 1, s, n, q[i].body - 1)

\* Every answer in q comes after chunk max of stream s.
EndsAfter(q, s, n, max) ==
    \A i \in 1..Len(q) : Clean(q, i) /\ q[i].kind \in {"exit", "result"}
        => Newest(q, i - 1, s, n, max)

\* The chunks of s that the copier has handed to the connection.
Written(s) == proc.out[s] - proc.pipe[s] - (IF guest.w[s] = "half" THEN 1 ELSE 0)

\* The output travels in frames, all of it before the answer.
Framed == call.mode \notin {"tty", "batch"} /\ ~v.torn

\* The chunks of s on their way: b is the last that has left the backend.
StreamInv(s) ==
    /\ InOrder(u.rc, s, Delivered(s), proc.out[s])
    /\ Framed /\ ~Lost => EndsAfter(u.rc, s, Delivered(s), proc.out[s])
    /\ \E b \in 0..proc.out[s] :
          /\ Newest(u.rc, Len(u.rc), s, Delivered(s), b)
          /\ v.h => InOrder(v.gh, s, b, proc.out[s])
          /\ Open(v) /\ NoGarbage => Newest(v.gh, Len(v.gh), s, b, Written(s))
          /\ v.h /\ Framed => EndsAfter(v.gh, s, b, proc.out[s])
          /\ Framed /\ ~Lost /\ relay.pc = "exec" /\ bk.res # "none" => b = proc.out[s]

\* The chunk that may still be written when the connection is closed.
LateInv(s) ==
    /\ cli.pc # "done" \/ call.via = "direct"
    /\ bk.rd = "reading" /\ ~v.h /\ v.gh # <<>> /\ v.gh[1].kind = s
    => /\ v.gh[1].body <= proc.out[s]
       /\ Newest(u.rc, Len(u.rc), s, Delivered(s), v.gh[1].body - 1)

\* An answer that is the command's own.
Good(code, out) ==
    /\ proc.code # "none" /\ code = ReportedCode
    /\ out = IF call.mode = "batch" THEN proc.out ELSE PerStream(0)

GoodFrame(f) ==
    /\ f.kind = "exit" => Piped /\ Good(f.body, PerStream(0))
    /\ f.kind = "result" => ~Piped /\ Good(f.body.code, f.body.out)

LostFrame(f) ==
    /\ Lost
    /\ f.kind = "exit" => Piped /\ f.body # "none"
    /\ f.kind = "result" => ~Piped /\ f.body.code # "none" /\ f.body.out = PerStream(0)

\* The answers on their way.
AnswerInv ==
    /\ \A i \in 1..Len(v.gh) : Clean(v.gh, i) => GoodFrame(v.gh[i])
    /\ \A i \in 1..Len(u.rc) : GoodFrame(u.rc[i]) \/ LostFrame(u.rc[i])
    /\ bk.res # "none" /\ relay.pc = "exec" =>
          \/ Good(bk.res, bk.out)
          \/ Lost /\ bk.res = "error" /\ bk.out = PerStream(0)
    /\ bk.res = "none" => bk.out = PerStream(0)

\* What the caller has.
OutInv(s) ==
    /\ cli.out[s] = FirstN(Delivered(s)) /\ Delivered(s) <= proc.out[s]
    /\ call.mode = "batch" /\ cli.pc # "done" => cli.out[s] = <<>>

ExecInv ==
    /\ ExecTypeOK /\ CallerInv /\ BackendInv /\ AgentInv
    /\ \A s \in Streams : CopierInv(s) /\ OutInv(s) /\ LateInv(s)
    /\ cli.pc # "done" => AnswerInv /\ \A s \in Streams : StreamInv(s)
=============================================================================
