---------------------------- MODULE ExecBackend ----------------------------
(***************************************************************************)
(* The host side of the vsock connection: the VM backend's execVsock,      *)
(* ExecPipe, ExecInteractive and file calls, with the goroutines that      *)
(* forward stdin and read the guest's frames.  relay.ctx is the context    *)
(* the caller passed: the relay's own, or that of a direct caller.         *)
(***************************************************************************)
EXTENDS GuestAgent

Piped == call.mode \in {"pipe", "tty"}

\* dialVsock connects to the agent and the request is written.  A failed dial
\* is an error at once.
Dialled(stdin) ==
    \/ /\ v.up
       /\ v' = [v EXCEPT !.h = TRUE, !.g = TRUE, !.hg = <<Frame("req", call.mode)>>]
       /\ guest' = [guest EXCEPT !.pc = "accept"]
       /\ bk' = [bk EXCEPT !.pc = "wait", !.rd = "reading", !.in = stdin]
    \/ /\ bk' = [bk EXCEPT !.pc = "done", !.res = "error"]
       /\ UNCHANGED <<v, guest>>

Requested(modes) == /\ bk.pc = "idle" /\ relay.pc = "exec" /\ call.mode \in modes
                    /\ UNCHANGED <<call, cli, u, relay, proc>>

execVsock == Requested({"batch", "stream"}) /\ Dialled("off")
ExecPipe == Requested({"pipe"}) /\ Dialled("reading")
ExecInteractive == Requested({"tty"}) /\ Dialled("reading")
fileRPC == Requested({"file"}) /\ Dialled("off")

\* The context has closed the connection before the request is written.
RequestFails ==
    /\ Requested({"batch", "stream", "pipe"}) /\ v.up /\ relay.ctx
    /\ v' = [v EXCEPT !.g = TRUE]
    /\ guest' = [guest EXCEPT !.pc = "accept"]
    /\ bk' = [bk EXCEPT !.pc = "done", !.res = "error"]

\* Only the pipe call watches its context.
CancelClosesPipe ==
    /\ bk.pc = "wait" /\ relay.ctx /\ v.h
    /\ call.mode = "pipe"
    /\ v' = [v EXCEPT !.h = FALSE]
    /\ UNCHANGED <<call, cli, u, relay, bk, guest, proc>>

\* context.AfterFunc closes the connection; the file calls ignore the context.
CancelCloses ==
    /\ bk.pc = "wait" /\ relay.ctx /\ v.h
    /\ call.mode \in {"batch", "stream", "pipe"}
    /\ v' = [v EXCEPT !.h = FALSE]
    /\ UNCHANGED <<call, cli, u, relay, bk, guest, proc>>

\* A chunk goes to the caller's writer: the relay's, which sends it to the
\* client under its lock, or the writer of a direct caller.
Forward(s, n) ==
    IF call.via = "relay"
    THEN u' = [u EXCEPT !.rc = Sent(@, u.c /\ u.r, Frame(s, n))] /\ UNCHANGED cli
    ELSE cli' = [cli EXCEPT !.out[s] = Append(@, n)] /\ UNCHANGED u

ReadOutput ==
    /\ bk.rd = "reading" /\ v.h /\ v.gh # <<>> /\ v.gh[1].kind \in Streams
    /\ v' = [v EXCEPT !.gh = Tail(@)]
    /\ Forward(v.gh[1].kind, v.gh[1].body)
    /\ UNCHANGED <<call, relay, bk, guest, proc>>

\* A frame that had been read when the connection was closed still goes to the
\* caller's writer, in a cancelled call maybe after the call has returned.
WriteLate ==
    /\ bk.rd = "reading" /\ ~v.h /\ v.gh # <<>> /\ v.gh[1].kind \in Streams
    /\ v' = [v EXCEPT !.gh = <<>>]
    /\ Forward(v.gh[1].kind, v.gh[1].body)
    /\ UNCHANGED <<call, relay, bk, guest, proc>>

\* The frame the reader stops at, or the end of the connection.
LastFrame(kind) == bk.rd = "reading" /\ v.h /\ v.gh # <<>> /\ v.gh[1].kind = kind
Ended == (bk.rd = "reading" /\ HostEOF) \/ (bk.rd = "lost" /\ ~Open(v))

\* execVsock and fileRPC read in the caller's goroutine.
ReadResult ==
    /\ ~Piped
    /\ \/ Ended /\ bk' = [bk EXCEPT !.rd = "done", !.res = "error"]
       \/ /\ LastFrame("result")
          /\ bk' = [bk EXCEPT !.rd = "done", !.res = v.gh[1].body.code,
                              !.out = v.gh[1].body.out]
    /\ UNCHANGED <<call, cli, u, relay, v, guest, proc>>

\* The reader goroutine of the other two posts the outcome on a channel, the
\* one of pipe mode then closes connClosed.
ReadExit ==
    /\ Piped
    /\ \/ Ended /\ bk' = [bk EXCEPT !.rd = "done", !.res = "error"]
       \/ LastFrame("exit") /\ bk' = [bk EXCEPT !.rd = "done", !.res = v.gh[1].body]
    /\ UNCHANGED <<call, cli, u, relay, v, guest, proc>>

\* A reader that has lost the frame borders waits for the bytes of a bogus
\* length until the connection ends.
ReadGarbage ==
    /\ bk.rd = "reading" /\ v.h /\ v.gh # <<>> /\ v.gh[1].kind = "garbage"
    /\ bk' = [bk EXCEPT !.rd = "lost"]
    /\ UNCHANGED <<call, cli, u, relay, v, guest, proc>>

\* The outcome is returned, and the deferred Close follows.
TakeOutcome ==
    /\ bk.pc = "wait" /\ bk.res # "none"
    /\ bk' = [bk EXCEPT !.pc = "done"]
    /\ v' = [v EXCEPT !.h = FALSE]
    /\ UNCHANGED <<call, cli, u, relay, guest, proc>>

\* The other branch of the selects; a terminal session sends SIGTERM first.
TakeCancel ==
    /\ bk.pc = "wait" /\ Piped /\ relay.ctx /\ bk.res # "error"
    /\ bk' = [bk EXCEPT !.pc = "done", !.res = "error"]
    /\ v' = [IF call.mode = "tty" THEN HostWrites(v, Frame("signal", 0)) ELSE v
             EXCEPT !.h = FALSE]
    /\ UNCHANGED <<call, cli, u, relay, guest, proc>>

\* The stdin goroutine: a chunk from the relay's pipe becomes a frame, unless
\* the response reader has finished.
PumpStdin ==
    /\ call.mode = "pipe" /\ bk.in = "reading" /\ relay.sp = "chunk"
    /\ relay' = [relay EXCEPT !.sp = "empty", !.wt = "reading"]
    /\ v' = IF bk.rd = "done" THEN v ELSE HostWrites(v, Frame("stdin", 1))
    /\ bk' = [bk EXCEPT !.in = IF bk.rd = "done" \/ ~Open(v) THEN "done" ELSE "reading"]
    /\ UNCHANGED <<call, cli, u, guest, proc>>

\* A terminal session has a second writer, so its two writes are two steps; it
\* ignores their errors.
PumpHeader ==
    /\ call.mode = "tty" /\ bk.in = "reading" /\ relay.sp = "chunk"
    /\ relay' = [relay EXCEPT !.sp = "empty", !.wt = "reading"]
    /\ v' = HostBegins(v, "stdin")
    /\ bk' = [bk EXCEPT !.in = "half"]
    /\ UNCHANGED <<call, cli, u, guest, proc>>

PumpPayload ==
    /\ bk.in = "half"
    /\ v' = HostEnds(v, "stdin", Frame("stdin", 1))
    /\ bk' = [bk EXCEPT !.in = "reading"]
    /\ UNCHANGED <<call, cli, u, relay, guest, proc>>

\* The end of the pipe: pipe mode passes it on as an empty frame.
PumpEnd ==
    /\ bk.in = "reading" /\ relay.sp = "closed"
    /\ bk' = [bk EXCEPT !.in = "done"]
    /\ v' = IF call.mode = "pipe" /\ bk.rd # "done"
            THEN HostWrites(v, Frame("end", 0)) ELSE v
    /\ UNCHANGED <<call, cli, u, relay, guest, proc>>

PumpResize ==
    /\ call.mode = "tty" /\ bk.pc # "idle" /\ relay.rsz
    /\ relay' = [relay EXCEPT !.rsz = FALSE]
    /\ v' = HostWrites(v, Frame("resize", 0))
    /\ UNCHANGED <<call, cli, u, bk, guest, proc>>

BackendMain == \/ execVsock \/ ExecPipe \/ ExecInteractive \/ fileRPC
               \/ RequestFails \/ TakeOutcome \/ TakeCancel
BackendReader == ReadOutput \/ WriteLate \/ ReadResult \/ ReadExit \/ ReadGarbage
BackendStdin == PumpStdin \/ PumpHeader \/ PumpPayload \/ PumpEnd
=============================================================================
