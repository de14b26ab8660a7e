----------------------------- MODULE ExecRelay -----------------------------
(***************************************************************************)
(* The exec relay of the process that owns the VM, and its client,         *)
(* `matchlock exec`.  The relay's handler calls the backend; its second    *)
(* goroutine reads the client's frames, hands stdin on through an io.Pipe  *)
(* (one chunk at a time, the writer waits for the reader) and notices the  *)
(* client's disconnection.                                                 *)
(***************************************************************************)
EXTENDS ExecBackend

Rest == UNCHANGED <<call, v, guest, proc>>

-----------------------------------------------------------------------------
(* The client. *)

\* net.Dial on the relay's socket and the request.
Connected(modes) ==
    /\ cli.pc = "idle" /\ call.mode \in modes
    /\ IF relay.up
       THEN /\ u' = [u EXCEPT !.c = TRUE, !.r = TRUE,
                              !.cr = <<Frame("req", call.mode)>>]
            /\ cli' = [cli EXCEPT !.pc = "wait"]
       ELSE /\ cli' = [cli EXCEPT !.pc = "done", !.ret = "error", !.cut = TRUE]
            /\ UNCHANGED u
    /\ UNCHANGED <<relay, bk>> /\ Rest

ExecViaRelay == Connected({"batch"})
ExecPipeViaRelay == Connected({"pipe"})
ExecInteractiveViaRelay == Connected({"tty"})

\* The goroutine that copies os.Stdin; in pipe mode its end is an empty frame.
SendStdin ==
    /\ Piped /\ call.via = "relay" /\ cli.pc = "wait" /\ ~cli.ended
    /\ \/ /\ cli.left > 0
          /\ cli' = [cli EXCEPT !.left = @ - 1]
          /\ u' = [u EXCEPT !.cr = Sent(@, u.r, Frame("stdin", 1))]
       \/ /\ cli' = [cli EXCEPT !.ended = TRUE]
          /\ u' = IF call.mode = "pipe"
                  THEN [u EXCEPT !.cr = Sent(@, u.r, Frame("end", 0))] ELSE u
    /\ UNCHANGED <<relay, bk>> /\ Rest

SendResize ==
    /\ call.mode = "tty" /\ call.via = "relay" /\ cli.pc = "wait" /\ ~cli.resized
    /\ cli' = [cli EXCEPT !.resized = TRUE]
    /\ u' = [u EXCEPT !.cr = Sent(@, u.r, Frame("resize", 0))]
    /\ UNCHANGED <<relay, bk>> /\ Rest

\* The client returns what it read and closes the connection.
Returns(ret) == /\ cli' = [cli EXCEPT !.pc = "done", !.ret = ret]
                /\ u' = [u EXCEPT !.c = FALSE]

FirstN(n) == [i \in 1..n |-> i]

ReceiveReply ==
    /\ cli.pc = "wait" /\ call.via = "relay" /\ call.mode = "batch"
    /\ \/ /\ u.rc # <<>>
          /\ u' = [u EXCEPT !.c = FALSE]
          /\ cli' = [cli EXCEPT !.pc = "done", !.ret = u.rc[1].body.code,
                        !.out = [s \in Streams |-> FirstN(u.rc[1].body.out[s])]]
       \/ ClientEOF /\ Returns("error")
    /\ UNCHANGED <<relay, bk>> /\ Rest

\* The reader goroutine of the other two, and the select that ends them.
ReceiveFrame ==
    /\ cli.pc = "wait" /\ call.via = "relay" /\ Piped
    /\ \/ /\ u.rc # <<>> /\ u.rc[1].kind \in Streams
          /\ cli' = [cli EXCEPT !.out[u.rc[1].kind] = Append(@, u.rc[1].body)]
          /\ u' = [u EXCEPT !.rc = Tail(@)]
       \/ /\ u.rc # <<>> /\ u.rc[1].kind = "exit"
          /\ Returns(u.rc[1].body)
       \/ ClientEOF /\ Returns("error")
    /\ UNCHANGED <<relay, bk>> /\ Rest

\* A signal cancels the context, or the client process dies.
Disconnect ==
    /\ cli.pc = "wait" /\ call.via = "relay"
    /\ cli' = [cli EXCEPT !.pc = "done", !.ret = "error", !.cut = TRUE]
    /\ u' = [u EXCEPT !.c = FALSE]
    /\ UNCHANGED <<relay, bk>> /\ Rest

-----------------------------------------------------------------------------
(* A caller in the host process: the RPC handler or matchlock run. *)

CancelCall ==
    /\ call.via = "direct" /\ cli.pc = "wait" /\ ~relay.ctx
    /\ relay' = [relay EXCEPT !.ctx = TRUE]
    /\ cli' = [cli EXCEPT !.cut = TRUE]
    /\ UNCHANGED <<u, bk>> /\ Rest

ReceiveResult ==
    /\ call.via = "direct" /\ cli.pc = "wait" /\ bk.pc = "done"
    /\ cli' = [cli EXCEPT !.pc = "done", !.ret = bk.res,
                !.out = IF call.mode = "batch"
                        THEN [s \in Streams |-> FirstN(bk.out[s])] ELSE @]
    /\ relay' = [relay EXCEPT !.pc = "done"]
    /\ UNCHANGED <<u, bk>> /\ Rest

-----------------------------------------------------------------------------
(* The relay. *)

\* handleConn reads the request and calls the handler, which starts the
\* goroutine that reads the client.
Handles(modes) ==
    /\ relay.pc = "listen" /\ u.r /\ u.cr # <<>> /\ u.cr[1].body \in modes
    /\ u' = [u EXCEPT !.cr = Tail(@)]
    /\ relay' = [relay EXCEPT !.pc = "exec", !.wt = "reading"]
    /\ UNCHANGED <<cli, bk>> /\ Rest

HandleExec == Handles({"batch"})
HandleExecPipe == Handles({"pipe"})
HandleExecInteractive == Handles({"tty"})

\* That goroutine: stdin waits in the pipe until the backend takes it.
Watch(k) == relay.wt = "reading" /\ u.r /\ u.cr # <<>> /\ u.cr[1].kind = k

WatchStdin ==
    /\ Watch("stdin")
    /\ relay' = [relay EXCEPT !.sp = "chunk", !.wt = "blocked"]
    /\ u' = [u EXCEPT !.cr = Tail(@)]
    /\ UNCHANGED <<cli, bk>> /\ Rest

\* The empty frame ends the goroutine, and with it the watch for the client.
WatchStdinEnd ==
    /\ Watch("end")
    /\ relay' = [relay EXCEPT !.sp = "closed", !.wt = "done"]
    /\ u' = [u EXCEPT !.cr = Tail(@)]
    /\ UNCHANGED <<cli, bk>> /\ Rest

\* A resize that finds the channel full is dropped.
WatchResize ==
    /\ Watch("resize")
    /\ relay' = [relay EXCEPT !.rsz = TRUE]
    /\ u' = [u EXCEPT !.cr = Tail(@)]
    /\ UNCHANGED <<cli, bk>> /\ Rest

\* The client is gone, or the handler has returned and closed the connection:
\* batch and pipe cancel the call, a terminal session goes on.
WatchHangup ==
    /\ relay.wt = "reading" /\ RelayEOF
    /\ relay' = [relay EXCEPT !.wt = "done", !.sp = "closed",
                              !.ctx = @ \/ call.mode # "tty"]
    /\ UNCHANGED <<cli, u, bk>> /\ Rest

\* The handler sends the answer; on return its context is cancelled and the
\* connection closed.
Replies(f) ==
    /\ call.via = "relay" /\ relay.pc = "exec" /\ bk.pc = "done"
    /\ relay' = [relay EXCEPT !.pc = "done", !.ctx = @ \/ call.mode # "tty"]
    /\ u' = [u EXCEPT !.r = FALSE, !.rc = Sent(@, u.c, f)]
    /\ UNCHANGED <<cli, bk>> /\ Rest

ReplyResult == call.mode = "batch" /\ Replies(Result(bk.res, bk.out))

\* Pipe and terminal answer an error with exit status 1.
ReplyExit == Piped /\ Replies(Frame("exit", IF bk.res = "error" THEN "one" ELSE bk.res))

\* Stop closes the listener; connections in progress go on.
StopRelay ==
    /\ relay.up /\ cli.pc = "idle"
    /\ relay' = [relay EXCEPT !.up = FALSE]
    /\ UNCHANGED <<cli, u, bk>> /\ Rest

CallerSteps == \/ ExecViaRelay \/ ExecPipeViaRelay \/ ExecInteractiveViaRelay
               \/ ReceiveReply \/ ReceiveFrame \/ ReceiveResult
RelayMain == \/ HandleExec \/ HandleExecPipe \/ HandleExecInteractive
             \/ ReplyResult \/ ReplyExit
RelayWatcher == WatchStdin \/ WatchStdinEnd \/ WatchResize \/ WatchHangup
=============================================================================
