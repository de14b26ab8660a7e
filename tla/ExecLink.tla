------------------------------ MODULE ExecLink ------------------------------
(***************************************************************************)
(* The state of one command run in a sandbox, and the two connections it   *)
(* travels over: the Unix socket between `matchlock exec` and the exec     *)
(* relay (u), and the vsock stream between the VM backend and the guest    *)
(* agent (v).  A call of the host process itself (RPC handler, `matchlock  *)
(* run`) uses only v.  Both are reliable byte streams cut into frames of a *)
(* header and a payload; what was written before a close is still read.    *)
(***************************************************************************)
EXTENDS Integers, Sequences, FiniteSets, SequencesExt

CONSTANTS Calls,    \* the calls: their kind, who makes them, and the bounds
                    \* on the chunks of input sent and output written
          PipeCap   \* stdin chunks the command's pipe holds unread

ASSUME ExecBounds ==
    /\ PipeCap \in Nat \ {0}
    /\ \A c \in Calls : /\ c.mode \in {"batch", "stream", "pipe", "tty", "file"}
                        /\ c.via \in {"relay", "direct"}
                        /\ c.ins \in Nat /\ c.outs \in Nat

VARIABLES call,   \* the kind of this call
          cli,    \* the caller: matchlock exec, or a part of the host process
          u,      \* the relay connection
          relay,  \* the relay's handler and the goroutine reading the client
          bk,     \* the backend's call and its goroutines
          v,      \* the vsock connection
          guest,  \* the agent's handler and its goroutines
          proc    \* the command's process and its pipes

execVars == <<call, cli, u, relay, bk, v, guest, proc>>

Streams == {"stdout", "stderr"}
PerStream(x) == [s \in Streams |-> x]

Frame(kind, body) == [kind |-> kind, body |-> body]

\* A write reaches the stream only while both ends are open; a write error is
\* what the writers ignore or return on.
Sent(q, ends, f) == IF ends THEN Append(q, f) ELSE q

\* SendMessage and the agent's sendMessage write header and payload with two
\* calls.  half is the writer that is between them; a frame another writer
\* starts there is read as payload, and the reader of the stream is lost.
Open(l) == l.h /\ l.g
Begins(l, w) == IF l.half = "none"
                THEN [l EXCEPT !.half = w]
                ELSE [l EXCEPT !.half = w, !.torn = TRUE,
                               !.gh = Sent(@, Open(l), Frame("garbage", 0))]
Ends(l, w, f) == IF l.half = w
                 THEN [l EXCEPT !.half = "none", !.gh = Sent(@, Open(l), f)]
                 ELSE l
Writes(l, f) == IF l.half = "none"
                THEN [l EXCEPT !.gh = Sent(@, Open(l), f)]
                ELSE [l EXCEPT !.torn = TRUE,
                               !.gh = Sent(@, Open(l), Frame("garbage", 0))]

\* The same for the frames to the guest.
HostBegins(l, w) == IF l.halfH = "none"
                    THEN [l EXCEPT !.halfH = w]
                    ELSE [l EXCEPT !.halfH = w, !.torn = TRUE,
                                   !.hg = Sent(@, Open(l), Frame("garbage", 0))]
HostEnds(l, w, f) == IF l.halfH = w
                     THEN [l EXCEPT !.halfH = "none", !.hg = Sent(@, Open(l), f)]
                     ELSE l
HostWrites(l, f) == IF l.halfH = "none"
                    THEN [l EXCEPT !.hg = Sent(@, Open(l), f)]
                    ELSE [l EXCEPT !.torn = TRUE,
                                   !.hg = Sent(@, Open(l), Frame("garbage", 0))]

GuestEOF == v.hg = <<>> /\ ~v.h
HostEOF == ~v.h \/ (v.gh = <<>> /\ ~v.g)
ClientEOF == u.rc = <<>> /\ ~u.r
RelayEOF == ~u.r \/ (u.cr = <<>> /\ ~u.c)

\* ExitCode() is -1 for a command ended by a signal; sendExitCode and
\* relayMsgExit carry it as a uint32, the JSON results as it is.
Encoded(code) == IF code = "signal" THEN "wrapped" ELSE code

ExecInit ==
    /\ call \in Calls
    /\ cli = [pc |-> IF call.via = "relay" THEN "idle" ELSE "wait",
              left |-> call.ins,
              ended |-> FALSE, resized |-> FALSE,
              out |-> PerStream(<<>>), ret |-> "none", cut |-> FALSE]
    /\ u = [cr |-> <<>>, rc |-> <<>>, c |-> FALSE, r |-> FALSE]
    /\ relay = [pc |-> IF call.via = "relay" THEN "listen" ELSE "exec",
                wt |-> "off", ctx |-> FALSE, sp |-> "empty", rsz |-> FALSE,
                up |-> TRUE]
    /\ bk = [pc |-> "idle", in |-> "off", rd |-> "off", res |-> "none",
           out |-> PerStream(0)]
    /\ v = [hg |-> <<>>, gh |-> <<>>, h |-> FALSE, g |-> FALSE, up |-> TRUE,
            half |-> "none", halfH |-> "none", torn |-> FALSE]
    /\ guest = [pc |-> "none", reader |-> "off", w |-> PerStream("off"),
                timer |-> FALSE]
    /\ proc = [st |-> "none", code |-> "none", in |-> 0,
               out |-> PerStream(0), pipe |-> PerStream(0), sig |-> {}]
=============================================================================
