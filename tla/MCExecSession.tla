--------------------------- MODULE MCExecSession ---------------------------
(* The instances of ExecSession that TLC checks. *)
EXTENDS ExecSession

A(mode, via, ins, outs) == [mode |-> mode, via |-> via, ins |-> ins, outs |-> outs]

AllCalls == {A("batch", "relay", 0, 1), A("batch", "direct", 0, 1),
             A("pipe", "relay", 2, 0), A("pipe", "relay", 0, 2),
             A("pipe", "direct", 0, 1),
             A("tty", "relay", 1, 1), A("tty", "direct", 0, 1),
             A("stream", "direct", 0, 2), A("file", "direct", 0, 0)}
PipeCalls == {A("pipe", "relay", 1, 0)}
=============================================================================
