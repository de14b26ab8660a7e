---------------------------- MODULE MCRPCSession ----------------------------
(* Instances of RPCSession: create, one or two more calls, and Close.      *)
EXTENDS RPCSession, TLC

CONSTANTS c1, c2, c3

TwoCalls == {c1, c2}
ThreeCalls == {c1, c2, c3}

\* c1 makes the VM.  c2 may be made at any time, c3 is made after create.
MCScenarios ==
    {c1 :> "create" @@ c2 :> k @@ c3 :> "none" : k \in {"exec", "pipe"}}
    \cup {c1 :> "create" @@ c2 :> "none" @@ c3 :> k : k \in {"call", "follow", "tty"}}
    \cup {c1 :> "create" @@ c2 :> "forward" @@ c3 :> "forward"}

\* Two calls: the VM and one command without or with stdin.
ExecScenario == {c1 :> "create" @@ c2 :> "exec"}
PipeScenario == {c1 :> "create" @@ c2 :> "pipe"}
=============================================================================
