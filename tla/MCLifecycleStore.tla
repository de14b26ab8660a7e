--------------------------- MODULE MCLifecycleStore -------------------------
(* The calls made on the lifecycle store by sandbox.New and Close and by   *)
(* Reconciler.ReconcileVM, with the cleanup marks cut down to two steps.   *)
EXTENDS LifecycleStore, TLC

CONSTANTS supervisor, reconciler

MCSteps == {"subnet_release", "machine_close"}

\* Calls whose error is ignored or collected.
Phase(p) == [kind |-> "SetPhase", phase |-> p, els |-> 0]
LastError(b) == [kind |-> "SetLastError", err |-> b, els |-> 0]
Mark(s, m) == [kind |-> "MarkCleanup", step |-> s, mark |-> m, els |-> 0]
Plain(k) == [kind |-> k, els |-> 0]

\* A call whose error makes the caller continue at call n.
Or(op, n) == [op EXCEPT !.els = n]

Never == 99

\* sandbox.New, less the calls that keep the phase; a failed Init ends it.
New == <<Or(Plain("Init"), Never), Phase("created")>>

\* Sandbox.Close, also after a New or Start that failed.
Close ==
    <<Phase("stopping"), Phase("cleaning"), Mark("subnet_release", "ok"),
      Plain("Unregister"), Mark("machine_close", "ok"), Phase("cleaned")>>

\* ReconcileVM with a step that fails.
ReconcileFails ==
    <<Or(Plain("CheckStopped"), Never), Phase("cleaning"),
      Mark("subnet_release", "error"), LastError(TRUE),
      Phase("cleanup_failed")>>

MCWriters == {supervisor, reconciler}

\* The life of a VM, and at any time a `gc` of it.
MCProgram ==
    [w \in MCWriters |-> IF w = supervisor THEN New \o Close
                                          ELSE ReconcileFails]
=============================================================================
