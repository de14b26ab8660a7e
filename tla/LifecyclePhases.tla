--------------------------- MODULE LifecyclePhases --------------------------
(***************************************************************************)
(* The phases of a VM and the transitions SetPhase accepts:                *)
(* pkg/lifecycle/state_machine.go and the Phase constants of record.go.    *)
(***************************************************************************)

\* "" is the Go zero value: no record, which validateTransition reads as
\* creating.
NoPhase == ""

Phases == {"creating", "created", "starting", "running", "stopping", "stopped",
           "cleaning", "cleaned", "create_failed", "start_failed",
           "stop_failed", "cleanup_failed"}

allowedTransitions ==
    [creating       |-> {"creating", "created", "create_failed", "cleaning"},
     created        |-> {"created", "starting", "stopping", "cleaning"},
     starting       |-> {"starting", "running", "start_failed", "stopping",
                         "cleaning"},
     running        |-> {"running", "stopping", "cleaning"},
     stopping       |-> {"stopping", "stopped", "stop_failed", "cleaning"},
     stopped        |-> {"stopped", "cleaning", "cleaned"},
     cleaning       |-> {"cleaning", "cleaned", "cleanup_failed"},
     create_failed  |-> {"create_failed", "cleaning", "cleanup_failed"},
     start_failed   |-> {"start_failed", "stopping", "cleaning",
                         "cleanup_failed"},
     stop_failed    |-> {"stop_failed", "cleaning", "cleanup_failed"},
     cleanup_failed |-> {"cleanup_failed", "cleaning", "cleaned"},
     cleaned        |-> {"cleaned"}]

\* TRUE when validateTransition returns nil.
validateTransition(from, to) ==
    to \in allowedTransitions[IF from = NoPhase THEN "creating" ELSE from]
=============================================================================
