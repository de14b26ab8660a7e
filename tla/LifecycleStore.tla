--------------------------- MODULE LifecycleStore ---------------------------
(***************************************************************************)
(* pkg/lifecycle/record.go: the append-only lifecycle records of one VM.   *)
(*                                                                         *)
(* A Store's mutex serialises the updates of one process.  Across          *)
(* processes an update is two transactions: loadNoLock reads the newest    *)
(* record, saveNoLock appends the edited copy under a version number taken *)
(* inside BEGIN IMMEDIATE.  Another process may append between the two.    *)
(* A writer is one Store together with the calls its process makes on it,  *)
(* in order: the supervisor of the VM, or a `gc`, `rm` or `prune` that     *)
(* reconciles it.                                                          *)
(***************************************************************************)
EXTENDS Integers, Sequences, LifecyclePhases

CONSTANTS Writers,      \* Store values, each in a process of its own
          Steps,        \* names of cleanup steps ("subnet_release", ...)
          Program,      \* Program[w]: the calls w makes, in order
          MaxAttempts   \* recordWriteRetryAttempts (8 in the code)

ASSUME AttemptsAssumption == MaxAttempts \in Nat \ {0}

VARIABLES history,      \* vm_lifecycle rows of the VM, by version
          head,         \* vm_lifecycle_head.last_version, 0 without a row
          status,       \* vms.status: "running" until Unregister
          writer        \* writer[w]: where w is in its program

vars == <<history, head, status, writer>>

Marks == {"absent", "ok", "error"}

Record == [version : Nat, phase : Phases, err : BOOLEAN,
           cleanup : [Steps -> Marks]]

\* What loadNoLock returns when there is no row.
EmptyRecord == [version |-> 0, phase |-> "creating", err |-> FALSE,
                cleanup |-> [s \in Steps |-> "absent"]]

\* els: the call the process continues with when this one fails, 0 when it
\* ignores or collects the error and goes on.
Op == [kind : {"Init", "SetResource", "Unregister", "CheckStopped"}, els : Nat]
      \cup [kind : {"SetPhase"}, phase : Phases, els : Nat]
      \cup [kind : {"SetLastError"}, err : BOOLEAN, els : Nat]
      \cup [kind : {"MarkCleanup"}, step : Steps, mark : {"ok", "error"},
            els : Nat]

ASSUME ProgramAssumption == \A w \in Writers : Program[w] \in Seq(Op)

\* Calls that read and write the vms row instead of the lifecycle records.
IsStateOp(op) == op.kind \in {"Unregister", "CheckStopped"}

WriterState == [pc : {"call", "save"}, ip : Nat \ {0}, rec : Record,
                attempt : 0..(MaxAttempts - 1)]

LifecycleInit ==
    /\ history = <<>>
    /\ head = 0
    /\ status = "running"
    /\ writer = [w \in Writers |-> [pc |-> "call", ip |-> 1,
                                    rec |-> EmptyRecord, attempt |-> 0]]

Done(w) == writer[w].ip > Len(Program[w])

CurrentOp(w) == Program[w][writer[w].ip]

Continue(w, i) ==
    writer' = [writer EXCEPT ![w] = [pc |-> "call", ip |-> i,
                                     rec |-> EmptyRecord, attempt |-> 0]]

\* The call returns nil and the next one begins.
NextCall(w) == Continue(w, writer[w].ip + 1)

\* The call returns an error.
FailCall(w) ==
    Continue(w, IF CurrentOp(w).els = 0 THEN writer[w].ip + 1
                                        ELSE CurrentOp(w).els)

-----------------------------------------------------------------------------
(* updateFn of SetPhase, SetLastError, SetResource and MarkCleanup.        *)

\* SetPhase mutated: it assigns the phase without validateTransition.
AcceptsAny(op, rec) == TRUE

Accepts(op, rec) ==
    op.kind = "SetPhase" => validateTransition(rec.phase, op.phase)

\* SetPhase mutated: it saves a record made anew, without the marks.
EditedAfresh(op, rec) ==
    CASE op.kind = "Init"         -> EmptyRecord
      [] op.kind = "SetResource"  -> rec
      [] op.kind = "SetPhase"     -> [EmptyRecord EXCEPT !.phase = op.phase,
                                                         !.version = rec.version]
      [] op.kind = "SetLastError" -> [rec EXCEPT !.err = op.err]
      [] op.kind = "MarkCleanup"  -> [rec EXCEPT !.cleanup[op.step] = op.mark]

Edited(op, rec) ==
    CASE op.kind = "Init"         -> EmptyRecord
      [] op.kind = "SetResource"  -> rec
      [] op.kind = "SetPhase"     -> [rec EXCEPT !.phase = op.phase]
      [] op.kind = "SetLastError" -> [rec EXCEPT !.err = op.err]
      [] op.kind = "MarkCleanup"  -> [rec EXCEPT !.cleanup[op.step] = op.mark]

\* loadNoLock: the row with the greatest version.
Loaded == IF history = <<>> THEN EmptyRecord ELSE history[Len(history)]

(* Load and edit: the process holds the edited copy, nothing is locked in  *)
(* the database.                                                           *)
Load(w) ==
    /\ ~Done(w) /\ writer[w].pc = "call"
    /\ ~IsStateOp(CurrentOp(w))
    /\ Accepts(CurrentOp(w), Loaded)
    /\ writer' = [writer EXCEPT ![w] =
                     [pc |-> "save", ip |-> writer[w].ip, attempt |-> 0,
                      rec |-> Edited(CurrentOp(w), Loaded)]]
    /\ UNCHANGED <<history, head, status>>

(* updateFn returns ErrInvalidPhase, or the SELECT fails: nothing is saved. *)
LoadRefused(w) ==
    /\ ~Done(w) /\ writer[w].pc = "call"
    /\ ~IsStateOp(CurrentOp(w))
    /\ CurrentOp(w).kind # "Init"
    /\ FailCall(w)
    /\ UNCHANGED <<history, head, status>>

-----------------------------------------------------------------------------
(* saveAttemptNoLock: BEGIN IMMEDIATE; bump the head; INSERT; COMMIT.      *)

\* nextLifecycleVersion mutated: the version of the loaded copy plus one.
nextVersionOfCopy(rec) == rec.version + 1

\* The head row of the VM is bumped inside the transaction.
nextLifecycleVersion(rec) == head + 1

SaveAttempt(w) ==
    /\ writer[w].pc = "save"
    /\ LET v == nextLifecycleVersion(writer[w].rec)
       IN  /\ head' = v
           /\ history' = Append(history, [writer[w].rec EXCEPT !.version = v])
    /\ NextCall(w)
    /\ UNCHANGED status

\* SaveBusy mutated: no bound on the number of attempts.
SaveBusyForever(w) ==
    /\ writer[w].pc = "save"
    /\ writer' = [writer EXCEPT ![w].attempt = (@ + 1) % MaxAttempts]
    /\ UNCHANGED <<history, head, status>>

\* SaveBusy mutated: one attempt too many.
SaveBusyOnceMore(w) ==
    /\ writer[w].pc = "save"
    /\ writer[w].attempt < MaxAttempts
    /\ writer' = [writer EXCEPT ![w].attempt = @ + 1]
    /\ UNCHANGED <<history, head, status>>

(* SQLITE_BUSY or SQLITE_LOCKED: the transaction is rolled back and tried  *)
(* again, recordWriteRetryAttempts times in all.                           *)
SaveBusy(w) ==
    /\ writer[w].pc = "save"
    /\ writer[w].attempt + 1 < MaxAttempts
    /\ writer' = [writer EXCEPT ![w].attempt = @ + 1]
    /\ UNCHANGED <<history, head, status>>

(* The last attempt met a busy database too, or an attempt failed with an  *)
(* error that is not busy, which is not tried again.                       *)
SaveGivesUp(w) ==
    /\ writer[w].pc = "save"
    /\ FailCall(w)
    /\ UNCHANGED <<history, head, status>>

-----------------------------------------------------------------------------
(* state.Manager.Unregister, in the middle of Sandbox.Close. *)
Unregister(w) ==
    /\ ~Done(w) /\ writer[w].pc = "call"
    /\ CurrentOp(w).kind = "Unregister"
    /\ status' = "stopped"
    /\ NextCall(w)
    /\ UNCHANGED <<history, head>>

(* ReconcileVM's check of the row.  A running VM whose supervisor is alive *)
(* is skipped (ErrVMRunning), which ends the command; it is reconciled     *)
(* when its pid is dead, or with --force-running.  The pid is SandboxHost's:*)
(* here a running VM may be taken either way.                              *)
CheckStopped(w) ==
    /\ ~Done(w) /\ writer[w].pc = "call"
    /\ CurrentOp(w).kind = "CheckStopped"
    /\ NextCall(w) \/ (status = "running" /\ FailCall(w))
    /\ UNCHANGED <<history, head, status>>

WriterStep(w) ==
    \/ Load(w)
    \/ LoadRefused(w)
    \/ SaveAttempt(w)
    \/ SaveBusy(w)
    \/ SaveGivesUp(w)
    \/ Unregister(w)
    \/ CheckStopped(w)

\* A writer's process is killed: its copy is lost with it.
Killed(w) ==
    /\ ~Done(w)
    /\ Continue(w, Len(Program[w]) + 1)
    /\ UNCHANGED <<history, head, status>>

AllDone == (\A w \in Writers : Done(w)) /\ UNCHANGED vars

LifecycleNext == (\E w \in Writers : WriterStep(w) \/ Killed(w)) \/ AllDone

LifecycleSpec == LifecycleInit /\ [][LifecycleNext]_vars

\* A writer is a running thread; each attempt ends within busy_timeout.
FairLifecycleSpec ==
    LifecycleSpec /\ \A w \in Writers : WF_vars(WriterStep(w))

-----------------------------------------------------------------------------
LifecycleTypeOK ==
    /\ history \in Seq(Record)
    /\ head \in Nat
    /\ status \in {"running", "stopped"}
    /\ writer \in [Writers -> WriterState]

(***************************************************************************)
(* The versions of a VM are 1, 2, 3, ... whatever processes append         *)
(* (record_test.go, TestStoreAppendOnlyVersions, for one process): a save  *)
(* never collides with another one on the primary key (vm_id, version).    *)
(***************************************************************************)
VersionsDense ==
    /\ head = Len(history)
    /\ \A i \in 1..Len(history) : history[i].version = i

\* No process has appended a record since w loaded its copy, which keeps the
\* version it was loaded with.
Undisturbed(w) == writer[w].pc = "save" /\ writer[w].rec.version = head

\* w's transaction commits in this step.
Saves(w) == history' # history /\ writer'[w] # writer[w]

(***************************************************************************)
(* "Phases are validated through an allowed-transition state machine"      *)
(* (docs/lifecycle.md), although the check and the save are two            *)
(* transactions: whatever other processes do before and after, a save that *)
(* no other one slipped in front of appends a phase that may follow the    *)
(* newest one.                                                             *)
(***************************************************************************)
UpdatesFollowStateMachine ==
    [][\A w \in Writers : Undisturbed(w) /\ Saves(w) =>
          validateTransition(Loaded.phase, history'[Len(history')].phase)]_vars

(***************************************************************************)
(* A cleanup step that was recorded is still on the newest record, where   *)
(* the operator reads the steps of a failed cleanup: a save loses a mark   *)
(* only when another process's save slipped in front of it, or when Init   *)
(* starts over.                                                            *)
(***************************************************************************)
UpdatesKeepMarks ==
    [][\A w \in Writers, s \in Steps :
          Undisturbed(w) /\ Saves(w) /\ Loaded.cleanup[s] # "absent"
          => history'[Len(history')].cleanup[s] # "absent"]_vars

(***************************************************************************)
(* Every writer finishes its calls: the retry loop is bounded.             *)
(***************************************************************************)
WritersFinish == \A w \in Writers : <>Done(w)

-----------------------------------------------------------------------------
\* Behind the two properties on updates: a copy about to be saved is not newer
\* than the newest record and, when it is as new, it is that record with one
\* call's edit, which validateTransition accepted.
CopiesAreCurrent ==
    \A w \in Writers : writer[w].pc = "save" =>
        /\ ~Done(w) /\ ~IsStateOp(CurrentOp(w))
        /\ writer[w].rec.version <= head
        /\ Undisturbed(w) => /\ Accepts(CurrentOp(w), Loaded)
                             /\ writer[w].rec = Edited(CurrentOp(w), Loaded)
=============================================================================
