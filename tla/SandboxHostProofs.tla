-------------------------- MODULE SandboxHostProofs -------------------------
(***************************************************************************)
(* Proofs about SandboxHost: its type invariant, that commands spare a VM  *)
(* that has an owner, that no host resource of a VM outlives the VM's row, *)
(* that a record saying cleaned is true, and that a running VM keeps what  *)
(* it runs on.  SupervisorEffect and CommandEffect say once what the steps *)
(* of a supervisor and of a command do; the invariants rest on them.       *)
(***************************************************************************)
EXTENDS SandboxHost, TLAPS

-----------------------------------------------------------------------------
(* What the helper operators do to the variable they change.               *)

(* The record of a process between commands is well typed.                 *)
LEMMA IdleAdminType == IdleAdmin \in AdminState
<1>1. (CHOOSE v \in VMs : TRUE) \in VMs
  BY HostAssumption
<1> QED
  BY <1>1 DEF IdleAdmin, AdminState, AdminPCs, AllCommands

(* A SetPhase of pkg/lifecycle leaves a phase in the record.               *)
LEMMA SetPhaseType ==
  ASSUME phase \in [VMs -> Phases \cup {NoPhase}],
         NEW v \in VMs, NEW p \in Phases, TrySetPhase(v, p) \/ SetPhase(v, p)
  PROVE  phase' \in [VMs -> Phases \cup {NoPhase}]
BY DEF TrySetPhase, SetPhase

(* Replacing the record of one process leaves the others alone.            *)
LEMMA AdminUpdate ==
  ASSUME adm \in [Admins -> AdminState], NEW q \in Admins,
         NEW a \in AdminState, adm' = [adm EXCEPT ![q] = a]
  PROVE  /\ adm' \in [Admins -> AdminState]
         /\ adm'[q] = a
         /\ \A r \in Admins \ {q} : adm'[r] = adm[r]
OBVIOUS

(* A step of a command changes its place and nothing else.                 *)
LEMMA AdminGotoFields ==
  ASSUME adm \in [Admins -> AdminState], NEW q \in Admins, NEW l \in AdminPCs,
         AdminGoto(q, l)
  PROVE  /\ adm' \in [Admins -> AdminState]
         /\ adm'[q].pc = l
         /\ adm'[q].cmd = adm[q].cmd /\ adm'[q].force = adm[q].force
         /\ adm'[q].vm = adm[q].vm /\ adm'[q].bad = adm[q].bad
         /\ adm'[q].todo = adm[q].todo /\ adm'[q].seen = adm[q].seen
         /\ \A r \in Admins \ {q} : adm'[r] = adm[r]
<1> DEFINE a == [adm[q] EXCEPT !.pc = l]
<1>1. a \in AdminState
  BY DEF AdminState
<1>2. /\ a.pc = l /\ a.cmd = adm[q].cmd /\ a.force = adm[q].force
      /\ a.vm = adm[q].vm /\ a.bad = adm[q].bad
      /\ a.todo = adm[q].todo /\ a.seen = adm[q].seen
  BY DEF AdminState
<1>3. adm' = [adm EXCEPT ![q] = a]
  BY DEF AdminGoto
<1> HIDE DEF a
<1> QED
  BY <1>1, <1>2, <1>3, AdminUpdate

(* A failed cleanup step sets bad as well.                                 *)
LEMMA RecFailsFields ==
  ASSUME adm \in [Admins -> AdminState], NEW q \in Admins, NEW l \in AdminPCs,
         RecFails(q, l)
  PROVE  /\ adm' \in [Admins -> AdminState]
         /\ adm'[q].pc = l /\ adm'[q].bad
         /\ adm'[q].cmd = adm[q].cmd /\ adm'[q].force = adm[q].force
         /\ adm'[q].vm = adm[q].vm
         /\ adm'[q].todo = adm[q].todo /\ adm'[q].seen = adm[q].seen
         /\ \A r \in Admins \ {q} : adm'[r] = adm[r]
<1> DEFINE a == [adm[q] EXCEPT !.pc = l, !.bad = TRUE]
<1>1. a \in AdminState
  BY DEF AdminState
<1>2. /\ a.pc = l /\ a.bad /\ a.cmd = adm[q].cmd /\ a.force = adm[q].force
      /\ a.vm = adm[q].vm /\ a.todo = adm[q].todo /\ a.seen = adm[q].seen
  BY DEF AdminState
<1>3. adm' = [adm EXCEPT ![q] = a]
  BY DEF RecFails
<1> HIDE DEF a
<1> QED
  BY <1>1, <1>2, <1>3, AdminUpdate


-----------------------------------------------------------------------------
(* Type correctness, action by action.                                     *)

(* sandbox.New and its error paths keep the types.                         *)
LEMMA NewStepType ==
  ASSUME HostTypeOK, NEW v \in VMs, NewStep(v)
  PROVE  HostTypeOK'
<1>1. ASSUME LifecycleInit(v)  PROVE HostTypeOK'
  BY <1>1 DEF HostTypeOK, PoolTypeOK, LifecycleInit, Goto, dbVars, hostVars,
    supVars, SupervisorPCs, NewPCs, NewFailPCs, LivePCs, ClosePCs, Phases
<1>2. ASSUME CreateDisks(v)  PROVE HostTypeOK'
  <2>1. pc' \in [VMs -> SupervisorPCs]
    BY <1>2 DEF HostTypeOK, CreateDisks, Goto, SupervisorPCs, NewPCs, NewFailPCs
  <2>2. disks' \in [VMs -> BOOLEAN]
    BY <1>2 DEF HostTypeOK, CreateDisks
  <2> QED
    BY <1>2, <2>1, <2>2 DEF HostTypeOK, PoolTypeOK, CreateDisks, dbVars
<1>3. ASSUME AllocateSubnet(v)  PROVE HostTypeOK'
  BY <1>3 DEF HostTypeOK, PoolTypeOK, AllocateSubnet, Grant, Goto, dbVars,
    hostVars, supVars, SupervisorPCs, NewPCs, NewFailPCs, LivePCs, ClosePCs
<1>4. ASSUME SkipSubnet(v)  PROVE HostTypeOK'
  BY <1>4 DEF HostTypeOK, PoolTypeOK, SkipSubnet, Goto, dbVars, hostVars,
    supVars, SupervisorPCs, NewPCs, NewFailPCs, LivePCs, ClosePCs
<1>5. ASSUME FailBeforeSubnet(v)  PROVE HostTypeOK'
  BY <1>5 DEF HostTypeOK, PoolTypeOK, FailBeforeSubnet, Goto, dbVars,
    hostVars, supVars, SupervisorPCs, NewPCs, NewFailPCs, LivePCs, ClosePCs
<1>6. ASSUME CreateMachine(v)  PROVE HostTypeOK'
  BY <1>6 DEF HostTypeOK, PoolTypeOK, CreateMachine, Goto, dbVars, hostVars,
    supVars, SupervisorPCs, NewPCs, NewFailPCs, LivePCs, ClosePCs
<1>7. ASSUME FailBeforeMachine(v)  PROVE HostTypeOK'
  BY <1>7 DEF HostTypeOK, PoolTypeOK, FailBeforeMachine, TapBusy, Goto, dbVars,
    hostVars, supVars, SupervisorPCs, NewPCs, NewFailPCs, LivePCs, ClosePCs
<1>8. ASSUME SetupNetwork(v)  PROVE HostTypeOK'
  BY <1>8 DEF HostTypeOK, PoolTypeOK, SetupNetwork, Goto, dbVars, hostVars,
    supVars, SupervisorPCs, NewPCs, NewFailPCs, LivePCs, ClosePCs
<1>9. ASSUME FailNetwork(v)  PROVE HostTypeOK'
  BY <1>9 DEF HostTypeOK, PoolTypeOK, FailNetwork, Goto, dbVars, hostVars,
    supVars, SupervisorPCs, NewPCs, NewFailPCs, LivePCs, ClosePCs
<1>10. ASSUME FailVFS(v)  PROVE HostTypeOK'
  BY <1>10 DEF HostTypeOK, PoolTypeOK, FailVFS, Goto, dbVars, hostVars,
    supVars, SupervisorPCs, NewPCs, NewFailPCs, LivePCs, ClosePCs
<1>11. ASSUME SetCreated(v)  PROVE HostTypeOK'
  <2>1. phase' \in [VMs -> Phases \cup {NoPhase}]
    BY <1>11, SetPhaseType DEF HostTypeOK, SetCreated, Phases
  <2> QED
    BY <1>11, <2>1 DEF HostTypeOK, PoolTypeOK, SetCreated, Goto, hostVars,
    SupervisorPCs, NewPCs, NewFailPCs, LivePCs, ClosePCs
<1>12. ASSUME UnregisterEarly(v)  PROVE HostTypeOK'
  BY <1>12, HostAssumption DEF HostTypeOK, PoolTypeOK, UnregisterEarly,
    Unregister, Goto, dbVars, hostVars, supVars, SupervisorPCs, NewPCs,
    NewFailPCs, LivePCs, ClosePCs
<1>13. ASSUME UndoNetwork(v)  PROVE HostTypeOK'
  BY <1>13 DEF HostTypeOK, PoolTypeOK, UndoNetwork, Goto, dbVars, hostVars,
    supVars, SupervisorPCs, NewPCs, NewFailPCs, LivePCs, ClosePCs
<1>14. ASSUME UndoMachine(v)  PROVE HostTypeOK'
  BY <1>14 DEF HostTypeOK, PoolTypeOK, UndoMachine, Goto, dbVars, hostVars,
    supVars, SupervisorPCs, NewPCs, NewFailPCs, LivePCs, ClosePCs
<1>15. ASSUME UndoSubnet(v)  PROVE HostTypeOK'
  BY <1>15 DEF HostTypeOK, PoolTypeOK, UndoSubnet, Free, Goto, dbVars,
    hostVars, supVars, SupervisorPCs, NewPCs, NewFailPCs, LivePCs, ClosePCs
<1>16. ASSUME UndoRegister(v)  PROVE HostTypeOK'
  BY <1>16, HostAssumption DEF HostTypeOK, PoolTypeOK, UndoRegister,
    Unregister, Goto, dbVars, hostVars, supVars, SupervisorPCs, NewPCs,
    NewFailPCs, LivePCs, ClosePCs
<1>17. ASSUME NewReturnsError(v)  PROVE HostTypeOK'
  <2>1. phase' \in [VMs -> Phases \cup {NoPhase}]
    BY <1>17, SetPhaseType DEF HostTypeOK, NewReturnsError, Phases
  <2> QED
    BY <1>17, <2>1 DEF HostTypeOK, PoolTypeOK, NewReturnsError, Goto, hostVars,
    SupervisorPCs, NewPCs, NewFailPCs, LivePCs, ClosePCs
<1> QED
  BY <1>1, <1>2, <1>3, <1>4, <1>5, <1>6, <1>7, <1>8, <1>9, <1>10, <1>11,
    <1>12, <1>13, <1>14, <1>15, <1>16, <1>17 DEF NewStep

(* Sandbox.Start keeps the types.                                          *)
LEMMA StartStepType ==
  ASSUME HostTypeOK, NEW v \in VMs, StartStep(v)
  PROVE  HostTypeOK'
<1>1. ASSUME SetStarting(v)  PROVE HostTypeOK'
  <2>1. phase' \in [VMs -> Phases \cup {NoPhase}]
    BY <1>1, SetPhaseType DEF HostTypeOK, SetStarting, Phases
  <2> QED
    BY <1>1, <2>1 DEF HostTypeOK, PoolTypeOK, SetStarting, Goto, hostVars,
    SupervisorPCs, LivePCs, ClosePCs
<1>2. ASSUME BootMachine(v)  PROVE HostTypeOK'
  BY <1>2 DEF HostTypeOK, PoolTypeOK, BootMachine, Goto, dbVars, hostVars,
    supVars, SupervisorPCs, LivePCs, ClosePCs
<1>3. ASSUME BootFails(v)  PROVE HostTypeOK'
  <2>1. phase' \in [VMs -> Phases \cup {NoPhase}]
    BY <1>3, SetPhaseType DEF HostTypeOK, BootFails, Phases
  <2> QED
    BY <1>3, <2>1 DEF HostTypeOK, PoolTypeOK, BootFails, Goto, hostVars,
    SupervisorPCs, LivePCs, ClosePCs
<1>4. ASSUME SetRunning(v)  PROVE HostTypeOK'
  <2>1. phase' \in [VMs -> Phases \cup {NoPhase}]
    BY <1>4, SetPhaseType DEF HostTypeOK, SetRunning, Phases
  <2> QED
    BY <1>4, <2>1 DEF HostTypeOK, PoolTypeOK, SetRunning, Goto, hostVars,
    SupervisorPCs, LivePCs, ClosePCs
<1> QED
  BY <1>1, <1>2, <1>3, <1>4 DEF StartStep

(* Sandbox.Close and the Remove after it keep the types.                   *)
LEMMA CloseStepType ==
  ASSUME HostTypeOK, NEW v \in VMs, CloseStep(v)
  PROVE  HostTypeOK'
<1>1. ASSUME CloseStopping(v)  PROVE HostTypeOK'
  <2>1. phase' \in [VMs -> Phases \cup {NoPhase}]
    BY <1>1, SetPhaseType DEF HostTypeOK, CloseStopping, ClosePhase, Phases
  <2> QED
    BY <1>1, <2>1 DEF HostTypeOK, PoolTypeOK, CloseStopping, ClosePhase, Goto,
    hostVars, SupervisorPCs, ClosePCs, RemovePCs
<1>2. ASSUME CloseCleaning(v)  PROVE HostTypeOK'
  <2>1. phase' \in [VMs -> Phases \cup {NoPhase}]
    BY <1>2, SetPhaseType DEF HostTypeOK, CloseCleaning, ClosePhase, Phases
  <2> QED
    BY <1>2, <2>1 DEF HostTypeOK, PoolTypeOK, CloseCleaning, ClosePhase, Goto,
    hostVars, SupervisorPCs, ClosePCs, RemovePCs
<1>3. ASSUME CloseNetwork(v)  PROVE HostTypeOK'
  BY <1>3 DEF HostTypeOK, PoolTypeOK, CloseNetwork, MarkCleanup, Goto, dbVars,
    hostVars, supVars, SupervisorPCs, ClosePCs, RemovePCs
<1>4. ASSUME CloseSubnet(v)  PROVE HostTypeOK'
  BY <1>4 DEF HostTypeOK, PoolTypeOK, CloseSubnet, Free, MarkCleanup, Goto,
    dbVars, hostVars, supVars, SupervisorPCs, ClosePCs, RemovePCs
<1>5. ASSUME CloseUnregister(v)  PROVE HostTypeOK'
  <2>1. pc' \in [VMs -> SupervisorPCs]
    BY <1>5 DEF HostTypeOK, CloseUnregister, Goto, SupervisorPCs, ClosePCs
  <2>2. errs' \in [VMs -> BOOLEAN]
    BY <1>5 DEF HostTypeOK, CloseUnregister, MarkCleanup
  <2> QED
    BY <1>5, <2>1, <2>2, HostAssumption DEF HostTypeOK, PoolTypeOK,
    CloseUnregister, Unregister, hostVars
<1>6. ASSUME CloseMachine(v)  PROVE HostTypeOK'
  BY <1>6 DEF HostTypeOK, PoolTypeOK, CloseMachine, MarkCleanup, Goto, dbVars,
    hostVars, supVars, SupervisorPCs, ClosePCs, RemovePCs
<1>7. ASSUME CloseDisks(v)  PROVE HostTypeOK'
  BY <1>7 DEF HostTypeOK, PoolTypeOK, CloseDisks, MarkCleanup, Goto, dbVars,
    hostVars, supVars, SupervisorPCs, ClosePCs, RemovePCs
<1>8. ASSUME CloseFinal(v)  PROVE HostTypeOK'
  <2>1. phase' \in [VMs -> Phases \cup {NoPhase}]
    BY <1>8, SetPhaseType DEF HostTypeOK, CloseFinal, Phases
  <2> QED
    BY <1>8, <2>1 DEF HostTypeOK, PoolTypeOK, CloseFinal, CloseReturns, Goto,
    hostVars, SupervisorPCs, NewFailPCs, ClosePCs, RemovePCs
<1>9. ASSUME RmGet(v)  PROVE HostTypeOK'
  BY <1>9 DEF HostTypeOK, PoolTypeOK, RmGet, Goto, dbVars, hostVars, supVars,
    SupervisorPCs, ClosePCs, RemovePCs
<1>10. ASSUME RmTx(v)  PROVE HostTypeOK'
  BY <1>10, HostAssumption DEF HostTypeOK, PoolTypeOK, RmTx, RemoveRows, Goto,
    dbVars, hostVars, supVars, SupervisorPCs, ClosePCs, RemovePCs
<1>11. ASSUME RmDir(v)  PROVE HostTypeOK'
  BY <1>11 DEF HostTypeOK, PoolTypeOK, RmDir, RemoveDir, Goto, dbVars,
    hostVars, supVars, SupervisorPCs, ClosePCs, RemovePCs
<1> QED
  BY <1>1, <1>2, <1>3, <1>4, <1>5, <1>6, <1>7, <1>8, <1>9, <1>10, <1>11 DEF
    CloseStep

(* So do Register, the begin of Close, a crash and a Firecracker exit.     *)
LEMMA OtherStepType ==
  ASSUME HostTypeOK, NEW v \in VMs, Register(v) \/ RegisterFails(v) \/
     BeginClose(v)
                       \/ SupervisorKilled(v) \/ VMMExits(v)
  PROVE  HostTypeOK'
<1>1. ASSUME Register(v)  PROVE HostTypeOK'
  BY <1>1, HostAssumption DEF HostTypeOK, PoolTypeOK, Register, Goto, dbVars,
    hostVars, supVars, SupervisorPCs, NewPCs
<1>2. ASSUME RegisterFails(v)  PROVE HostTypeOK'
  BY <1>2, HostAssumption DEF HostTypeOK, PoolTypeOK, RegisterFails,
    RemoveDir, Goto, dbVars, hostVars, supVars, SupervisorPCs
<1>3. ASSUME BeginClose(v)  PROVE HostTypeOK'
  BY <1>3 DEF HostTypeOK, PoolTypeOK, BeginClose, Goto, dbVars, hostVars,
    supVars, SupervisorPCs, LivePCs, ClosePCs
<1>4. ASSUME SupervisorKilled(v)  PROVE HostTypeOK'
  BY <1>4 DEF HostTypeOK, PoolTypeOK, SupervisorKilled, Goto, dbVars,
    hostVars, supVars, SupervisorPCs
<1>5. ASSUME VMMExits(v)  PROVE HostTypeOK'
  BY <1>5 DEF HostTypeOK, PoolTypeOK, VMMExits, Goto, dbVars, hostVars,
    supVars, SupervisorPCs
<1> QED
  BY <1>1, <1>2, <1>3, <1>4, <1>5 DEF HostTypeOK

(* What an administrative command writes is well typed.                    *)
LEMMA AdminStepType ==
  ASSUME HostTypeOK, NEW q \in Admins,
         CommandBegins(q) \/ AdminStep(q) \/ AdminKilled(q)
  PROVE  HostTypeOK'
<1> USE IdleAdminType, HostAssumption
<1>0. adm \in [Admins -> AdminState] /\ adm[q] \in AdminState /\ adm[q].vm \in VMs
  BY DEF HostTypeOK, AdminState
<1>1. ASSUME NEW c \in Commands, NEW f \in ForceRunning, BeginAll(q, c, f) 
   PROVE HostTypeOK'
  <2> DEFINE a == [IdleAdmin EXCEPT !.pc = "list", !.cmd = c,
                                    !.force = f /\ c = "gcAll"]
  <2>1. a \in AdminState
    BY DEF AdminState, AdminPCs, AllCommands
  <2>2. adm' = [adm EXCEPT ![q] = a]
    BY <1>1 DEF BeginAll
  <2> QED
    BY <1>1, <1>0, <2>1, <2>2, AdminUpdate
    DEF HostTypeOK, PoolTypeOK, BeginAll, dbVars, hostVars, supVars
<1>2. ASSUME NEW c \in Commands, NEW f \in ForceRunning, NEW v \in VMs,
   BeginOne(q, c, v, f)
      PROVE  HostTypeOK'
  <2> DEFINE a == [IdleAdmin EXCEPT !.pc = "rec_get", !.cmd = c, !.vm = v,
                                    !.force = f /\ c = "gc"]
  <2>1. a \in AdminState
    BY DEF AdminState, AdminPCs, ReconcilePCs, AllCommands
  <2>2. adm' = [adm EXCEPT ![q] = a]
    BY <1>2 DEF BeginOne
  <2> QED
    BY <1>2, <1>0, <2>1, <2>2, AdminUpdate
    DEF HostTypeOK, PoolTypeOK, BeginOne, dbVars, hostVars, supVars
<1>3. ASSUME List(q)  PROVE HostTypeOK'
  <2> DEFINE a == [adm[q] EXCEPT !.pc = "mark", !.todo = Selected(adm[q].cmd),
                                 !.seen = {v \in VMs : ListedDead(v)}]
  <2>1. a \in AdminState
    BY <1>0 DEF AdminState, AdminPCs, Selected
  <2>2. adm' = [adm EXCEPT ![q] = a]
    BY <1>3 DEF List
  <2> QED
    BY <1>3, <1>0, <2>1, <2>2, AdminUpdate
    DEF HostTypeOK, PoolTypeOK, List, dbVars, hostVars, supVars
<1>4. ASSUME NEW v \in VMs, ListMark(q, v)  PROVE HostTypeOK'
  <2> DEFINE a == [adm[q] EXCEPT !.seen = @ \ {v}]
  <2>1. a \in AdminState
    BY <1>0 DEF AdminState
  <2>2. adm' = [adm EXCEPT ![q] = a]
    BY <1>4 DEF ListMark
  <2>3. adm' \in [Admins -> AdminState]
    BY <1>0, <2>1, <2>2, AdminUpdate
  <2> QED
    BY <1>4, <2>3
    DEF HostTypeOK, PoolTypeOK, ListMark, MarkCrashed, hostVars, supVars
<1>5. ASSUME NEW v \in VMs, Pick(q, v)  PROVE HostTypeOK'
  <2> DEFINE a == [adm[q] EXCEPT !.pc = "rec_get", !.vm = v,
                                 !.todo = @ \ {v}, !.bad = FALSE]
  <2>1. a \in AdminState
    BY <1>0 DEF AdminState, AdminPCs, ReconcilePCs
  <2>2. adm' = [adm EXCEPT ![q] = a]
    BY <1>5 DEF Pick
  <2> QED
    BY <1>5, <1>0, <2>1, <2>2, AdminUpdate
    DEF HostTypeOK, PoolTypeOK, Pick, dbVars, hostVars, supVars
<1>6. ASSUME ListReturns(q)  PROVE HostTypeOK'
  <2>1. adm' \in [Admins -> AdminState]
    BY <1>6, <1>0, AdminGotoFields
    DEF ListReturns, AdminPCs, ReconcilePCs, RemovePCs
  <2> QED
    BY <1>6, <2>1
    DEF HostTypeOK, PoolTypeOK, ListReturns, dbVars, hostVars, supVars
<1>7. ASSUME RecGet(q)  PROVE HostTypeOK'
  <2>1. adm' \in [Admins -> AdminState]
    BY <1>7, <1>0, AdminGotoFields DEF RecGet, AdminPCs, ReconcilePCs, RemovePCs
  <2> QED
    BY <1>7, <2>1 DEF HostTypeOK, PoolTypeOK, RecGet, dbVars, hostVars, supVars
<1>8. ASSUME AdmRmGet(q)  PROVE HostTypeOK'
  <2>1. adm' \in [Admins -> AdminState]
    BY <1>8, <1>0, AdminGotoFields DEF AdmRmGet, AdminPCs, ReconcilePCs, RemovePCs
  <2> QED
    BY <1>8, <2>1 DEF HostTypeOK, PoolTypeOK, AdmRmGet, dbVars, hostVars, supVars
<1>9. ASSUME CleanupChecked(q)  PROVE HostTypeOK'
  <2>1. adm' \in [Admins -> AdminState]
    BY <1>9, <1>0, AdminGotoFields
    DEF CleanupChecked, AdminPCs, ReconcilePCs, RemovePCs
  <2> QED
    BY <1>9, <2>1
    DEF HostTypeOK, PoolTypeOK, CleanupChecked, dbVars, hostVars, supVars
<1>10. ASSUME PickDone(q)  PROVE HostTypeOK'
  <2>1. adm' \in [Admins -> AdminState]
    BY <1>10, <1>0, AdminGotoFields DEF PickDone, AdminEnds, AdminPCs
  <2> QED
    BY <1>10, <2>1 DEF HostTypeOK, PoolTypeOK, PickDone, dbVars, hostVars, supVars
<1>11. ASSUME RecInit(q)  PROVE HostTypeOK'
  <2>1. adm' \in [Admins -> AdminState]
    BY <1>11, <1>0, AdminGotoFields DEF RecInit, AdminPCs, ReconcilePCs, RemovePCs
  <2>2. phase' \in [VMs -> Phases \cup {NoPhase}]
    BY <1>11, <1>0 DEF HostTypeOK, RecInit, Phases
  <2> QED
    BY <1>11, <2>1, <2>2 DEF HostTypeOK, PoolTypeOK, RecInit, hostVars, supVars
<1>12. ASSUME RecPhase(q)  PROVE HostTypeOK'
  <2>1. adm' \in [Admins -> AdminState]
    BY <1>12, <1>0, AdminGotoFields
    DEF RecPhase, AdminPCs, ReconcilePCs, RemovePCs
  <2>2. phase' \in [VMs -> Phases \cup {NoPhase}]
    BY <1>12, <1>0, SetPhaseType DEF HostTypeOK, RecPhase, Phases
  <2> QED
    BY <1>12, <2>1, <2>2 DEF HostTypeOK, PoolTypeOK, RecPhase, hostVars, supVars
<1>13. ASSUME RecDone(q)  PROVE HostTypeOK'
  <2>1. adm' \in [Admins -> AdminState]
    BY <1>13, <1>0, AdminGotoFields DEF RecDone, AdminPCs, ReconcilePCs, RemovePCs
  <2>2. phase' \in [VMs -> Phases \cup {NoPhase}]
    BY <1>13, <1>0, SetPhaseType DEF HostTypeOK, RecDone, Phases
  <2> QED
    BY <1>13, <2>1, <2>2 DEF HostTypeOK, PoolTypeOK, RecDone, hostVars, supVars
<1>14. ASSUME RecSubnet(q)  PROVE HostTypeOK'
  <2>1. adm' \in [Admins -> AdminState]
    BY <1>14, <1>0, AdminGotoFields, RecFailsFields
    DEF RecSubnet, AdminPCs, ReconcilePCs
  <2> QED
    BY <1>14, <1>0, <2>1
    DEF HostTypeOK, PoolTypeOK, RecSubnet, Free, dbVars, hostVars, supVars
<1>15. ASSUME RecRootfs(q)  PROVE HostTypeOK'
  <2>1. adm' \in [Admins -> AdminState]
    BY <1>15, <1>0, AdminGotoFields, RecFailsFields
    DEF RecRootfs, AdminPCs, ReconcilePCs
  <2> QED
    BY <1>15, <1>0, <2>1
    DEF HostTypeOK, PoolTypeOK, RecRootfs, dbVars, hostVars, supVars
<1>16. ASSUME RecTap(q)  PROVE HostTypeOK'
  <2>1. adm' \in [Admins -> AdminState]
    BY <1>16, <1>0, AdminGotoFields, RecFailsFields
    DEF RecTap, AdminPCs, ReconcilePCs
  <2> QED
    BY <1>16, <1>0, <2>1
    DEF HostTypeOK, PoolTypeOK, RecTap, dbVars, hostVars, supVars
<1>17. ASSUME RecNft(q)  PROVE HostTypeOK'
  <2>1. adm' \in [Admins -> AdminState]
    BY <1>17, <1>0, AdminGotoFields, RecFailsFields
    DEF RecNft, AdminPCs, ReconcilePCs
  <2> QED
    BY <1>17, <1>0, <2>1
    DEF HostTypeOK, PoolTypeOK, RecNft, dbVars, hostVars, supVars
<1>18. ASSUME AdmRmMark(q)  PROVE HostTypeOK'
  <2>1. adm' \in [Admins -> AdminState]
    BY <1>18, <1>0, AdminGotoFields
    DEF AdmRmMark, AdminPCs, ReconcilePCs, RemovePCs
  <2> QED
    BY <1>18, <1>0, <2>1
    DEF HostTypeOK, PoolTypeOK, AdmRmMark, MarkCrashed, dbVars, hostVars, supVars
<1>19. ASSUME AdmRmTx(q)  PROVE HostTypeOK'
  <2>1. adm' \in [Admins -> AdminState]
    BY <1>19, <1>0, AdminGotoFields DEF AdmRmTx, AdminPCs, ReconcilePCs, RemovePCs
  <2> QED
    BY <1>19, <1>0, <2>1
    DEF HostTypeOK, PoolTypeOK, AdmRmTx, RemoveRows, dbVars, hostVars, supVars
<1>20. ASSUME AdmRmDir(q)  PROVE HostTypeOK'
  <2>1. adm' \in [Admins -> AdminState]
    BY <1>20, <1>0, AdminGotoFields
    DEF AdmRmDir, AdminPCs, ReconcilePCs, RemovePCs
  <2> QED
    BY <1>20, <1>0, <2>1
    DEF HostTypeOK, PoolTypeOK, AdmRmDir, RemoveDir, dbVars, hostVars, supVars
<1>21. ASSUME CleanupScan(q)  PROVE HostTypeOK'
  <2> DEFINE a == [adm[q] EXCEPT !.pc = "cl_check",
                                 !.todo = {v \in VMs : table[v] # NoOctet}]
  <2>1. a \in AdminState
    BY <1>0 DEF AdminState, AdminPCs
  <2>2. adm' = [adm EXCEPT ![q] = a]
    BY <1>21 DEF CleanupScan
  <2> QED
    BY <1>21, <1>0, <2>1, <2>2, AdminUpdate
    DEF HostTypeOK, PoolTypeOK, CleanupScan, dbVars, hostVars, supVars
<1>22. ASSUME NEW v \in VMs, CleanupCheck(q, v)  PROVE HostTypeOK'
  <2>0. PICK stale \in BOOLEAN :
             adm' = [adm EXCEPT ![q].todo = @ \ {v},
                                ![q].seen = IF stale THEN @ \cup {v} ELSE @]
    BY <1>22 DEF CleanupCheck
  <2> DEFINE a == [adm[q] EXCEPT !.todo = @ \ {v},
                     !.seen = IF stale THEN @ \cup {v} ELSE @]
  <2>1. a \in AdminState
    BY <1>0 DEF AdminState
  <2>2. adm' = [adm EXCEPT ![q] = a]
    BY <2>0
  <2> QED
    BY <1>22, <1>0, <2>1, <2>2, AdminUpdate
    DEF HostTypeOK, PoolTypeOK, CleanupCheck, dbVars, hostVars, supVars
<1>23. ASSUME NEW v \in VMs, CleanupDelete(q, v)  PROVE HostTypeOK'
  <2> DEFINE a == [adm[q] EXCEPT !.seen = @ \ {v}]
  <2>1. a \in AdminState
    BY <1>0 DEF AdminState
  <2>2. adm' = [adm EXCEPT ![q] = a]
    BY <1>23 DEF CleanupDelete
  <2>3. adm' \in [Admins -> AdminState]
    BY <1>0, <2>1, <2>2, AdminUpdate
  <2> QED
    BY <1>23, <2>3
    DEF HostTypeOK, PoolTypeOK, CleanupDelete, Free, hostVars, supVars
<1>24. CASE CleanupDone(q) \/ AdminKilled(q)
  BY <1>24, <1>0, AdminUpdate
  DEF HostTypeOK, PoolTypeOK, CleanupDone, AdminKilled, AdminEnds, dbVars,
      hostVars, supVars
<1>25. CASE CommandBegins(q)
  <2>1. PICK c \in Commands, f \in ForceRunning :
             BeginAll(q, c, f) \/ \E v \in VMs : BeginOne(q, c, v, f)
    BY <1>25 DEF CommandBegins
  <2> QED
    BY <2>1, <1>1, <1>2
<1>26. CASE AdminStep(q)
  BY <1>3, <1>4, <1>5, <1>6, <1>7, <1>8, <1>9, <1>10, <1>11, <1>12, <1>13,
     <1>14, <1>15, <1>16, <1>17, <1>18, <1>19, <1>20, <1>21, <1>22, <1>23,
     <1>24,
     <1>26
  DEF AdminStep
<1> QED
  BY <1>24, <1>25, <1>26

(* Every step of the host keeps the types.                                 *)
LEMMA HostTypeStep == HostTypeOK /\ [HostNext]_vars => HostTypeOK'
<1> SUFFICES ASSUME HostTypeOK, [HostNext]_vars
             PROVE  HostTypeOK'
  OBVIOUS
<1>1. CASE UNCHANGED vars
  BY <1>1 DEF vars, HostTypeOK, PoolTypeOK
<1>2. ASSUME NEW v \in VMs, SupervisorStep(v)  PROVE HostTypeOK'
  BY <1>2, NewStepType, StartStepType, CloseStepType, OtherStepType
  DEF SupervisorStep
<1>3. ASSUME NEW q \in Admins, CommandBegins(q) \/ AdminStep(q) \/ AdminKilled(q)
      PROVE  HostTypeOK'
  BY <1>3, AdminStepType
<1> QED
  BY <1>1, <1>2, <1>3 DEF HostNext, HostStep

(* The host starts with the types right.                                   *)
LEMMA HostTypeInit == HostInit => HostTypeOK
BY IdleAdminType, HostAssumption
DEF HostInit, PoolInit, HostTypeOK, PoolTypeOK, SupervisorPCs

(* HostTypeOK in every reachable state, for any sets of VMs, octets and    *)
(* commands: in particular the phase is one of those of record.go, and the *)
(* status one of those List, Remove and Prune of state.go tell apart.      *)
THEOREM HostTypeCorrect == HostSpec => []HostTypeOK
BY HostTypeInit, HostTypeStep, PTL DEF HostSpec

-----------------------------------------------------------------------------
(* The steps of a supervisor, once for all the invariants below.           *)

\* Nothing of w changes.
Untouched(w) ==
    /\ table'[w] = table[w] /\ status'[w] = status[w] /\ pid'[w] = pid[w]
    /\ phase'[w] = phase[w]
    /\ tap'[w] = tap[w] /\ nft'[w] = nft[w] /\ disks'[w] = disks[w]
    /\ pc'[w] = pc[w] /\ gen'[w] = gen[w] /\ info'[w] = info[w]
    /\ errs'[w] = errs[w]

\* A step that creates nothing for w.
CreatesNothing(w) ==
    /\ table[w] = NoOctet => table'[w] = NoOctet
    /\ tap[w] = NoOctet => tap'[w] = NoOctet
    /\ ~nft[w] => ~nft'[w]
    /\ ~disks[w] => ~disks'[w]

\* Who owns v after a step owned it before.
KeepsOwner(v) ==
    /\ MayCreate(v)' => MayCreate(v)
    /\ Owned(v)' => Owned(v)
    /\ pc'[v] = "none" => pc[v] = "none"

\* What a step of v's supervisor does: it works on v alone, creates while it
\* is registered and at no other time, records cleaned at the end of a Close
\* without errors only, and removes the row in its Remove only.
SupervisorEffect(v) ==
    /\ adm' = adm
    /\ \A w \in VMs \ {v} : Untouched(w)
    /\ OwnerIsRegistered(v)'
    /\ KeepsOwner(v)
    /\ CreatesNothing(v) \/ (MayCreate(v) /\ status'[v] # "none")
    /\ status'[v] = "none" => status[v] = "none" \/ pc[v] = "rm_tx"
    /\ pc'[v] \in RemovePCs => RunRm \/ pc[v] \in RemovePCs
    /\ phase'[v] = "cleaned" =>
           phase[v] = "cleaned" \/ (pc[v] = "c_final" /\ ~errs[v])
    /\ CloseProgress(v) => CloseProgress(v)'
    /\ CreationProgress(v) => CreationProgress(v)'

(* sandbox.New creates for its own VM, while the row names it.             *)
LEMMA NewStepEffect ==
  ASSUME MaxGen = 1, HostTypeOK, NEW v \in VMs, OwnerIsRegistered(v),
         NewStep(v)
  PROVE  SupervisorEffect(v)
<1> USE MaxGen = 1, OctetsAssumption
<1> USE DEF HostTypeOK, PoolTypeOK, SupervisorEffect, Untouched, CreatesNothing,
    KeepsOwner, MayCreate, Owned, OwnerIsRegistered, CloseProgress,
    CreationProgress, Goto, SupervisorAlive, dbVars, hostVars, supVars, NewPCs,
    NewFailPCs, LivePCs, ClosePCs, RemovePCs
<1>1. CASE LifecycleInit(v)
  BY <1>1 DEF LifecycleInit
<1>2. CASE CreateDisks(v)
  BY <1>2 DEF CreateDisks
<1>3. CASE AllocateSubnet(v)
  BY <1>3 DEF AllocateSubnet, Grant, Octets, NoOctet
<1>4. CASE SkipSubnet(v)
  BY <1>4 DEF SkipSubnet
<1>5. CASE FailBeforeSubnet(v)
  BY <1>5 DEF FailBeforeSubnet
<1>6. CASE CreateMachine(v)
  BY <1>6 DEF CreateMachine
<1>7. CASE FailBeforeMachine(v)
  BY <1>7 DEF FailBeforeMachine
<1>8. CASE SetupNetwork(v)
  BY <1>8 DEF SetupNetwork
<1>9. CASE FailNetwork(v)
  BY <1>9 DEF FailNetwork
<1>10. CASE FailVFS(v)
  BY <1>10 DEF FailVFS
<1>11. CASE SetCreated(v)
  BY <1>11 DEF SetCreated, TrySetPhase, SetPhase
<1>12. CASE UnregisterEarly(v)
  BY <1>12 DEF UnregisterEarly, Unregister
<1>13. CASE UndoNetwork(v)
  BY <1>13 DEF UndoNetwork
<1>14. CASE UndoMachine(v)
  BY <1>14 DEF UndoMachine
<1>15. CASE UndoSubnet(v)
  BY <1>15 DEF UndoSubnet, Free
<1>16. CASE UndoRegister(v)
  BY <1>16 DEF UndoRegister, Unregister
<1>17. CASE NewReturnsError(v)
  BY <1>17 DEF NewReturnsError, TrySetPhase, SetPhase
<1> QED
    BY <1>1, <1>2, <1>3, <1>4, <1>5, <1>6, <1>7, <1>8, <1>9, <1>10, <1>11,
     <1>12, <1>13, <1>14, <1>15, <1>16, <1>17 DEF NewStep

(* Sandbox.Start creates nothing and gives nothing back.                   *)
LEMMA StartStepEffect ==
  ASSUME MaxGen = 1, HostTypeOK, NEW v \in VMs, OwnerIsRegistered(v),
         StartStep(v)
  PROVE  SupervisorEffect(v)
<1> USE MaxGen = 1, OctetsAssumption
<1> USE DEF HostTypeOK, PoolTypeOK, SupervisorEffect, Untouched, CreatesNothing,
    KeepsOwner, MayCreate, Owned, OwnerIsRegistered, CloseProgress,
    CreationProgress, Goto, SupervisorAlive, dbVars, hostVars, supVars, NewPCs,
    NewFailPCs, LivePCs, ClosePCs, RemovePCs
<1>1. CASE SetStarting(v)
  BY <1>1 DEF SetStarting, SetPhase
<1>2. CASE BootMachine(v)
  BY <1>2 DEF BootMachine
<1>3. CASE BootFails(v)
  BY <1>3 DEF BootFails, TrySetPhase, SetPhase
<1>4. CASE SetRunning(v)
  BY <1>4 DEF SetRunning, TrySetPhase, SetPhase
<1> QED
    BY <1>1, <1>2, <1>3, <1>4 DEF StartStep

(* Sandbox.Close gives back and collects what it could not give back.      *)
LEMMA CloseStepEffect ==
  ASSUME MaxGen = 1, HostTypeOK, NEW v \in VMs, OwnerIsRegistered(v),
         CloseStep(v)
  PROVE  SupervisorEffect(v)
<1> USE MaxGen = 1, OctetsAssumption
<1> USE DEF HostTypeOK, PoolTypeOK, SupervisorEffect, Untouched, CreatesNothing,
    KeepsOwner, MayCreate, Owned, OwnerIsRegistered, CloseProgress,
    CreationProgress, Goto, SupervisorAlive, dbVars, hostVars, supVars, NewPCs,
    NewFailPCs, LivePCs, ClosePCs, RemovePCs
<1>1. CASE CloseStopping(v)
  BY <1>1 DEF CloseStopping, ClosePhase, SetPhase
<1>2. CASE CloseCleaning(v)
  BY <1>2 DEF CloseCleaning, ClosePhase, SetPhase
<1>3. CASE CloseNetwork(v)
  BY <1>3 DEF CloseNetwork, MarkCleanup
<1>4. CASE CloseSubnet(v)
  BY <1>4 DEF CloseSubnet, Free, MarkCleanup
<1>5. CASE CloseUnregister(v)
  BY <1>5 DEF CloseUnregister, Unregister, MarkCleanup
<1>6. CASE CloseMachine(v)
  BY <1>6 DEF CloseMachine, MarkCleanup
<1>7. CASE CloseDisks(v)
  BY <1>7 DEF CloseDisks, MarkCleanup
<1>8. CASE CloseFinal(v)
  BY <1>8 DEF CloseFinal, CloseReturns, TrySetPhase, SetPhase
<1>9. CASE RmGet(v)
  BY <1>9 DEF RmGet
<1>10. CASE RmTx(v)
  BY <1>10 DEF RmTx, RemoveRows
<1>11. CASE RmDir(v)
  BY <1>11 DEF RmDir, RemoveDir
<1> QED
    BY <1>1, <1>2, <1>3, <1>4, <1>5, <1>6, <1>7, <1>8, <1>9, <1>10, <1>11 DEF
     CloseStep

(* Register is the only step that makes an owner; a crash ends it.         *)
LEMMA OtherStepEffect ==
  ASSUME MaxGen = 1, HostTypeOK, NEW v \in VMs, OwnerIsRegistered(v),
         Register(v) \/ RegisterFails(v) \/ BeginClose(v)
         \/ SupervisorKilled(v) \/ VMMExits(v)
  PROVE  SupervisorEffect(v)
<1> USE MaxGen = 1, OctetsAssumption
<1> USE DEF HostTypeOK, PoolTypeOK, SupervisorEffect, Untouched, CreatesNothing,
    KeepsOwner, MayCreate, Owned, OwnerIsRegistered, CloseProgress,
    CreationProgress, Goto, SupervisorAlive, dbVars, hostVars, supVars, NewPCs,
    NewFailPCs, LivePCs, ClosePCs, RemovePCs
<1>1. CASE Register(v)
  BY <1>1 DEF Register
<1>2. CASE RegisterFails(v)
  BY <1>2 DEF RegisterFails, RemoveDir
<1>3. CASE BeginClose(v)
  BY <1>3 DEF BeginClose
<1>4. CASE SupervisorKilled(v)
  BY <1>4 DEF SupervisorKilled
<1>5. CASE VMMExits(v)
  BY <1>5 DEF VMMExits
<1> QED
    BY <1>1, <1>2, <1>3, <1>4, <1>5

-----------------------------------------------------------------------------
(* The steps of the administrative commands, once for all the invariants.  *)

\* The command of q goes on at l; mayFail: its reconcile may have failed now.
MovesTo(q, l, mayFail) ==
    /\ adm'[q].pc = l
    /\ adm'[q].cmd = adm[q].cmd /\ adm'[q].force = adm[q].force
    /\ adm'[q].vm = adm[q].vm
    /\ adm'[q].todo = adm[q].todo /\ adm'[q].seen = adm[q].seen
    /\ adm'[q].bad = adm[q].bad \/ (mayFail /\ adm'[q].bad)
    /\ \A r \in Admins \ {q} : adm'[r] = adm[r]

(* A step that only moves the command on.                                  *)
LEMMA GotoMoves ==
  ASSUME adm \in [Admins -> AdminState], NEW q \in Admins, NEW l \in AdminPCs,
         AdminGoto(q, l)
  PROVE  MovesTo(q, l, FALSE)
BY AdminGotoFields DEF MovesTo

(* A step of the reconcile that failed.                                    *)
LEMMA FailMoves ==
  ASSUME adm \in [Admins -> AdminState], NEW q \in Admins, NEW l \in AdminPCs,
         RecFails(q, l)
  PROVE  MovesTo(q, l, TRUE) /\ adm'[q].bad
BY RecFailsFields DEF MovesTo

\* A step of q's command leaves its own guards and the other commands alone.
CommandGuards(q) ==
    /\ pc' = pc /\ gen' = gen /\ info' = info /\ errs' = errs
    /\ \A r \in Admins \ {q} : adm'[r] = adm[r]
    /\ RemovalIsGuarded(q)' /\ OwnerIsSpared(q)'
    /\ ForceRunning \subseteq {FALSE} /\ ~adm[q].force => ~adm'[q].force

\* What it does to w: it creates nothing, leaves the row of a VM with an
\* owner alone, removes a row or records cleaned only at the end of its own
\* cleanup and, unless forced, takes nothing from an owner.
CommandTouches(q, w) ==
    /\ CreatesNothing(w)
    /\ Owned(w) => status'[w] = status[w] /\ pid'[w] = pid[w]
    /\ status'[w] = "none" =>
         status[w] = "none" \/ (adm[q].pc = "rm_tx" /\ w = adm[q].vm)
    /\ phase'[w] = "cleaned" =>
         \/ phase[w] = "cleaned"
         \/ adm[q].pc = "rec_done" /\ ~adm[q].bad /\ w = adm[q].vm
    /\ ~adm[q].force /\ Owned(w) =>
         /\ tap'[w] = tap[w] /\ disks'[w] = disks[w]
         /\ table'[w] = table[w]
            \/ (adm[q].pc = "cl_delete" /\ w \in adm[q].seen)

\* How it keeps what its reconcile and its Cleanup rely on.
CommandProgress(q) ==
    /\ ~NftDenied /\ ReconcileProgress(q) => ReconcileProgress(q)'
    /\ /\ ~HostFaults
       /\ \A w \in VMs : CreationProgress(w)
       /\ CleanupSparesOwners(q)
       => CleanupSparesOwners(q)'

CommandEffect(q) ==
    /\ CommandGuards(q)
    /\ \A w \in VMs : CommandTouches(q, w)
    /\ CommandProgress(q)

(* Every step of a command has that effect.                                *)
LEMMA CommandStepEffect ==
  ASSUME MaxGen = 1, OwnershipInv, NEW q \in Admins,
         CommandBegins(q) \/ AdminStep(q) \/ AdminKilled(q)
  PROVE  CommandEffect(q)
<1>0. /\ HostTypeOK /\ RemovalIsGuarded(q) /\ OwnerIsSpared(q)
      /\ \A w \in VMs : OwnerIsRegistered(w)
      /\ adm \in [Admins -> AdminState] /\ adm[q] \in AdminState
      /\ adm[q].vm \in VMs /\ adm[q].seen \subseteq VMs /\ adm[q].todo \subseteq VMs
      /\ adm[q].force \in BOOLEAN /\ adm[q].bad \in BOOLEAN
  BY DEF OwnershipInv, HostTypeOK, AdminState
<1> USE IdleAdminType, HostAssumption, MaxGen = 1, <1>0
<1> USE DEF CommandEffect, CommandGuards, CommandTouches, CommandProgress,
    RemovalIsGuarded, OwnerIsSpared, OwnerIsRegistered, ReconcileProgress,
    CleanupSparesOwners, CreationProgress, CreatesNothing,
    PastCheck, MayCreate, Owned, HostTypeOK, PoolTypeOK, dbVars, hostVars,
    supVars, NewPCs, LivePCs, RemovingCommands, ReconcilePCs, RemovePCs
<1>1. ASSUME NEW c \in Commands, NEW f \in ForceRunning,
             BeginAll(q, c, f)  PROVE CommandEffect(q)
  <2> DEFINE a == [IdleAdmin EXCEPT !.pc = "list", !.cmd = c,
                                    !.force = f /\ c = "gcAll"]
  <2>1. a \in AdminState
    BY DEF AdminState, AdminPCs, AllCommands, Selected
  <2>2. adm' = [adm EXCEPT ![q] = a]
    BY <1>1 DEF BeginAll
  <2>3. /\ a.pc = "list" /\ a.cmd = c /\ a.force = (f /\ c = "gcAll")
        /\ a.seen = {}
    BY DEF AdminState, IdleAdmin
  <2> HIDE DEF a
  <2>4. adm'[q] = a /\ \A r \in Admins \ {q} : adm'[r] = adm[r]
    BY <2>1, <2>2, AdminUpdate
  <2> QED
    BY <1>1, <2>3, <2>4 DEF BeginAll
<1>2. ASSUME NEW c \in Commands, NEW f \in ForceRunning, NEW v \in VMs,
             BeginOne(q, c, v, f)  PROVE CommandEffect(q)
  <2> DEFINE a == [IdleAdmin EXCEPT !.pc = "rec_get", !.cmd = c, !.vm = v,
                                    !.force = f /\ c = "gc"]
  <2>1. a \in AdminState
    BY DEF AdminState, AdminPCs, AllCommands, Selected
  <2>2. adm' = [adm EXCEPT ![q] = a]
    BY <1>2 DEF BeginOne
  <2>3. /\ a.pc = "rec_get" /\ a.cmd = c /\ a.force = (f /\ c = "gc")
        /\ a.seen = {}
    BY DEF AdminState, IdleAdmin
  <2> HIDE DEF a
  <2>4. adm'[q] = a /\ \A r \in Admins \ {q} : adm'[r] = adm[r]
    BY <2>1, <2>2, AdminUpdate
  <2> QED
    BY <1>2, <2>3, <2>4 DEF BeginOne
<1>3. ASSUME List(q)  PROVE CommandEffect(q)
  <2> DEFINE a == [adm[q] EXCEPT !.pc = "mark", !.todo = Selected(adm[q].cmd),
                                 !.seen = {w \in VMs : ListedDead(w)}]
  <2>1. a \in AdminState
    BY DEF AdminState, AdminPCs, AllCommands, Selected
  <2>2. adm' = [adm EXCEPT ![q] = a]
    BY <1>3 DEF List
  <2>3. /\ a.pc = "mark" /\ a.cmd = adm[q].cmd /\ a.force = adm[q].force
        /\ a.seen = {w \in VMs : ListedDead(w)}
    BY DEF AdminState
  <2> HIDE DEF a
  <2>4. adm'[q] = a /\ \A r \in Admins \ {q} : adm'[r] = adm[r]
    BY <2>1, <2>2, AdminUpdate
  <2>5. \A w \in a.seen : ~Owned(w)
    BY <2>3 DEF ListedDead, isProcessRunning, SupervisorAlive
  <2> QED
    BY <1>3, <2>3, <2>4, <2>5 DEF List
<1>4. ASSUME NEW v \in VMs, ListMark(q, v)  PROVE CommandEffect(q)
  <2> DEFINE a == [adm[q] EXCEPT !.seen = @ \ {v}]
  <2>1. a \in AdminState
    BY DEF AdminState, AdminPCs, AllCommands, Selected
  <2>2. adm' = [adm EXCEPT ![q] = a]
    BY <1>4 DEF ListMark
  <2>3. /\ a.pc = adm[q].pc /\ a.cmd = adm[q].cmd /\ a.force = adm[q].force
        /\ a.vm = adm[q].vm /\ a.bad = adm[q].bad /\ a.seen = adm[q].seen \ {v}
    BY DEF AdminState
  <2> HIDE DEF a
  <2>4. adm'[q] = a /\ \A r \in Admins \ {q} : adm'[r] = adm[r]
    BY <2>1, <2>2, AdminUpdate
  <2> QED
    BY <1>4, <2>3, <2>4 DEF ListMark, MarkCrashed
<1>5. ASSUME NEW v \in VMs, Pick(q, v)  PROVE CommandEffect(q)
  <2> DEFINE a == [adm[q] EXCEPT !.pc = "rec_get", !.vm = v,
                                 !.todo = @ \ {v}, !.bad = FALSE]
  <2>1. a \in AdminState
    BY DEF AdminState, AdminPCs, AllCommands, Selected
  <2>2. adm' = [adm EXCEPT ![q] = a]
    BY <1>5 DEF Pick
  <2>3. /\ a.pc = "rec_get" /\ a.cmd = adm[q].cmd /\ a.force = adm[q].force
        /\ a.seen = adm[q].seen
    BY DEF AdminState
  <2> HIDE DEF a
  <2>4. adm'[q] = a /\ \A r \in Admins \ {q} : adm'[r] = adm[r]
    BY <2>1, <2>2, AdminUpdate
  <2> QED
    BY <1>5, <2>3, <2>4 DEF Pick
<1>6. ASSUME CleanupScan(q)  PROVE CommandEffect(q)
  <2> DEFINE a == [adm[q] EXCEPT !.pc = "cl_check",
                                 !.todo = {w \in VMs : table[w] # NoOctet}]
  <2>1. a \in AdminState
    BY DEF AdminState, AdminPCs, AllCommands, Selected
  <2>2. adm' = [adm EXCEPT ![q] = a]
    BY <1>6 DEF CleanupScan
  <2>3. /\ a.pc = "cl_check" /\ a.cmd = adm[q].cmd /\ a.force = adm[q].force
        /\ a.seen = adm[q].seen /\ a.todo = {w \in VMs : table[w] # NoOctet}
    BY DEF AdminState
  <2> HIDE DEF a
  <2>4. adm'[q] = a /\ \A r \in Admins \ {q} : adm'[r] = adm[r]
    BY <2>1, <2>2, AdminUpdate
  <2> QED
    BY <1>6, <2>3, <2>4 DEF CleanupScan
<1>7. ASSUME NEW v \in VMs, CleanupCheck(q, v)  PROVE CommandEffect(q)
  <2>0. PICK stale \in BOOLEAN :
          /\ stale => status[v] = "none" \/ HostFaults
          /\ adm' = [adm EXCEPT ![q].todo = @ \ {v},
                                ![q].seen = IF stale THEN @ \cup {v} ELSE @]
    BY <1>7 DEF CleanupCheck
  <2> DEFINE a == [adm[q] EXCEPT !.todo = @ \ {v},
                     !.seen = IF stale THEN @ \cup {v} ELSE @]
  <2>1. a \in AdminState
    BY DEF AdminState, AdminPCs, AllCommands, Selected
  <2>2. adm' = [adm EXCEPT ![q] = a]
    BY <2>0
  <2>3. /\ a.pc = adm[q].pc /\ a.cmd = adm[q].cmd /\ a.force = adm[q].force
        /\ a.seen \subseteq adm[q].seen \cup {v} /\ a.todo = adm[q].todo \ {v}
        /\ v \in a.seen /\ v \notin adm[q].seen => stale
    BY DEF AdminState
  <2> HIDE DEF a
  <2>4. adm'[q] = a /\ \A r \in Admins \ {q} : adm'[r] = adm[r]
    BY <2>1, <2>2, AdminUpdate
  <2>5. \A w \in a.seen \ adm[q].seen :
           w = v /\ (status[v] = "none" \/ HostFaults)
    BY <2>0, <2>3
  <2>6. adm[q].pc = "cl_check" /\ v \in adm[q].todo
    BY <1>7 DEF CleanupCheck
  <2>7. UNCHANGED <<dbVars, hostVars, supVars>>
    BY <1>7 DEF CleanupCheck
  <2>8. CommandGuards(q) /\ \A w \in VMs : CommandTouches(q, w)
    BY <2>3, <2>4, <2>6, <2>7
  <2>9. CommandProgress(q)
    <3>1. ReconcileProgress(q)'
      BY <2>3, <2>4, <2>6
    <3>2. ASSUME ~HostFaults, CleanupSparesOwners(q)
          PROVE  CleanupSparesOwners(q)'
      <4>1. pc' = pc
        BY <2>7
      <4>2. \A w \in a.todo : pc[w] # "none"
        BY <3>2, <2>3, <2>6
      <4>3. ASSUME NEW w \in a.seen  PROVE ~Owned(w)
        BY <3>2, <4>3, <2>3, <2>5, <2>6
      <4> QED
        BY <4>1, <4>2, <4>3, <2>4
    <3> QED
      BY <3>1, <3>2
  <2> QED
    BY <2>8, <2>9
<1>8. ASSUME NEW v \in VMs, CleanupDelete(q, v)  PROVE CommandEffect(q)
  <2> DEFINE a == [adm[q] EXCEPT !.seen = @ \ {v}]
  <2>1. a \in AdminState
    BY DEF AdminState, AdminPCs, AllCommands, Selected
  <2>2. adm' = [adm EXCEPT ![q] = a]
    BY <1>8 DEF CleanupDelete
  <2>3. /\ a.pc = adm[q].pc /\ a.cmd = adm[q].cmd /\ a.force = adm[q].force
        /\ a.seen = adm[q].seen \ {v} /\ a.todo = adm[q].todo
    BY DEF AdminState
  <2> HIDE DEF a
  <2>4. adm'[q] = a /\ \A r \in Admins \ {q} : adm'[r] = adm[r]
    BY <2>1, <2>2, AdminUpdate
  <2> QED
    BY <1>8, <2>3, <2>4 DEF CleanupDelete, Free
<1>9. CASE ListReturns(q)
  <2>1. MovesTo(q, "pick", FALSE)
    BY <1>9, GotoMoves DEF ListReturns, AdminPCs
  <2> QED
    BY <1>9, <2>1 DEF ListReturns, MovesTo
<1>10. CASE RecGet(q)
  <2>1. MovesTo(q, IF Reconcilable(adm[q].vm, adm[q].force)
                   THEN "rec_init" ELSE "pick", FALSE)
    BY <1>10, GotoMoves DEF RecGet, AdminPCs
  <2> QED
    BY <1>10, <2>1 DEF RecGet, MovesTo, Reconcilable, isProcessRunning, SupervisorAlive
<1>11. CASE RecInit(q)
  <2>1. MovesTo(q, "rec_phase", FALSE) \/ MovesTo(q, "pick", FALSE)
    BY <1>11, GotoMoves DEF RecInit, AdminPCs
  <2>2. CommandGuards(q)
    BY <1>11, <2>1 DEF RecInit, MovesTo
  <2>3. \A w \in VMs : CommandTouches(q, w)
    BY <1>11, <2>1 DEF RecInit, MovesTo
  <2>4. CommandProgress(q)
    BY <1>11, <2>1 DEF RecInit, MovesTo
  <2> QED
    BY <2>2, <2>3, <2>4 DEF CommandEffect
<1>12. CASE RecPhase(q)
  <2>1. MovesTo(q, "rec_subnet", FALSE)
    BY <1>12, GotoMoves DEF RecPhase, AdminPCs
  <2>2. CommandGuards(q)
    BY <1>12, <2>1 DEF RecPhase, MovesTo, TrySetPhase, SetPhase
  <2>3. \A w \in VMs : CommandTouches(q, w)
    BY <1>12, <2>1 DEF RecPhase, MovesTo, TrySetPhase, SetPhase
  <2>4. CommandProgress(q)
    BY <1>12, <2>1 DEF RecPhase, MovesTo, TrySetPhase, SetPhase
  <2> QED
    BY <2>2, <2>3, <2>4 DEF CommandEffect
<1>13. CASE RecSubnet(q)
  <2>1. \/ MovesTo(q, "rec_rootfs", FALSE) /\ Free(adm[q].vm)
        \/ MovesTo(q, "rec_rootfs", TRUE) /\ adm'[q].bad
    BY <1>13, GotoMoves, FailMoves DEF RecSubnet, AdminPCs
  <2>2. CommandGuards(q)
    BY <1>13, <2>1 DEF RecSubnet, MovesTo, Free
  <2>3. \A w \in VMs : CommandTouches(q, w)
    BY <1>13, <2>1 DEF RecSubnet, MovesTo, Free
  <2>4. CommandProgress(q)
    BY <1>13, <2>1 DEF RecSubnet, MovesTo, Free
  <2> QED
    BY <2>2, <2>3, <2>4 DEF CommandEffect
<1>14. CASE RecRootfs(q)
  <2>1. \/ MovesTo(q, "rec_tap", FALSE) /\ ~disks'[adm[q].vm]
        \/ MovesTo(q, "rec_tap", TRUE) /\ adm'[q].bad
    BY <1>14, GotoMoves, FailMoves DEF RecRootfs, AdminPCs
  <2>2. CommandGuards(q)
    BY <1>14, <2>1 DEF RecRootfs, MovesTo
  <2>3. \A w \in VMs : CommandTouches(q, w)
    BY <1>14, <2>1 DEF RecRootfs, MovesTo
  <2>4. CommandProgress(q)
    BY <1>14, <2>1 DEF RecRootfs, MovesTo
  <2> QED
    BY <2>2, <2>3, <2>4 DEF CommandEffect
<1>15. CASE RecTap(q)
  <2>1. \/ MovesTo(q, "rec_nft", FALSE) /\ tap'[adm[q].vm] = NoOctet
        \/ MovesTo(q, "rec_nft", TRUE) /\ adm'[q].bad
    BY <1>15, GotoMoves, FailMoves DEF RecTap, AdminPCs
  <2>2. CommandGuards(q)
    BY <1>15, <2>1 DEF RecTap, MovesTo
  <2>3. \A w \in VMs : CommandTouches(q, w)
    BY <1>15, <2>1 DEF RecTap, MovesTo
  <2>4. CommandProgress(q)
    BY <1>15, <2>1 DEF RecTap, MovesTo
  <2> QED
    BY <2>2, <2>3, <2>4 DEF CommandEffect
<1>16. CASE RecNft(q)
  <2>1. \/ MovesTo(q, "rec_done", FALSE) /\ (~nft'[adm[q].vm] \/ NftDenied)
        \/ MovesTo(q, "rec_done", TRUE) /\ adm'[q].bad
    BY <1>16, GotoMoves, FailMoves DEF RecNft, AdminPCs
  <2>2. CommandGuards(q)
    BY <1>16, <2>1 DEF RecNft, MovesTo
  <2>3. \A w \in VMs : CommandTouches(q, w)
    BY <1>16, <2>1 DEF RecNft, MovesTo
  <2>4. CommandProgress(q)
    BY <1>16, <2>1 DEF RecNft, MovesTo
  <2> QED
    BY <2>2, <2>3, <2>4 DEF CommandEffect
<1>17. CASE RecDone(q)
  <2>1. MovesTo(q, IF ~adm[q].bad /\ adm[q].cmd \in RemovingCommands
                   THEN "rm_get" ELSE "pick", FALSE)
    BY <1>17, GotoMoves DEF RecDone, AdminPCs
  <2>2. CommandGuards(q)
    BY <1>17, <2>1 DEF RecDone, MovesTo, TrySetPhase, SetPhase
  <2>3. \A w \in VMs : CommandTouches(q, w)
    BY <1>17, <2>1 DEF RecDone, MovesTo, TrySetPhase, SetPhase
  <2>4. CommandProgress(q)
    BY <1>17, <2>1 DEF RecDone, MovesTo, TrySetPhase, SetPhase
  <2> QED
    BY <2>2, <2>3, <2>4 DEF CommandEffect
<1>18. CASE AdmRmGet(q)
  <2>1. \E l \in {"pick", "rm_mark", "rm_tx"} : MovesTo(q, l, FALSE)
    BY <1>18, GotoMoves DEF AdmRmGet, AdminPCs
  <2> QED
    BY <1>18, <2>1 DEF AdmRmGet, MovesTo
<1>19. CASE AdmRmMark(q)
  <2>1. MovesTo(q, "rm_tx", FALSE)
    BY <1>19, GotoMoves DEF AdmRmMark, AdminPCs
  <2> QED
    BY <1>19, <2>1 DEF AdmRmMark, MovesTo, MarkCrashed
<1>20. CASE AdmRmTx(q)
  <2>1. MovesTo(q, "rm_dir", FALSE) \/ MovesTo(q, "pick", FALSE)
    BY <1>20, GotoMoves DEF AdmRmTx, AdminPCs
  <2>2. CommandGuards(q)
    BY <1>20, <2>1 DEF AdmRmTx, MovesTo, RemoveRows
  <2>3. \A w \in VMs : CommandTouches(q, w)
    BY <1>20, <2>1 DEF AdmRmTx, MovesTo, RemoveRows
  <2>4. CommandProgress(q)
    BY <1>20, <2>1 DEF AdmRmTx, MovesTo, RemoveRows
  <2> QED
    BY <2>2, <2>3, <2>4 DEF CommandEffect
<1>21. CASE AdmRmDir(q)
  <2>1. MovesTo(q, "pick", FALSE)
    BY <1>21, GotoMoves DEF AdmRmDir, AdminPCs
  <2> QED
    BY <1>21, <2>1 DEF AdmRmDir, MovesTo, RemoveDir
<1>22. CASE CleanupChecked(q)
  <2>1. MovesTo(q, "cl_delete", FALSE)
    BY <1>22, GotoMoves DEF CleanupChecked, AdminPCs
  <2> QED
    BY <1>22, <2>1 DEF CleanupChecked, MovesTo
<1>23. CASE CleanupDone(q) \/ AdminKilled(q) \/ PickDone(q)
  <2>1. MovesTo(q, "cl_scan", FALSE) \/ AdminEnds(q)
    BY <1>23, GotoMoves DEF CleanupDone, AdminKilled, PickDone, AdminPCs
  <2>2. IdleAdmin.pc = "idle" /\ ~IdleAdmin.force /\ IdleAdmin.seen = {}
    BY DEF IdleAdmin
  <2>3. AdminEnds(q) =>
          adm'[q] = IdleAdmin /\ \A r \in Admins \ {q} : adm'[r] = adm[r]
    BY AdminUpdate DEF AdminEnds
  <2> QED
    BY <1>23, <2>1, <2>2, <2>3
    DEF CleanupDone, AdminKilled, PickDone, MovesTo
<1>24. CASE CommandBegins(q)
  <2>1. PICK c \in Commands, f \in ForceRunning :
             BeginAll(q, c, f) \/ \E v \in VMs : BeginOne(q, c, v, f)
    BY <1>24 DEF CommandBegins
  <2> QED
    BY <2>1, <1>1, <1>2
<1>25. CASE AdminStep(q)
  <2> HIDE DEF CommandEffect
  <2> QED
    BY <1>3, <1>4, <1>5, <1>6, <1>7, <1>8, <1>9, <1>10, <1>11,
       <1>12, <1>13, <1>14, <1>15, <1>16, <1>17, <1>18, <1>19, <1>20, <1>21,
       <1>22, <1>23, <1>25 DEF AdminStep
<1> QED
  BY <1>23, <1>24, <1>25

(* Every step of the host is one or the other; a step that changes nothing *)
(* is a supervisor's too.                                                  *)
LEMMA HostStepEffect ==
  ASSUME MaxGen = 1, OwnershipInv, [HostNext]_vars
  PROVE  /\ HostTypeOK'
         /\ \/ \E v \in VMs : SupervisorEffect(v)
            \/ \E q \in Admins : CommandEffect(q)
<1>0. HostTypeOK /\ \A v \in VMs : OwnerIsRegistered(v)
  BY DEF OwnershipInv
<1>1. HostTypeOK'
  BY <1>0, HostTypeStep
<1>2. ASSUME NEW v \in VMs, SupervisorStep(v)  PROVE SupervisorEffect(v)
  BY <1>0, <1>2, MaxGen = 1, NewStepEffect, StartStepEffect, CloseStepEffect,
     OtherStepEffect DEF SupervisorStep
<1>3. CASE UNCHANGED vars
  <2>1. PICK v \in VMs : TRUE
    BY HostAssumption
  <2>2. SupervisorEffect(v)
    BY <1>0, <1>3
    DEF vars, SupervisorEffect, Untouched, CreatesNothing, KeepsOwner, MayCreate,
        Owned, OwnerIsRegistered, CloseProgress, CreationProgress
  <2> QED
    BY <1>1, <2>2
<1> QED
  BY <1>1, <1>2, <1>3, CommandStepEffect, MaxGen = 1 DEF HostNext, HostStep

-----------------------------------------------------------------------------
(* Commands spare a VM that has an owner.                                  *)

(* OwnershipInv is inductive when ids are not reused.                      *)
LEMMA OwnershipStep ==
  ASSUME MaxGen = 1, OwnershipInv, [HostNext]_vars
  PROVE  OwnershipInv'
<1>0. /\ HostTypeOK /\ HostTypeOK'
      /\ \A v \in VMs : OwnerIsRegistered(v)
      /\ \A q \in Admins :
           /\ RemovalIsGuarded(q) /\ OwnerIsSpared(q)
           /\ adm[q].vm \in VMs /\ adm[q].seen \subseteq VMs
  BY HostStepEffect, MaxGen = 1 DEF OwnershipInv, HostTypeOK, AdminState
<1>1. ASSUME NEW v \in VMs, SupervisorEffect(v)  PROVE OwnershipInv'
  <2>1. ASSUME NEW w \in VMs  PROVE OwnerIsRegistered(w)' /\ (Owned(w)' => Owned(w))
    BY <1>0, <1>1
    DEF SupervisorEffect, Untouched, KeepsOwner, OwnerIsRegistered, Owned, MayCreate
  <2>2. ASSUME NEW q \in Admins  PROVE RemovalIsGuarded(q)' /\ OwnerIsSpared(q)'
    BY <1>0, <1>1, <2>1 DEF SupervisorEffect, RemovalIsGuarded, OwnerIsSpared, PastCheck
  <2> QED
    BY <1>0, <2>1, <2>2 DEF OwnershipInv
<1>2. ASSUME NEW q \in Admins, CommandEffect(q)  PROVE OwnershipInv'
  <2>1. ASSUME NEW w \in VMs  PROVE OwnerIsRegistered(w)' /\ (Owned(w)' <=> Owned(w))
    BY <1>0, <1>2
    DEF CommandEffect, CommandGuards, CommandTouches, OwnerIsRegistered, Owned,
        MayCreate, NewPCs, LivePCs
  <2>2. ASSUME NEW r \in Admins  PROVE RemovalIsGuarded(r)' /\ OwnerIsSpared(r)'
    BY <1>0, <1>2, <2>1
    DEF CommandEffect, CommandGuards, RemovalIsGuarded, OwnerIsSpared, PastCheck
  <2> QED
    BY <1>0, <2>1, <2>2 DEF OwnershipInv
<1> QED
  BY <1>1, <1>2, HostStepEffect, MaxGen = 1

(* On the host as it starts nobody owns anything and no command runs.      *)
LEMMA OwnershipInit == HostInit => OwnershipInv
<1> SUFFICES ASSUME HostInit  PROVE OwnershipInv
  OBVIOUS
<1>1. HostTypeOK
  BY HostTypeInit
<1>2. ASSUME NEW v \in VMs  PROVE OwnerIsRegistered(v)
  BY DEF HostInit, OwnerIsRegistered, NewPCs, LivePCs
<1>3. ASSUME NEW q \in Admins  PROVE RemovalIsGuarded(q) /\ OwnerIsSpared(q)
  <2>1. adm[q].pc = "idle" /\ ~adm[q].force /\ adm[q].seen = {}
    BY DEF HostInit, IdleAdmin
  <2> QED
    BY <2>1 DEF RemovalIsGuarded, OwnerIsSpared, PastCheck, ReconcilePCs, RemovePCs
<1> QED
  BY <1>1, <1>2, <1>3 DEF OwnershipInv

(* ReconcileSkipsLiveVMs for any number of VMs and processes, with faults, *)
(* `run --rm` and denied nftables operations: once ReconcileVM has passed  *)
(* its liveness check of a VM, no supervisor comes to own that VM, however *)
(* long ago the check was.  Reusing an id (MaxGen > 1) breaks it.          *)
THEOREM LiveVMsSkipped ==
  ASSUME MaxGen = 1
  PROVE  HostSpec => []ReconcileSkipsLiveVMs
<1>1. OwnershipInv => ReconcileSkipsLiveVMs
  BY DEF OwnershipInv, OwnerIsSpared, PastCheck, Owned, MayCreate,
         ReconcileSkipsLiveVMs
<1>2. OwnershipInv /\ [HostNext]_vars => OwnershipInv'
  BY OwnershipStep
<1> QED
  BY <1>1, <1>2, OwnershipInit, PTL DEF HostSpec

(* RemovalSparesLiveVMs: whoever deletes a row of vms, the `rm`, `prune` or*)
(* `run --rm` that runs state.Manager.Remove, the VM has no owner then.    *)
THEOREM RemovalSparesOwners ==
  ASSUME MaxGen = 1
  PROVE  HostSpec => RemovalSparesLiveVMs
<1> DEFINE Spared == \A v \in VMs : status[v] # "none" /\ status'[v] = "none"
                                      => pc[v] \notin NewPCs \cup LivePCs
<1>1. ASSUME OwnershipInv, [HostNext]_vars  PROVE Spared
  <2>1. ASSUME NEW v \in VMs, SupervisorEffect(v)  PROVE Spared
    BY <2>1 DEF SupervisorEffect, Untouched, NewPCs, LivePCs
  <2>2. ASSUME NEW q \in Admins, CommandEffect(q)  PROVE Spared
    BY <2>2 DEF CommandEffect, CommandTouches, Owned, MayCreate
  <2> QED
    BY <1>1, <2>1, <2>2, HostStepEffect, MaxGen = 1
<1>2. OwnershipInv /\ [HostNext]_vars => OwnershipInv'
  BY OwnershipStep
<1>3. OwnershipInv /\ [HostNext]_vars => [Spared]_vars
  BY <1>1
<1> QED
  BY <1>2, <1>3, OwnershipInit, PTL DEF HostSpec, RemovalSparesLiveVMs

-----------------------------------------------------------------------------
(* Who deletes a row, or records cleaned, has given everything back.       *)

(* ProgressInv is inductive unless nftables answers are swallowed: who     *)
(* creates is an owner, whom the commands spare, and nobody else creates.  *)
LEMMA ProgressStep ==
  ASSUME MaxGen = 1, ~NftDenied, ProgressInv, [HostNext]_vars
  PROVE  ProgressInv'
<1>0. /\ OwnershipInv /\ OwnershipInv' /\ HostTypeOK
      /\ \A v \in VMs : CloseProgress(v)
      /\ \A q \in Admins :
           ReconcileProgress(q) /\ OwnerIsSpared(q) /\ adm[q].vm \in VMs
  BY OwnershipStep, MaxGen = 1 DEF ProgressInv, OwnershipInv, HostTypeOK, AdminState
<1>1. ASSUME NEW v \in VMs, SupervisorEffect(v)  PROVE ProgressInv'
  <2>1. ASSUME NEW w \in VMs  PROVE CloseProgress(w)'
    BY <1>0, <1>1 DEF SupervisorEffect, Untouched, CloseProgress
  <2>2. ASSUME NEW q \in Admins  PROVE ReconcileProgress(q)'
    <3>1. ~adm[q].force /\ PastCheck(q) => CreatesNothing(adm[q].vm)
      BY <1>0, <1>1
      DEF SupervisorEffect, Untouched, CreatesNothing, OwnerIsSpared, Owned
    <3>2. adm'[q] = adm[q]
      BY <1>1 DEF SupervisorEffect
    <3> QED
      BY <1>0, <3>1, <3>2
      DEF ReconcileProgress, CreatesNothing, PastCheck, ReconcilePCs
  <2> QED
    BY <1>0, <2>1, <2>2 DEF ProgressInv
<1>2. ASSUME NEW q \in Admins, CommandEffect(q)  PROVE ProgressInv'
  <2>1. ASSUME NEW w \in VMs  PROVE CloseProgress(w)'
    BY <1>0, <1>2
    DEF CommandEffect, CommandGuards, CommandTouches, CreatesNothing, CloseProgress
  <2>2. ASSUME NEW r \in Admins  PROVE ReconcileProgress(r)'
    <3>1. CASE r = q
      BY <1>0, <1>2, <3>1, ~NftDenied DEF CommandEffect, CommandProgress
    <3>2. CASE r # q
      BY <1>0, <1>2, <3>2
      DEF CommandEffect, CommandGuards, CommandTouches, CreatesNothing,
          ReconcileProgress
    <3> QED
      BY <3>1, <3>2
  <2> QED
    BY <1>0, <2>1, <2>2 DEF ProgressInv
<1> QED
  BY <1>0, <1>1, <1>2, HostStepEffect, MaxGen = 1

(* At the start nothing is being given back.                               *)
LEMMA ProgressInit == HostInit => ProgressInv
<1> SUFFICES ASSUME HostInit  PROVE ProgressInv
  OBVIOUS
<1>1. ASSUME NEW v \in VMs  PROVE CloseProgress(v)
  BY DEF HostInit, CloseProgress, RemovePCs
<1>2. ASSUME NEW q \in Admins  PROVE ReconcileProgress(q)
  <2>1. adm[q].pc = "idle"
    BY DEF HostInit, IdleAdmin
  <2> QED
    BY <2>1 DEF ReconcileProgress, RemovePCs
<1> QED
  BY <1>1, <1>2, OwnershipInit DEF ProgressInv

(* RecoveryInv is inductive when the supervisor does not remove the VM     *)
(* itself, or its Close cannot fail.                                       *)
LEMMA RecoveryStep ==
  ASSUME MaxGen = 1, ~NftDenied, ~RunRm \/ ~HostFaults,
         RecoveryInv, [HostNext]_vars
  PROVE  RecoveryInv'
<1>0. /\ OwnershipInv /\ ProgressInv'
      /\ \A v \in VMs : CloseProgress(v) /\ (RunRm \/ pc[v] \notin RemovePCs)
      /\ \A q \in Admins : ReconcileProgress(q) /\ RemovalIsGuarded(q)
      /\ LeakIsRecoverable
  BY ProgressStep, MaxGen = 1, ~NftDenied DEF RecoveryInv, ProgressInv, OwnershipInv
<1>1. ASSUME NEW v \in VMs, SupervisorEffect(v)  PROVE RecoveryInv'
  <2>1. ASSUME NEW w \in VMs  PROVE RunRm \/ pc'[w] \notin RemovePCs
    BY <1>0, <1>1 DEF SupervisorEffect, Untouched
  <2>2. pc[v] = "rm_tx" => ~Leaked(v)
    BY <1>0, ~RunRm \/ ~HostFaults DEF CloseProgress, Leaked, RemovePCs
  <2>3. ASSUME NEW w \in VMs, Leaked(w)'  PROVE status'[w] # "none"
    BY <1>0, <1>1, <2>2, <2>3
    DEF SupervisorEffect, Untouched, LeakIsRecoverable, Leaked, CreatesNothing
  <2> QED
    BY <1>0, <2>1, <2>3 DEF RecoveryInv, LeakIsRecoverable
<1>2. ASSUME NEW q \in Admins, CommandEffect(q)  PROVE RecoveryInv'
  <2>1. ASSUME NEW w \in VMs  PROVE RunRm \/ pc'[w] \notin RemovePCs
    BY <1>0, <1>2 DEF CommandEffect, CommandGuards
  <2>2. adm[q].pc = "rm_tx" => ~Leaked(adm[q].vm)
    BY <1>0 DEF ReconcileProgress, RemovalIsGuarded, Leaked, RemovePCs
  <2>3. ASSUME NEW w \in VMs, Leaked(w)'  PROVE status'[w] # "none"
    BY <1>0, <1>2, <2>2, <2>3
    DEF CommandEffect, CommandTouches, LeakIsRecoverable, Leaked, CreatesNothing
  <2> QED
    BY <1>0, <2>1, <2>3 DEF RecoveryInv, LeakIsRecoverable
<1> QED
  BY <1>0, <1>1, <1>2, HostStepEffect, MaxGen = 1

(* On the host as it starts nothing is leaked.                             *)
LEMMA RecoveryInit == HostInit => RecoveryInv
BY ProgressInit
DEF HostInit, PoolInit, RecoveryInv, LeakIsRecoverable, Leaked, RemovePCs

(* LeakIsRecoverable for any number of VMs, octets, processes and faults:  *)
(* whatever step of New, Start, Close, ReconcileVM, Remove or Prune is     *)
(* interrupted or fails, a VM with host resources keeps its row.  The      *)
(* assumptions exclude the cases in which the code breaks it: a reused id, *)
(* a denied nftables operation taken for success, and a `run --rm` that    *)
(* removes the row after a Close that failed.                              *)
THEOREM LeaksRecoverable ==
  ASSUME MaxGen = 1, ~NftDenied, ~RunRm \/ ~HostFaults
  PROVE  HostSpec => []LeakIsRecoverable
<1>1. RecoveryInv => LeakIsRecoverable
  BY DEF RecoveryInv
<1>2. RecoveryInv /\ [HostNext]_vars => RecoveryInv'
  BY RecoveryStep
<1> QED
  BY <1>1, <1>2, RecoveryInit, PTL DEF HostSpec

(* CleanedInv is inductive when nobody uses --force-running.               *)
LEMMA CleanedStep ==
  ASSUME MaxGen = 1, ~NftDenied, ForceRunning \subseteq {FALSE},
         CleanedInv, [HostNext]_vars
  PROVE  CleanedInv'
<1>0. /\ OwnershipInv /\ ProgressInv' /\ NothingForced
      /\ \A v \in VMs :
           /\ CloseProgress(v)
           /\ phase[v] = "cleaned" => ~Leaked(v) /\ ~MayCreate(v)
      /\ \A q \in Admins :
           ReconcileProgress(q) /\ OwnerIsSpared(q) /\ adm[q].vm \in VMs
  BY ProgressStep, MaxGen = 1, ~NftDenied
  DEF CleanedInv, ProgressInv, OwnershipInv, HostTypeOK, AdminState
<1> USE ForceRunning \subseteq {FALSE}
<1>1. ASSUME NEW v \in VMs, SupervisorEffect(v)  PROVE CleanedInv'
  <2>1. NothingForced'
    BY <1>0, <1>1 DEF SupervisorEffect, NothingForced
  <2>2. pc[v] = "c_final" /\ ~errs[v] => ~Leaked(v) /\ ~MayCreate(v)
    BY <1>0 DEF CloseProgress, Leaked, MayCreate, NewPCs
  <2>3. ASSUME NEW w \in VMs, phase'[w] = "cleaned"
        PROVE  ~Leaked(w)' /\ ~MayCreate(w)'
    BY <1>0, <1>1, <2>2, <2>3
    DEF SupervisorEffect, Untouched, KeepsOwner, Leaked, CreatesNothing, MayCreate
  <2> QED
    BY <1>0, <2>1, <2>3 DEF CleanedInv
<1>2. ASSUME NEW q \in Admins, CommandEffect(q)  PROVE CleanedInv'
  <2>1. NothingForced'
    BY <1>0, <1>2 DEF CommandEffect, CommandGuards, NothingForced
  <2>2. adm[q].pc = "rec_done" /\ ~adm[q].bad
          => ~Leaked(adm[q].vm) /\ ~MayCreate(adm[q].vm)
    BY <1>0
    DEF NothingForced, ReconcileProgress, OwnerIsSpared, PastCheck, ReconcilePCs,
        Owned, Leaked
  <2>3. ASSUME NEW w \in VMs, phase'[w] = "cleaned"
        PROVE  ~Leaked(w)' /\ ~MayCreate(w)'
    BY <1>0, <1>2, <2>2, <2>3
    DEF CommandEffect, CommandGuards, CommandTouches, Leaked, CreatesNothing,
        MayCreate
  <2> QED
    BY <1>0, <2>1, <2>3 DEF CleanedInv
<1> QED
  BY <1>0, <1>1, <1>2, HostStepEffect, MaxGen = 1

(* At the start no record says cleaned and nothing is forced.              *)
LEMMA CleanedInit == HostInit => CleanedInv
<1> SUFFICES ASSUME HostInit  PROVE CleanedInv
  OBVIOUS
<1>1. NothingForced
  BY DEF HostInit, IdleAdmin, NothingForced
<1>2. \A v \in VMs : phase[v] # "cleaned"
  BY DEF HostInit, NoPhase
<1> QED
  BY <1>1, <1>2, ProgressInit DEF CleanedInv

(* CleanedMeansClean for any number of VMs, processes and faults, with or  *)
(* without `run --rm`: neither Close nor ReconcileVM records cleaned over  *)
(* a step that failed, and nothing is created for the VM afterwards.       *)
(* `gc --force-running` against a VM that is being created breaks it, and  *)
(* so does a denied nftables operation.                                    *)
THEOREM CleanedIsClean ==
  ASSUME MaxGen = 1, ~NftDenied, ForceRunning \subseteq {FALSE}
  PROVE  HostSpec => []CleanedMeansClean
<1>1. CleanedInv => CleanedMeansClean
  BY DEF CleanedInv, CleanedMeansClean
<1>2. CleanedInv /\ [HostNext]_vars => CleanedInv'
  BY CleanedStep
<1> QED
  BY <1>1, <1>2, CleanedInit, PTL DEF HostSpec

-----------------------------------------------------------------------------
(* Nothing is taken from a running VM.                                     *)

(* KeepInv is inductive when a lookup of the row cannot fail for another   *)
(* reason than that there is none (~HostFaults).                           *)
LEMMA KeepStep ==
  ASSUME MaxGen = 1, ~HostFaults, ForceRunning \subseteq {FALSE},
         KeepInv, [HostNext]_vars
  PROVE  KeepInv'
<1>0. /\ OwnershipInv /\ OwnershipInv' /\ NothingForced
      /\ \A v \in VMs : CreationProgress(v)
      /\ \A q \in Admins :
           /\ CleanupSparesOwners(q)
           /\ adm[q].todo \subseteq VMs /\ adm[q].seen \subseteq VMs
  BY OwnershipStep, MaxGen = 1
  DEF KeepInv, OwnershipInv, HostTypeOK, AdminState
<1> USE ForceRunning \subseteq {FALSE}, ~HostFaults
<1>1. ASSUME NEW v \in VMs, SupervisorEffect(v)  PROVE KeepInv'
  <2>1. NothingForced'
    BY <1>0, <1>1 DEF SupervisorEffect, NothingForced
  <2>2. ASSUME NEW w \in VMs  PROVE CreationProgress(w)'
    BY <1>0, <1>1 DEF SupervisorEffect, Untouched, CreationProgress
  <2>3. ASSUME NEW w \in VMs
        PROVE  (Owned(w)' => Owned(w)) /\ (pc'[w] = "none" => pc[w] = "none")
    BY <1>1 DEF SupervisorEffect, Untouched, KeepsOwner, Owned, MayCreate
  <2>4. ASSUME NEW q \in Admins  PROVE CleanupSparesOwners(q)'
    BY <1>0, <1>1, <2>3 DEF SupervisorEffect, CleanupSparesOwners
  <2> QED
    BY <1>0, <2>1, <2>2, <2>4 DEF KeepInv
<1>2. ASSUME NEW q \in Admins, CommandEffect(q)  PROVE KeepInv'
  <2>1. NothingForced'
    BY <1>0, <1>2 DEF CommandEffect, CommandGuards, NothingForced
  <2>2. ASSUME NEW w \in VMs, Owned(w)
        PROVE  table'[w] = table[w] /\ tap'[w] = tap[w] /\ disks'[w] = disks[w]
    BY <1>0, <1>2, <2>2
    DEF CommandEffect, CommandTouches, NothingForced, CleanupSparesOwners
  <2>3. ASSUME NEW w \in VMs  PROVE CreationProgress(w)'
    BY <1>0, <1>2, <2>2
    DEF CommandEffect, CommandGuards, CreationProgress, Owned, MayCreate, NewPCs
  <2>4. ASSUME NEW r \in Admins  PROVE CleanupSparesOwners(r)'
    <3>1. CASE r = q
      BY <1>0, <1>2, <3>1 DEF CommandEffect, CommandProgress
    <3>2. CASE r # q
      BY <1>0, <1>2, <3>2
      DEF CommandEffect, CommandGuards, CleanupSparesOwners, Owned, MayCreate
    <3> QED
      BY <3>1, <3>2
  <2> QED
    BY <1>0, <2>1, <2>3, <2>4 DEF KeepInv
<1> QED
  BY <1>0, <1>1, <1>2, HostStepEffect, MaxGen = 1

(* At the start nothing has been created and no Cleanup runs.              *)
LEMMA KeepInit == HostInit => KeepInv
<1> SUFFICES ASSUME HostInit  PROVE KeepInv
  OBVIOUS
<1>1. ASSUME NEW q \in Admins  PROVE ~adm[q].force /\ CleanupSparesOwners(q)
  <2>1. adm[q].pc = "idle" /\ ~adm[q].force
    BY DEF HostInit, IdleAdmin
  <2> QED
    BY <2>1 DEF CleanupSparesOwners
<1>2. ASSUME NEW v \in VMs  PROVE CreationProgress(v)
  BY DEF HostInit, PoolInit, CreationProgress, LivePCs
<1> QED
  BY <1>1, <1>2, OwnershipInit DEF KeepInv, NothingForced

(* LiveVMKeepsResources for any number of VMs, octets and processes: from  *)
(* the end of New to the begin of Close no List, ReconcileVM, Remove or    *)
(* SubnetAllocator.Cleanup takes the VM's subnet, TAP or disks or changes  *)
(* its row, though each acts on what it read some steps earlier.  A lookup *)
(* that fails makes Cleanup release a live VM's subnet, hence ~HostFaults. *)
THEOREM LiveVMsKeepResources ==
  ASSUME MaxGen = 1, ~HostFaults, ForceRunning \subseteq {FALSE}
  PROVE  HostSpec => []LiveVMKeepsResources
<1>1. KeepInv => LiveVMKeepsResources
  BY DEF KeepInv, OwnershipInv, OwnerIsRegistered, CreationProgress, LivePCs,
         LiveVMKeepsResources
<1>2. KeepInv /\ [HostNext]_vars => KeepInv'
  BY KeepStep
<1> QED
  BY <1>1, <1>2, KeepInit, PTL DEF HostSpec

=============================================================================
