--------------------------- MODULE HostStateProofs --------------------------
(***************************************************************************)
(* Proofs about two stores of the host, the subnets of the state database  *)
(* and the lifecycle database, one section each.                           *)
(*                                                                         *)
(* The subnet allocator keeps its table unique and implements SubnetPool   *)
(* for any set of VMs, any octet range and any number of processes.  No    *)
(* strengthening beyond the types is needed: what an allocator read is     *)
(* never trusted by the table, whose constraints check every insertion.    *)
(*                                                                         *)
(* The lifecycle store, for any number of processes that make any calls on *)
(* the lifecycle records of a VM: the versions have no gap, and an update  *)
(* that no other one slipped into follows the phase machine and keeps the  *)
(* marks of the cleanup.                                                   *)
(***************************************************************************)
EXTENDS SubnetAllocator, LifecycleStore, WellFoundedInduction, TLAPS

-----------------------------------------------------------------------------
(* The subnet allocator.                                                   *)

(* Every set of octets that is not empty has a least element, so the CHOOSE *)
(* of FirstFree is the octet the Go loop stops at.                          *)
LEMMA LeastOctet ==
    ASSUME NEW S \in SUBSET Nat, S # {}
    PROVE  \E o \in S : \A p \in S : o <= p
<1>1. PICK o \in S : \A p \in S : ~(<<p, o>> \in OpToRel(<, Nat))
    BY NatLessThanWellFounded, WFMin
<1>2. \A p \in S : ~(p < o)
    BY <1>1 DEF OpToRel
<1>. QED  BY <1>2

(* NoOctet is no octet of the range: minOctet is positive. *)
LEMMA NoOctetOutside == NoOctet \notin Octets
BY OctetsAssumption DEF NoOctet, Octets

(* What the loop of Allocate returns: 0 exactly when the range is used up, *)
(* and otherwise an octet of the range that was not used.                  *)
LEMMA FirstFreeType ==
    ASSUME NEW used \in SUBSET Octets
    PROVE  /\ FirstFree(used) \in Octets \cup {NoOctet}
           /\ FirstFree(used) # NoOctet => FirstFree(used) \in Octets \ used
           /\ FirstFree(used) = NoOctet => Octets \subseteq used
<1>1. CASE Octets \subseteq used
    BY <1>1 DEF FirstFree
<1>2. CASE ~(Octets \subseteq used)
    <2>. DEFINE Rest == Octets \ used
    <2>1. Rest # {} /\ Rest \in SUBSET Nat
        BY <1>2, OctetsAssumption DEF Octets
    <2>2. \E o \in Rest : \A p \in Rest : o <= p
        BY <2>1, LeastOctet
    <2>3. FirstFree(used) \in Rest
        BY <1>2, <2>2 DEF FirstFree
    <2>. QED  BY <2>3, NoOctetOutside
<1>. QED  BY <1>1, <1>2

(* usedOctets reads octets of the range only. *)
LEMMA UsedType == PoolTypeOK => UsedOctets(table) \in SUBSET Octets
BY DEF PoolTypeOK, UsedOctets

(* Whatever a call returns, it leaves a well-typed call record. *)
LEMMA ReturnType ==
    ASSUME call \in [Allocators -> Call], NEW a \in Allocators,
           NEW o \in Octets \cup {NoOctet}, NEW r \in Results, Return(a, o, r)
    PROVE  call' \in [Allocators -> Call]
<1>. DEFINE new == [pc |-> "idle", vm |-> call[a].vm, used |-> {},
                    octet |-> o, res |-> r]
<1>1. call[a] \in Call
    OBVIOUS
<1>2. call' = [call EXCEPT ![a] = new]
    BY <1>1 DEF Return, Call
<1>3. new \in Call
    BY <1>1 DEF Call
<1>. QED  BY <1>2, <1>3

LEMMA AllocatorTypeStep == AllocatorTypeOK /\ [AllocatorNext]_allocatorVars => AllocatorTypeOK'
<1>. SUFFICES ASSUME AllocatorTypeOK, [AllocatorNext]_allocatorVars
              PROVE  AllocatorTypeOK'
    OBVIOUS
<1>. USE DEF AllocatorTypeOK, PoolTypeOK, Call, Results
<1>1. CASE UNCHANGED allocatorVars
    BY <1>1 DEF allocatorVars
<1>2. ASSUME NEW a \in Allocators, NEW v \in VMs,
             BeginAllocate(a, v) \/ BeginRelease(a, v)
      PROVE  AllocatorTypeOK'
    BY <1>2 DEF BeginAllocate, BeginRelease
<1>3. ASSUME NEW a \in Allocators, GetExisting(a) PROVE AllocatorTypeOK'
    <2>1. table[call[a].vm] \in Octets \cup {NoOctet}
        OBVIOUS
    <2>. QED  BY <1>3, <2>1, ReturnType DEF GetExisting
<1>4. ASSUME NEW a \in Allocators, GetMissing(a) PROVE AllocatorTypeOK'
    BY <1>4 DEF GetMissing
<1>5. ASSUME NEW a \in Allocators, ReadUsed(a) PROVE AllocatorTypeOK'
    BY <1>5, UsedType DEF ReadUsed
<1>6. ASSUME NEW a \in Allocators,
             ReadUsedFails(a) \/ Exhausted(a) \/ InsertFails(a) \/ DeleteFails(a)
      PROVE  AllocatorTypeOK'
    BY <1>6, ReturnType DEF ReadUsedFails, Exhausted, InsertFails, DeleteFails
<1>7. ASSUME NEW a \in Allocators, Insert(a) PROVE AllocatorTypeOK'
    <2>1. FirstFree(call[a].used) \in Octets \cup {NoOctet}
        BY FirstFreeType
    <2>2. call' \in [Allocators -> Call]
        BY <1>7, <2>1, ReturnType DEF Insert
    <2>3. table' \in [VMs -> Octets \cup {NoOctet}]
        BY <1>7, <2>1 DEF Insert
    <2>. QED  BY <2>2, <2>3
<1>8. ASSUME NEW a \in Allocators, Delete(a) PROVE AllocatorTypeOK'
    BY <1>8, ReturnType DEF Delete
<1>. QED
    BY <1>1, <1>2, <1>3, <1>4, <1>5, <1>6, <1>7, <1>8 DEF AllocatorNext, Step

(***************************************************************************)
(* Type correctness of the allocator (subnet.go, Allocate and Release).    *)
(***************************************************************************)
THEOREM AllocatorTypeCorrect == AllocatorSpec => []AllocatorTypeOK
<1>1. AllocatorInit => AllocatorTypeOK
    BY DEF AllocatorInit, PoolInit, AllocatorTypeOK, PoolTypeOK, Call, Results
<1>2. AllocatorTypeOK /\ [AllocatorNext]_allocatorVars => AllocatorTypeOK'
    BY AllocatorTypeStep
<1>. QED  BY <1>1, <1>2, PTL DEF AllocatorSpec

(* Each statement of an allocator grants, frees, or leaves the table alone. *)
LEMMA PoolStep ==
    AllocatorTypeOK /\ [AllocatorNext]_allocatorVars => [PoolNext]_table
<1>. SUFFICES ASSUME AllocatorTypeOK, [AllocatorNext]_allocatorVars
              PROVE  [PoolNext]_table
    OBVIOUS
<1>1. CASE UNCHANGED allocatorVars
    BY <1>1 DEF allocatorVars
<1>2. ASSUME NEW a \in Allocators, NEW v \in VMs,
             BeginAllocate(a, v) \/ BeginRelease(a, v)
      PROVE  UNCHANGED table
    BY <1>2 DEF BeginAllocate, BeginRelease
<1>3. ASSUME NEW a \in Allocators, Insert(a) PROVE PoolNext
    <2>. DEFINE o == FirstFree(call[a].used)
    <2>1. call[a].used \in SUBSET Octets /\ call[a].vm \in VMs
        BY DEF AllocatorTypeOK, Call
    <2>2. o \in Octets
        BY <1>3, <2>1, FirstFreeType DEF Insert
    <2>3. Grant(call[a].vm, o)
        BY <1>3 DEF Insert, InsertAccepted, Grant
    <2>. QED  BY <2>1, <2>2, <2>3 DEF PoolNext
<1>4. ASSUME NEW a \in Allocators, Delete(a) PROVE PoolNext
    <2>1. call[a].vm \in VMs
        BY DEF AllocatorTypeOK, Call
    <2>. QED  BY <1>4, <2>1 DEF Delete, PoolNext, Free
<1>5. ASSUME NEW a \in Allocators,
             \/ GetExisting(a) \/ GetMissing(a) \/ ReadUsed(a)
             \/ ReadUsedFails(a) \/ Exhausted(a) \/ InsertFails(a)
             \/ DeleteFails(a)
      PROVE  UNCHANGED table
    BY <1>5 DEF GetExisting, GetMissing, ReadUsed, ReadUsedFails, Exhausted,
                InsertFails, DeleteFails
<1>. QED  BY <1>1, <1>2, <1>3, <1>4, <1>5 DEF AllocatorNext, Step

(***************************************************************************)
(* Allocators that race through separate statements implement the atomic   *)
(* table: every process sees grants and releases that happen at once.      *)
(***************************************************************************)
THEOREM AllocatorImplementsPool == AllocatorSpec => ImplementsPool
<1>1. AllocatorInit => PoolInit
    BY DEF AllocatorInit
<1>2. AllocatorTypeOK /\ [AllocatorNext]_allocatorVars => [PoolNext]_table
    BY PoolStep
<1>. QED
    BY <1>1, <1>2, AllocatorTypeCorrect, PTL
    DEF AllocatorSpec, ImplementsPool, PoolSpec

LEMMA PoolUniqueStep ==
    PoolTypeOK /\ UniqueOctets /\ [PoolNext]_table => UniqueOctets'
<1>. SUFFICES ASSUME PoolTypeOK, UniqueOctets, [PoolNext]_table
              PROVE  UniqueOctets'
    OBVIOUS
<1>1. CASE UNCHANGED table
    BY <1>1 DEF UniqueOctets
<1>2. ASSUME NEW v \in VMs, Free(v) PROVE UniqueOctets'
    BY <1>2 DEF Free, UniqueOctets, PoolTypeOK
<1>3. ASSUME NEW v \in VMs, NEW o \in Octets, Grant(v, o) PROVE UniqueOctets'
    <2>1. o # NoOctet
        BY NoOctetOutside
    <2>2. \A w \in VMs : table[w] # o
        BY <1>3, <2>1 DEF Grant, UsedOctets
    <2>. QED  BY <1>3, <2>2 DEF Grant, UniqueOctets, PoolTypeOK
<1>. QED  BY <1>1, <1>2, <1>3 DEF PoolNext

(***************************************************************************)
(* No interleaving of allocators gives two VMs the same /24.               *)
(***************************************************************************)
THEOREM SubnetsUnique == AllocatorSpec => []UniqueOctets
<1>1. AllocatorInit => UniqueOctets
    BY DEF AllocatorInit, PoolInit, UniqueOctets
<1>2. AllocatorTypeOK /\ UniqueOctets /\ [AllocatorNext]_allocatorVars => UniqueOctets'
    BY PoolStep, PoolUniqueStep DEF AllocatorTypeOK
<1>. QED  BY <1>1, <1>2, AllocatorTypeCorrect, PTL DEF AllocatorSpec

(***************************************************************************)
(* A VM's subnet is never exchanged under it: a row stays or is deleted.   *)
(***************************************************************************)
THEOREM SubnetNeverMoves == AllocatorSpec => RowsNeverMove
<1>1. AllocatorTypeOK /\ [AllocatorNext]_allocatorVars
        => [\A v \in VMs : table[v] # NoOctet
                => table'[v] \in {table[v], NoOctet}]_allocatorVars
    <2>. SUFFICES ASSUME AllocatorTypeOK, [AllocatorNext]_allocatorVars,
                         NEW v \in VMs, table[v] # NoOctet
                  PROVE  table'[v] \in {table[v], NoOctet}
        OBVIOUS
    <2>1. [PoolNext]_table
        BY PoolStep
    <2>. QED  BY <2>1 DEF PoolNext, Grant, Free, AllocatorTypeOK, PoolTypeOK
<1>. QED  BY <1>1, AllocatorTypeCorrect, PTL DEF AllocatorSpec, RowsNeverMove

(* Only the step that found the whole range used returns exhaustion; every *)
(* other one returns something else, or leaves the result as it was.       *)
LEMMA ExhaustedStep ==
    ASSUME AllocatorTypeOK, [AllocatorNext]_allocatorVars, NEW a \in Allocators,
           call'[a].res = "ErrNoAvailableSubnets", call[a].res = "none"
    PROVE  Octets \subseteq call[a].used
<1>. USE DEF AllocatorTypeOK, Call
<1>1. call'[a] # call[a]
    OBVIOUS
<1>2. ASSUME NEW b \in Allocators, NEW o, NEW r, Return(b, o, r)
      PROVE  b = a /\ r = "ErrNoAvailableSubnets"
    BY <1>1, <1>2 DEF Return
<1>3. \A b \in Allocators : ~(GetMissing(b) \/ ReadUsed(b))
    BY <1>1 DEF GetMissing, ReadUsed
<1>4. \A b \in Allocators, v \in VMs :
        ~(BeginAllocate(b, v) \/ BeginRelease(b, v))
    BY <1>1 DEF BeginAllocate, BeginRelease
<1>5. \A b \in Allocators :
        ~(\/ GetExisting(b) \/ ReadUsedFails(b) \/ Insert(b)
          \/ InsertFails(b) \/ Delete(b) \/ DeleteFails(b))
    BY <1>2 DEF GetExisting, ReadUsedFails, Insert, InsertFails, Delete,
                DeleteFails
<1>6. Exhausted(a)
    <2>1. PICK b \in Allocators : Exhausted(b)
        BY <1>1, <1>3, <1>4, <1>5 DEF AllocatorNext, Step, allocatorVars
    <2>. QED  BY <1>2, <2>1 DEF Exhausted
<1>7. call[a].used \in SUBSET Octets
    OBVIOUS
<1>. QED  BY <1>6, <1>7, FirstFreeType DEF Exhausted

(***************************************************************************)
(* Allocate gives up only when every octet of the range was taken when it  *)
(* read the table: the search reaches the last octet.                      *)
(***************************************************************************)
THEOREM ExhaustionIsReal == AllocatorSpec => ExhaustedOnlyWhenFull
<1>1. AllocatorTypeOK /\ [AllocatorNext]_allocatorVars
        => [\A a \in Allocators :
              call'[a].res = "ErrNoAvailableSubnets" /\ call[a].res = "none"
                 => Octets \subseteq call[a].used]_allocatorVars
    BY ExhaustedStep
<1>. QED
    BY <1>1, AllocatorTypeCorrect, PTL DEF AllocatorSpec, ExhaustedOnlyWhenFull

-----------------------------------------------------------------------------
(* The lifecycle record store.                                             *)

(* The record of a VM that has none is well typed.                         *)
LEMMA EmptyRecordType == EmptyRecord \in Record
BY DEF EmptyRecord, Record, Phases, Marks

(* What updateFn makes of a record is a record.                            *)
LEMMA EditedType ==
  ASSUME NEW op \in Op, ~IsStateOp(op), NEW rec \in Record
  PROVE  Edited(op, rec) \in Record
<1>1. CASE op.kind = "Init"
  BY <1>1, EmptyRecordType DEF Edited
<1>2. CASE op.kind = "SetResource"
  BY <1>2 DEF Edited
<1>3. CASE op.kind = "SetPhase"
  <2>1. op.phase \in Phases
    BY <1>3 DEF Op
  <2> QED
    BY <1>3, <2>1 DEF Edited, Record
<1>4. CASE op.kind = "SetLastError"
  <2>1. op.err \in BOOLEAN
    BY <1>4 DEF Op
  <2> QED
    BY <1>4, <2>1 DEF Edited, Record
<1>5. CASE op.kind = "MarkCleanup"
  <2>1. op.step \in Steps /\ op.mark \in Marks
    BY <1>5 DEF Op, Marks
  <2>2. Edited(op, rec) = [rec EXCEPT !.cleanup = [@ EXCEPT ![op.step] = op.mark]]
    BY <1>5 DEF Edited, Record
  <2>3. [rec.cleanup EXCEPT ![op.step] = op.mark] \in [Steps -> Marks]
    BY <2>1 DEF Record
  <2> QED
    BY <2>2, <2>3 DEF Record
<1> QED
  BY <1>1, <1>2, <1>3, <1>4, <1>5 DEF Op, IsStateOp

(* loadNoLock returns a record.                                            *)
LEMMA LoadedType == ASSUME history \in Seq(Record)  PROVE Loaded \in Record
BY EmptyRecordType DEF Loaded

(* The call after the current one, or the one its failure leads to.        *)
LEMMA ContinueType ==
  ASSUME writer \in [Writers -> WriterState], NEW w \in Writers,
         NEW i \in Nat \ {0}, Continue(w, i)
  PROVE  writer' \in [Writers -> WriterState]
BY EmptyRecordType, AttemptsAssumption DEF Continue, WriterState

(* A call that is not done is a call of the writer's program.              *)
LEMMA CurrentOpType ==
  ASSUME writer \in [Writers -> WriterState], NEW w \in Writers, ~Done(w)
  PROVE  CurrentOp(w) \in Op
<1>1. Program[w] \in Seq(Op) /\ writer[w].ip \in Nat \ {0}
  BY ProgramAssumption DEF WriterState
<1> QED
  BY <1>1 DEF CurrentOp, Done

(* A record under another version is a record.                             *)
LEMMA VersionedType ==
  ASSUME NEW rec \in Record, NEW v \in Nat
  PROVE  /\ [rec EXCEPT !.version = v] \in Record
         /\ [rec EXCEPT !.version = v].version = v
BY DEF Record

(* A call that returns leaves its writer at a call again.                  *)
LEMMA NextCallType ==
  ASSUME writer \in [Writers -> WriterState], NEW w \in Writers,
         NextCall(w) \/ (~Done(w) /\ FailCall(w))
  PROVE  writer' \in [Writers -> WriterState]
<1>1. writer[w].ip \in Nat \ {0}
  BY DEF WriterState
<1>2. CASE NextCall(w)
  BY <1>1, <1>2, ContinueType DEF NextCall
<1>3. CASE ~Done(w) /\ FailCall(w)
  <2>1. CurrentOp(w).els \in Nat
    BY <1>3, CurrentOpType DEF Op
  <2> DEFINE i == IF CurrentOp(w).els = 0 THEN writer[w].ip + 1
                                          ELSE CurrentOp(w).els
  <2>2. i \in Nat \ {0}
    BY <1>1, <2>1
  <2>3. Continue(w, i)
    BY <1>3 DEF FailCall
  <2> QED
    BY <2>2, <2>3, ContinueType
<1> QED
  BY <1>2, <1>3

-----------------------------------------------------------------------------
(* The inductive invariant: a writer that holds an edited copy is in the   *)
(* middle of a call.                                                       *)
SavesAreCalls == \A w \in Writers : writer[w].pc = "save" => ~Done(w)

StoreInv == LifecycleTypeOK /\ SavesAreCalls /\ VersionsDense

(* Where the writer is after a call; the other writers do not move.        *)
LEMMA ContinueSaves ==
  ASSUME writer \in [Writers -> WriterState], SavesAreCalls,
         NEW w \in Writers, NEW i, Continue(w, i)
  PROVE  SavesAreCalls'
BY DEF Continue, SavesAreCalls, Done, WriterState

(* Every step keeps the types and the calls of the writers.                *)
LEMMA TypeStep ==
  LifecycleTypeOK /\ SavesAreCalls /\ [LifecycleNext]_vars
      => LifecycleTypeOK' /\ SavesAreCalls'
<1> SUFFICES ASSUME LifecycleTypeOK, SavesAreCalls, [LifecycleNext]_vars
             PROVE  LifecycleTypeOK' /\ SavesAreCalls'
  OBVIOUS
<1>0. writer \in [Writers -> WriterState] /\ history \in Seq(Record) /\ head \in Nat
  BY DEF LifecycleTypeOK
<1>1. ASSUME NEW w \in Writers, Load(w)  PROVE LifecycleTypeOK' /\ SavesAreCalls'
  <2> DEFINE rec == Edited(CurrentOp(w), Loaded)
  <2>1. rec \in Record
    BY <1>0, <1>1, CurrentOpType, LoadedType, EditedType DEF Load
  <2>2. writer' = [writer EXCEPT ![w] = [pc |-> "save", ip |-> writer[w].ip,
                                         attempt |-> 0, rec |-> rec]]
    BY <1>1 DEF Load
  <2> HIDE DEF rec
  <2>3. writer' \in [Writers -> WriterState]
    BY <1>0, <2>1, <2>2, AttemptsAssumption DEF WriterState
  <2>4. SavesAreCalls'
    BY <1>0, <1>1, <2>2 DEF SavesAreCalls, Done, Load
  <2> QED
    BY <1>1, <2>3, <2>4 DEF Load, LifecycleTypeOK
<1>2. ASSUME NEW w \in Writers, LoadRefused(w)
      PROVE  LifecycleTypeOK' /\ SavesAreCalls'
  <2>1. ~Done(w) /\ FailCall(w)
    BY <1>2 DEF LoadRefused
  <2> QED
    BY <1>0, <1>2, <2>1, NextCallType, ContinueSaves
    DEF LoadRefused, LifecycleTypeOK, FailCall
<1>3. ASSUME NEW w \in Writers, SaveAttempt(w)
      PROVE  LifecycleTypeOK' /\ SavesAreCalls'
  <2>1. [writer[w].rec EXCEPT !.version = head + 1] \in Record
    <3>1. writer[w].rec \in Record /\ head + 1 \in Nat
      BY <1>0 DEF WriterState
    <3> QED
      BY <3>1, VersionedType
  <2>2. history' \in Seq(Record) /\ head' \in Nat
    BY <1>0, <1>3, <2>1 DEF SaveAttempt, nextLifecycleVersion
  <2>3. NextCall(w)
    BY <1>3 DEF SaveAttempt
  <2> QED
    BY <1>0, <1>3, <2>2, <2>3, NextCallType, ContinueSaves
    DEF SaveAttempt, LifecycleTypeOK, NextCall
<1>4. ASSUME NEW w \in Writers, SaveBusy(w)
      PROVE  LifecycleTypeOK' /\ SavesAreCalls'
  <2> DEFINE a == [writer[w] EXCEPT !.attempt = @ + 1]
  <2>1. writer[w] \in WriterState /\ writer[w].attempt + 1 < MaxAttempts
    BY <1>0, <1>4 DEF SaveBusy
  <2>2. a \in WriterState /\ a.pc = writer[w].pc /\ a.ip = writer[w].ip
    BY <2>1, AttemptsAssumption DEF WriterState
  <2>3. writer' = [writer EXCEPT ![w] = a]
    BY <1>4 DEF SaveBusy
  <2> HIDE DEF a
  <2>4. writer' \in [Writers -> WriterState] /\ SavesAreCalls'
    BY <1>0, <2>2, <2>3 DEF SavesAreCalls, Done
  <2> QED
    BY <1>4, <2>4 DEF SaveBusy, LifecycleTypeOK
<1>5. ASSUME NEW w \in Writers, SaveGivesUp(w)
      PROVE  LifecycleTypeOK' /\ SavesAreCalls'
  <2>1. ~Done(w) /\ FailCall(w)
    BY <1>5 DEF SaveGivesUp, SavesAreCalls
  <2> QED
    BY <1>0, <1>5, <2>1, NextCallType, ContinueSaves
    DEF SaveGivesUp, LifecycleTypeOK, FailCall
<1>6. ASSUME NEW w \in Writers, Unregister(w)
      PROVE  LifecycleTypeOK' /\ SavesAreCalls'
  <2>1. NextCall(w)
    BY <1>6 DEF Unregister
  <2> QED
    BY <1>0, <1>6, <2>1, NextCallType, ContinueSaves
    DEF Unregister, LifecycleTypeOK, NextCall
<1>7. ASSUME NEW w \in Writers, CheckStopped(w)
      PROVE  LifecycleTypeOK' /\ SavesAreCalls'
  <2>1. NextCall(w) \/ (~Done(w) /\ FailCall(w))
    BY <1>7 DEF CheckStopped
  <2>2. PICK i : Continue(w, i)
    BY <2>1 DEF NextCall, FailCall
  <2> QED
    BY <1>0, <1>7, <2>1, <2>2, NextCallType, ContinueSaves
    DEF CheckStopped, LifecycleTypeOK
<1>8. ASSUME NEW w \in Writers, Killed(w)  PROVE LifecycleTypeOK' /\ SavesAreCalls'
  <2>1. Len(Program[w]) + 1 \in Nat \ {0}
    BY ProgramAssumption
  <2> QED
    BY <1>0, <1>8, <2>1, ContinueType, ContinueSaves DEF Killed, LifecycleTypeOK
<1>9. CASE UNCHANGED vars
  BY <1>9 DEF vars, LifecycleTypeOK, SavesAreCalls, Done
<1> QED
  BY <1>1, <1>2, <1>3, <1>4, <1>5, <1>6, <1>7, <1>8, <1>9
  DEF LifecycleNext, WriterStep, AllDone

(* The first record has not been written.                                  *)
LEMMA StoreInit == LifecycleInit => StoreInv
<1> SUFFICES ASSUME LifecycleInit  PROVE StoreInv
  OBVIOUS
<1>1. LifecycleTypeOK
  BY EmptyRecordType, AttemptsAssumption
  DEF LifecycleInit, LifecycleTypeOK, WriterState
<1> QED
  BY <1>1 DEF LifecycleInit, StoreInv, SavesAreCalls, VersionsDense

(* A step appends one record, with the next version, or changes nothing.   *)
LEMMA HistoryStep ==
  ASSUME LifecycleTypeOK, [LifecycleNext]_vars
  PROVE  \/ history' = history /\ head' = head
         \/ \E rec \in Record : /\ rec.version = head + 1
                                /\ history' = Append(history, rec)
                                /\ head' = head + 1
<1>1. ASSUME NEW w \in Writers, SaveAttempt(w)
      PROVE  \E rec \in Record : /\ rec.version = head + 1
                                 /\ history' = Append(history, rec)
                                 /\ head' = head + 1
  <2> DEFINE rec == [writer[w].rec EXCEPT !.version = head + 1]
  <2>1. rec \in Record /\ rec.version = head + 1
    <3>1. writer[w].rec \in Record /\ head + 1 \in Nat
      BY DEF LifecycleTypeOK, WriterState
    <3> QED
      BY <3>1, VersionedType
  <2>2. history' = Append(history, rec) /\ head' = head + 1
    BY <1>1 DEF SaveAttempt, nextLifecycleVersion
  <2> HIDE DEF rec
  <2> QED
    BY <2>1, <2>2
<1>2. ASSUME NEW w \in Writers, WriterStep(w) \/ Killed(w), ~SaveAttempt(w)
      PROVE  history' = history /\ head' = head
  BY <1>2 DEF WriterStep, Load, LoadRefused, SaveBusy, SaveGivesUp, Unregister,
              CheckStopped, Killed
<1>3. CASE UNCHANGED vars
  BY <1>3 DEF vars
<1> QED
  BY <1>1, <1>2, <1>3 DEF LifecycleNext, AllDone

(* StoreInv is inductive.                                                  *)
LEMMA StoreStep == StoreInv /\ [LifecycleNext]_vars => StoreInv'
<1> SUFFICES ASSUME StoreInv, [LifecycleNext]_vars  PROVE StoreInv'
  OBVIOUS
<1>1. LifecycleTypeOK' /\ SavesAreCalls'
  BY TypeStep DEF StoreInv
<1>2. VersionsDense'
  <2>1. CASE history' = history /\ head' = head
    BY <2>1 DEF StoreInv, VersionsDense
  <2>2. ASSUME NEW rec \in Record, rec.version = head + 1,
               history' = Append(history, rec), head' = head + 1
        PROVE  VersionsDense'
    <3>1. Len(history') = Len(history) + 1
      BY <2>2 DEF StoreInv, LifecycleTypeOK
    <3>2. ASSUME NEW i \in 1..Len(history')  PROVE history'[i].version = i
      <4>1. CASE i \in 1..Len(history)
        BY <2>2, <4>1 DEF StoreInv, VersionsDense, LifecycleTypeOK
      <4>2. CASE i = Len(history) + 1
        BY <2>2, <4>2 DEF StoreInv, VersionsDense, LifecycleTypeOK
      <4> QED
        BY <3>1, <4>1, <4>2 DEF StoreInv, LifecycleTypeOK
    <3> QED
      BY <2>2, <3>1, <3>2 DEF StoreInv, VersionsDense
  <2> QED
    BY <2>1, <2>2, HistoryStep DEF StoreInv
<1> QED
  BY <1>1, <1>2 DEF StoreInv

(* LifecycleTypeOK: in particular the retry loop of saveNoLock makes at    *)
(* most MaxAttempts attempts.                                              *)
THEOREM StoreTypeCorrect == LifecycleSpec => []LifecycleTypeOK
<1>1. StoreInv => LifecycleTypeOK
  BY DEF StoreInv
<1> QED
  BY <1>1, StoreInit, StoreStep, PTL DEF LifecycleSpec

(* VersionsDense: however many processes append, and whichever of them are *)
(* killed or give up, (vm_id, version) never collides and has no gap.      *)
THEOREM StoreVersionsDense == LifecycleSpec => []VersionsDense
<1>1. StoreInv => VersionsDense
  BY DEF StoreInv
<1> QED
  BY <1>1, StoreInit, StoreStep, PTL DEF LifecycleSpec

-----------------------------------------------------------------------------
(* The inductive invariant of the updates.                                 *)
UpdateInv == StoreInv /\ CopiesAreCurrent

(* Every phase may be set again.                                           *)
LEMMA PhaseMayStay == ASSUME NEW p \in Phases  PROVE validateTransition(p, p)
<1>1. p # NoPhase
  BY DEF Phases, NoPhase
<1>2. /\ "creating" \in allowedTransitions["creating"]
      /\ "created" \in allowedTransitions["created"]
      /\ "starting" \in allowedTransitions["starting"]
      /\ "running" \in allowedTransitions["running"]
      /\ "stopping" \in allowedTransitions["stopping"]
      /\ "stopped" \in allowedTransitions["stopped"]
      /\ "cleaning" \in allowedTransitions["cleaning"]
      /\ "cleaned" \in allowedTransitions["cleaned"]
      /\ "create_failed" \in allowedTransitions["create_failed"]
      /\ "start_failed" \in allowedTransitions["start_failed"]
      /\ "stop_failed" \in allowedTransitions["stop_failed"]
      /\ "cleanup_failed" \in allowedTransitions["cleanup_failed"]
  BY DEF allowedTransitions
<1>3. p \in allowedTransitions[p]
  BY <1>2 DEF Phases
<1> QED
  BY <1>1, <1>3 DEF validateTransition

(* What an edit keeps of the record, and which phase it may give it.       *)
LEMMA EditedKeeps ==
  ASSUME NEW op \in Op, ~IsStateOp(op), NEW rec \in Record, Accepts(op, rec)
  PROVE  /\ Edited(op, rec).version \in {0, rec.version}
         /\ op.kind # "Init" =>
               /\ validateTransition(rec.phase, Edited(op, rec).phase)
               /\ \A s \in Steps : rec.cleanup[s] # "absent" =>
                                   Edited(op, rec).cleanup[s] # "absent"
<1>1. CASE op.kind = "Init"
  BY <1>1 DEF Edited, EmptyRecord
<1>0. validateTransition(rec.phase, rec.phase)
  BY PhaseMayStay DEF Record
<1>2. CASE op.kind = "SetResource"
  BY <1>0, <1>2 DEF Edited
<1>3. CASE op.kind = "SetPhase"
  <2>1. /\ Edited(op, rec).phase = op.phase /\ Edited(op, rec).cleanup = rec.cleanup
        /\ Edited(op, rec).version = rec.version
    BY <1>3 DEF Edited, Record
  <2> QED
    BY <1>3, <2>1 DEF Accepts
<1>4. CASE op.kind = "SetLastError"
  BY <1>0, <1>4 DEF Edited, Record
<1>5. CASE op.kind = "MarkCleanup"
  <2> DEFINE marks == [rec.cleanup EXCEPT ![op.step] = op.mark]
  <2>1. op.step \in Steps /\ op.mark \in {"ok", "error"}
    BY <1>5 DEF Op
  <2>2. Edited(op, rec) = [rec EXCEPT !.cleanup = marks]
    BY <1>5 DEF Edited, Record
  <2>3. rec.cleanup \in [Steps -> Marks]
    BY DEF Record
  <2>4. \A s \in Steps : rec.cleanup[s] # "absent" => marks[s] # "absent"
    BY <2>1, <2>3
  <2> HIDE DEF marks
  <2>5. /\ Edited(op, rec).phase = rec.phase /\ Edited(op, rec).cleanup = marks
        /\ Edited(op, rec).version = rec.version
    BY <2>2 DEF Record
  <2> QED
    BY <1>0, <2>4, <2>5
<1> QED
  BY <1>1, <1>2, <1>3, <1>4, <1>5 DEF Op, IsStateOp

(* The newest record carries the number of records.                        *)
LEMMA LoadedVersion ==
  ASSUME StoreInv
  PROVE  Loaded.version = head /\ (head = 0 => Loaded = EmptyRecord)
<1>1. history \in Seq(Record) /\ head = Len(history)
  BY DEF StoreInv, LifecycleTypeOK, VersionsDense
<1>2. CASE history = <<>>
  BY <1>1, <1>2 DEF Loaded, EmptyRecord
<1>3. CASE history # <<>>
  <2>1. Len(history) \in 1..Len(history) /\ head # 0
    BY <1>1, <1>3
  <2> QED
    BY <1>1, <1>3, <2>1 DEF Loaded, StoreInv, VersionsDense
<1> QED
  BY <1>2, <1>3

(* What CopiesAreCurrent says of one writer.                               *)
CopyIsCurrent(w) ==
    writer[w].pc = "save" =>
        /\ ~Done(w) /\ ~IsStateOp(CurrentOp(w))
        /\ writer[w].rec.version <= head
        /\ Undisturbed(w) => /\ Accepts(CurrentOp(w), Loaded)
                             /\ writer[w].rec = Edited(CurrentOp(w), Loaded)

(* A writer that does not move keeps a current copy while nobody appends,  *)
(* and has an older one once somebody did.                                 *)
LEMMA OthersCopy ==
  ASSUME StoreInv, NEW v \in Writers, CopyIsCurrent(v),
         writer'[v].pc = writer[v].pc, writer'[v].ip = writer[v].ip,
         writer'[v].rec = writer[v].rec,
         (history' = history /\ head' = head) \/ head' = head + 1
  PROVE  CopyIsCurrent(v)'
<1>1. writer[v] \in WriterState /\ head \in Nat
  BY DEF StoreInv, LifecycleTypeOK
<1>2. writer[v].rec.version \in Nat
  BY <1>1 DEF WriterState, Record
<1>3. CurrentOp(v)' = CurrentOp(v) /\ Done(v)' = Done(v)
  BY DEF CurrentOp, Done
<1>4. CASE history' = history /\ head' = head
  <2>1. Loaded' = Loaded /\ Undisturbed(v)' = Undisturbed(v)
    BY <1>4 DEF Loaded, Undisturbed
  <2> QED
    BY <1>3, <1>4, <2>1 DEF CopyIsCurrent
<1>5. CASE head' = head + 1
  <2>1. writer[v].pc = "save" => writer[v].rec.version <= head
    BY DEF CopyIsCurrent
  <2>2. writer[v].pc = "save" => ~Undisturbed(v)' /\ writer'[v].rec.version <= head'
    BY <1>1, <1>2, <1>5, <2>1 DEF Undisturbed
  <2> QED
    BY <1>3, <2>2 DEF CopyIsCurrent
<1> QED
  BY <1>4, <1>5

(* A load takes the newest record; an append makes the copies of the other *)
(* writers old.                                                            *)
LEMMA CopiesStep ==
  ASSUME UpdateInv, [LifecycleNext]_vars
  PROVE  CopiesAreCurrent'
<1>0. /\ writer \in [Writers -> WriterState] /\ head \in Nat
      /\ \A v \in Writers : CopyIsCurrent(v)
  BY DEF UpdateInv, StoreInv, LifecycleTypeOK, CopiesAreCurrent, CopyIsCurrent
<1>1. (history' = history /\ head' = head) \/ head' = head + 1
  BY HistoryStep DEF UpdateInv, StoreInv
<1>2. ASSUME NEW v \in Writers, writer'[v] = writer[v]
      PROVE  CopyIsCurrent(v)'
  BY <1>0, <1>1, <1>2, OthersCopy DEF UpdateInv
<1>3. ASSUME NEW w \in Writers, NEW i, Continue(w, i), NEW v \in Writers
      PROVE  CopyIsCurrent(v)'
  <2>1. CASE v = w
    <3>1. writer'[w].pc = "call"
      BY <1>0, <1>3 DEF Continue
    <3> QED
      BY <2>1, <3>1 DEF CopyIsCurrent
  <2>2. CASE v # w
    BY <1>0, <1>2, <1>3, <2>2 DEF Continue
  <2> QED
    BY <2>1, <2>2
<1>4. ASSUME NEW w \in Writers, Load(w), NEW v \in Writers
      PROVE  CopyIsCurrent(v)'
  <2>1. CASE v = w
    <3> DEFINE rec == Edited(CurrentOp(w), Loaded)
               n == [pc |-> "save", ip |-> writer[w].ip, attempt |-> 0, rec |-> rec]
    <3>1. writer'[w] = n /\ n.ip = writer[w].ip /\ n.rec = rec
      BY <1>0, <1>4 DEF Load
    <3> HIDE DEF n, rec
    <3>2. Loaded' = Loaded /\ CurrentOp(w)' = CurrentOp(w) /\ Done(w)' = Done(w)
      BY <1>4, <3>1 DEF Load, Loaded, CurrentOp, Done
    <3>3. ~Done(w) /\ ~IsStateOp(CurrentOp(w)) /\ Accepts(CurrentOp(w), Loaded)
      BY <1>4 DEF Load
    <3>4. CurrentOp(w) \in Op /\ Loaded \in Record
      BY <1>0, <3>3, CurrentOpType, LoadedType DEF UpdateInv, StoreInv, LifecycleTypeOK
    <3>5. rec.version <= head
      BY <1>0, <3>3, <3>4, EditedKeeps, LoadedVersion DEF rec, UpdateInv
    <3>6. head' = head
      BY <1>4 DEF Load
    <3>7. writer'[w].rec = rec
      BY <3>1
    <3> QED
      BY <2>1, <3>2, <3>3, <3>5, <3>6, <3>7 DEF CopyIsCurrent, rec
  <2>2. CASE v # w
    BY <1>0, <1>2, <1>4, <2>2 DEF Load
  <2> QED
    BY <2>1, <2>2
<1>5. ASSUME NEW w \in Writers, SaveBusy(w), NEW v \in Writers
      PROVE  CopyIsCurrent(v)'
  <2> DEFINE a == writer[w].attempt + 1
  <2>1. writer' = [writer EXCEPT ![w].attempt = a]
    BY <1>5 DEF SaveBusy
  <2> HIDE DEF a
  <2>2. /\ writer'[v].pc = writer[v].pc /\ writer'[v].ip = writer[v].ip
        /\ writer'[v].rec = writer[v].rec
    BY <1>0, <2>1 DEF WriterState
  <2> QED
    BY <1>0, <1>1, <2>2, OthersCopy DEF UpdateInv
<1>6. ASSUME UNCHANGED vars, NEW v \in Writers
      PROVE  CopyIsCurrent(v)'
  BY <1>2, <1>6 DEF vars
<1>7. ASSUME NEW w \in Writers, WriterStep(w) \/ Killed(w), ~Load(w), ~SaveBusy(w)
      PROVE  \E i : Continue(w, i)
  BY <1>7 DEF WriterStep, LoadRefused, SaveAttempt, SaveGivesUp, Unregister, CheckStopped,
              Killed, NextCall, FailCall
<1>8. \A v \in Writers : CopyIsCurrent(v)'
  BY <1>3, <1>4, <1>5, <1>6, <1>7 DEF LifecycleNext, AllDone, WriterStep
<1> QED
  BY <1>8 DEF CopiesAreCurrent, CopyIsCurrent

(* What an undisturbed save appends is the newest record with one accepted *)
(* edit.                                                                   *)
LEMMA SaveIsEdit ==
  ASSUME UpdateInv, [LifecycleNext]_vars, NEW w \in Writers, Undisturbed(w), Saves(w)
  PROVE  LET new == history'[Len(history')]
         IN  /\ validateTransition(Loaded.phase, new.phase)
             /\ \A s \in Steps : Loaded.cleanup[s] # "absent" =>
                                    new.cleanup[s] # "absent"
<1>0. /\ LifecycleTypeOK /\ CopyIsCurrent(w) /\ history \in Seq(Record)
      /\ writer \in [Writers -> WriterState]
  BY DEF UpdateInv, StoreInv, LifecycleTypeOK, CopiesAreCurrent, CopyIsCurrent
<1>1. SaveAttempt(w)
  <2>1. ASSUME NEW u \in Writers, SaveAttempt(u), u # w  PROVE FALSE
    <3>1. writer'[w] = writer[w]
      BY <1>0, <2>1 DEF SaveAttempt, NextCall, Continue
    <3> QED
      BY <3>1 DEF Saves
  <2>2. ASSUME NEW u \in Writers, WriterStep(u) \/ Killed(u), ~SaveAttempt(u)
        PROVE  history' = history
    BY <2>2 DEF WriterStep, Load, LoadRefused, SaveBusy, SaveGivesUp, Unregister,
                CheckStopped, Killed
  <2>3. history' # history
    BY DEF Saves
  <2> QED
    BY <2>1, <2>2, <2>3 DEF LifecycleNext, AllDone, vars
<1> DEFINE op == CurrentOp(w)
           copy == writer[w].rec
           new == [copy EXCEPT !.version = head + 1]
<1>2. /\ ~Done(w) /\ ~IsStateOp(op) /\ Accepts(op, Loaded)
      /\ copy = Edited(op, Loaded) /\ copy.version = head
  BY <1>0 DEF CopyIsCurrent, Undisturbed
<1>3. copy \in Record /\ head + 1 \in Nat
  BY <1>0 DEF LifecycleTypeOK, WriterState
<1>4. new \in Record /\ new.phase = copy.phase /\ new.cleanup = copy.cleanup
  BY <1>3 DEF Record
<1>5. history' = Append(history, new)
  BY <1>1 DEF SaveAttempt, nextLifecycleVersion
<1>6. op \in Op /\ Loaded \in Record
  BY <1>0, <1>2, CurrentOpType, LoadedType
<1> HIDE DEF op, copy, new
<1>7. history'[Len(history')] = new
  BY <1>0, <1>4, <1>5
<1>8. CASE op.kind = "Init"
  <2>1. copy = EmptyRecord
    BY <1>2, <1>8 DEF Edited
  <2>2. head = 0
    BY <1>2, <2>1 DEF EmptyRecord
  <2>3. Loaded = EmptyRecord
    BY <2>2, LoadedVersion DEF UpdateInv
  <2>4. EmptyRecord.phase \in Phases
    BY EmptyRecordType DEF Record
  <2> QED
    BY <1>4, <1>7, <2>1, <2>3, <2>4, PhaseMayStay
<1>9. CASE op.kind # "Init"
  BY <1>2, <1>4, <1>6, <1>7, <1>9, EditedKeeps
<1> QED
  BY <1>8, <1>9

LEMMA UpdatesHold == LifecycleSpec => []UpdateInv
<1>1. LifecycleInit => UpdateInv
  BY StoreInit DEF UpdateInv, LifecycleInit, CopiesAreCurrent
<1>2. UpdateInv /\ [LifecycleNext]_vars => UpdateInv'
  BY StoreStep, CopiesStep DEF UpdateInv
<1> QED
  BY <1>1, <1>2, PTL DEF LifecycleSpec

(* However many processes make whatever calls, and wherever they are       *)
(* killed or give up: a save that no other one slipped in front of is a    *)
(* transition of the phase machine (state_machine.go).                     *)
THEOREM UpdatesFollowPhases == LifecycleSpec => UpdatesFollowStateMachine
<1>1. UpdateInv /\ [LifecycleNext]_vars =>
        [\A w \in Writers : Undisturbed(w) /\ Saves(w) =>
            validateTransition(Loaded.phase, history'[Len(history')].phase)]_vars
  BY SaveIsEdit
<1> QED
  BY <1>1, UpdatesHold, PTL DEF LifecycleSpec, UpdatesFollowStateMachine

(* However many processes make whatever calls: the marks MarkCleanup left  *)
(* are lost only by a save that another one slipped in front of, or by an  *)
(* Init.                                                                   *)
THEOREM UpdatesNeverLoseMarks == LifecycleSpec => UpdatesKeepMarks
<1>1. UpdateInv /\ [LifecycleNext]_vars =>
        [\A w \in Writers, s \in Steps :
            Undisturbed(w) /\ Saves(w) /\ Loaded.cleanup[s] # "absent"
            => history'[Len(history')].cleanup[s] # "absent"]_vars
  BY SaveIsEdit
<1> QED
  BY <1>1, UpdatesHold, PTL DEF LifecycleSpec, UpdatesKeepMarks
=============================================================================
