--------------------------- MODULE SubnetAllocator --------------------------
(***************************************************************************)
(* pkg/state/subnet.go at the granularity of its SQL statements.           *)
(*                                                                         *)
(* Every sandbox.New, `gc`, `rm` and `prune` opens an allocator of its own *)
(* (NewSubnetAllocator), in its own process.  The mutex a.mu therefore     *)
(* serialises the calls of ONE allocator only; two allocators meet in the  *)
(* SQLite table, whose PRIMARY KEY (vm_id) and UNIQUE (octet) constraints  *)
(* are what keeps the grants apart.  Allocate is three statements: look    *)
(* the VM up, read the octets in use, insert the first free one; what it   *)
(* read may be stale when it inserts.                                      *)
(***************************************************************************)
EXTENDS SubnetPool

CONSTANT Allocators     \* SubnetAllocator values, one call in progress each

VARIABLES call          \* call[a]: the call allocator a is executing

allocatorVars == <<table, call>>

Results == {"none", "ok", "ErrNoAvailableSubnets", "ErrSaveSubnetAllocation"}

\* vm: the argument; used: the snapshot of usedOctets; octet and res: what
\* the last finished call returned.
Call == [pc    : {"idle", "get", "used", "insert", "delete"},
         vm    : VMs,
         used  : SUBSET Octets,
         octet : Octets \cup {NoOctet},
         res   : Results]

AllocatorInit ==
    /\ PoolInit
    /\ call \in [Allocators -> [pc : {"idle"}, vm : VMs, used : {{}},
                                octet : {NoOctet}, res : {"none"}]]

Return(a, o, r) ==
    call' = [call EXCEPT ![a] = [pc |-> "idle", vm |-> call[a].vm, used |-> {},
                                 octet |-> o, res |-> r]]

-----------------------------------------------------------------------------
(* The caller: sandbox.New allocates for its own VM, Close and the         *)
(* reconcilers release.                                                    *)

BeginAllocate(a, v) ==
    /\ call[a].pc = "idle"
    /\ call' = [call EXCEPT ![a].pc = "get", ![a].vm = v,
                            ![a].octet = NoOctet, ![a].res = "none"]
    /\ UNCHANGED table

BeginRelease(a, v) ==
    /\ call[a].pc = "idle"
    /\ call' = [call EXCEPT ![a].pc = "delete", ![a].vm = v,
                            ![a].octet = NoOctet, ![a].res = "none"]
    /\ UNCHANGED table

-----------------------------------------------------------------------------
(* SELECT ... WHERE vm_id = ?: an existing row is returned as it is.  Any  *)
(* error of the query counts as "no row", so Allocate then goes on.        *)
GetExisting(a) ==
    /\ call[a].pc = "get"
    /\ table[call[a].vm] # NoOctet
    /\ Return(a, table[call[a].vm], "ok")
    /\ UNCHANGED table

GetMissing(a) ==
    /\ call[a].pc = "get"
    /\ call' = [call EXCEPT ![a].pc = "used"]
    /\ UNCHANGED table

(* usedOctets: SELECT octet FROM subnet_allocations. *)
ReadUsed(a) ==
    /\ call[a].pc = "used"
    /\ call' = [call EXCEPT ![a].pc = "insert", ![a].used = UsedOctets(table)]
    /\ UNCHANGED table

ReadUsedFails(a) ==
    /\ call[a].pc = "used"
    /\ Return(a, NoOctet, "ErrSaveSubnetAllocation")
    /\ UNCHANGED table

\* A mutated FirstFree: `o < a.maxOctet` in the loop.
FirstFreeOffByOne(used) ==
    IF (MinOctet..(MaxOctet - 1)) \subseteq used THEN NoOctet
    ELSE CHOOSE o \in (MinOctet..(MaxOctet - 1)) \ used :
             \A p \in (MinOctet..(MaxOctet - 1)) \ used : o <= p

\* A mutated FirstFree: the loop variable is kept after a full loop.
FirstFreePastEnd(used) ==
    IF Octets \subseteq used THEN MaxOctet + 1
    ELSE CHOOSE o \in Octets \ used : \A p \in Octets \ used : o <= p

(* The first octet of minOctet..maxOctet that is not used, 0 if none is. *)
FirstFree(used) ==
    IF Octets \subseteq used THEN NoOctet
    ELSE CHOOSE o \in Octets \ used : \A p \in Octets \ used : o <= p

Exhausted(a) ==
    /\ call[a].pc = "insert"
    /\ FirstFree(call[a].used) = NoOctet
    /\ Return(a, NoOctet, "ErrNoAvailableSubnets")
    /\ UNCHANGED table

\* The table without its UNIQUE constraint on octet.
InsertAcceptedNoUnique(t, v, o) ==
    t[v] = NoOctet

\* INSERT OR REPLACE instead of INSERT.
InsertAcceptedReplace(t, v, o) ==
    o \notin UsedOctets(t)

(* The table accepts a row that breaks neither PRIMARY KEY nor UNIQUE. *)
InsertAccepted(t, v, o) ==
    /\ t[v] = NoOctet
    /\ o \notin UsedOctets(t)

Insert(a) ==
    /\ call[a].pc = "insert"
    /\ LET o == FirstFree(call[a].used)
       IN  /\ o # NoOctet
           /\ InsertAccepted(table, call[a].vm, o)
           /\ table' = [table EXCEPT ![call[a].vm] = o]
           /\ Return(a, o, "ok")

\* InsertFails with an unbounded retry from usedOctets.
InsertRetries(a) ==
    /\ call[a].pc = "insert"
    /\ FirstFree(call[a].used) # NoOctet
    /\ call' = [call EXCEPT ![a].pc = "used"]
    /\ UNCHANGED table

(* A constraint violation, or a database that stays busy for busy_timeout. *)
(* There is no retry: the caller's sandbox.New fails.                      *)
InsertFails(a) ==
    /\ call[a].pc = "insert"
    /\ FirstFree(call[a].used) # NoOctet
    /\ Return(a, NoOctet, "ErrSaveSubnetAllocation")
    /\ UNCHANGED table

-----------------------------------------------------------------------------
(* Release: DELETE ... WHERE vm_id = ?; no row is no error. *)
Delete(a) ==
    /\ call[a].pc = "delete"
    /\ table' = [table EXCEPT ![call[a].vm] = NoOctet]
    /\ Return(a, NoOctet, "ok")

DeleteFails(a) ==
    /\ call[a].pc = "delete"
    /\ Return(a, NoOctet, "ErrSaveSubnetAllocation")
    /\ UNCHANGED table

Step(a) ==
    \/ GetExisting(a)
    \/ GetMissing(a)
    \/ ReadUsed(a)
    \/ ReadUsedFails(a)
    \/ Exhausted(a)
    \/ Insert(a)
    \/ InsertFails(a)
    \/ Delete(a)
    \/ DeleteFails(a)

AllocatorNext ==
    \E a \in Allocators :
        \/ \E v \in VMs : BeginAllocate(a, v) \/ BeginRelease(a, v)
        \/ Step(a)

AllocatorSpec == AllocatorInit /\ [][AllocatorNext]_allocatorVars

(* A call that has begun is executed by a running thread: no statement     *)
(* blocks for longer than busy_timeout.                                    *)
FairAllocatorSpec ==
    AllocatorSpec /\ \A a \in Allocators : WF_allocatorVars(Step(a))

-----------------------------------------------------------------------------
AllocatorTypeOK == PoolTypeOK /\ call \in [Allocators -> Call]

(***************************************************************************)
(* Every statement of every allocator is a grant or a release of the       *)
(* abstract table, or leaves it alone: AllocatorSpec implements PoolSpec   *)
(* although Allocate inserts what it chose from a stale read.              *)
(***************************************************************************)
ImplementsPool == PoolSpec

(***************************************************************************)
(* Allocate is idempotent for a VM that has its subnet: whatever the other *)
(* allocators do meanwhile, a row is never moved to another octet, it can  *)
(* only be deleted.                                                        *)
(***************************************************************************)
RowsNeverMove ==
    [][\A v \in VMs : table[v] # NoOctet => table'[v] \in {table[v], NoOctet}]_allocatorVars

(***************************************************************************)
(* Allocate reports ErrNoAvailableSubnets only when the octets it read as  *)
(* used were all of minOctet..maxOctet: the last one is handed out too.    *)
(***************************************************************************)
ExhaustedOnlyWhenFull ==
    [][\A a \in Allocators :
          call'[a].res = "ErrNoAvailableSubnets" /\ call[a].res = "none"
             => Octets \subseteq call[a].used]_allocatorVars

(***************************************************************************)
(* Every call returns: the losers of an insertion race too.                *)
(***************************************************************************)
CallsReturn == \A a \in Allocators : call[a].pc # "idle" ~> call[a].pc = "idle"
=============================================================================
