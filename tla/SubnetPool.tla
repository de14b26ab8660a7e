----------------------------- MODULE SubnetPool -----------------------------
(***************************************************************************)
(* What pkg/state/subnet.go promises its callers: a table that hands every *)
(* VM at most one third octet of 192.168.X.0/24 and never the same octet   *)
(* to two VMs.  A grant and a release are single steps here; how the       *)
(* allocator reaches them through separate SQL statements is the business  *)
(* of SubnetAllocator, which implements this specification.                *)
(***************************************************************************)
EXTENDS Integers

CONSTANTS VMs,          \* VM identifiers
          MinOctet,     \* SubnetAllocator.minOctet (100 in the code)
          MaxOctet      \* SubnetAllocator.maxOctet (254 in the code)

ASSUME OctetsAssumption ==
    /\ MinOctet \in Nat \ {0}
    /\ MaxOctet \in Nat
    /\ MinOctet <= MaxOctet

VARIABLE table          \* subnet_allocations: vm_id -> octet, NoOctet if no row

Octets == MinOctet..MaxOctet

\* The Go zero value of `octet`, which Allocate also uses for "none found".
NoOctet == 0

UsedOctets(t) == {t[v] : v \in {w \in VMs : t[w] # NoOctet}}

PoolInit == table = [v \in VMs |-> NoOctet]

Grant(v, o) ==
    /\ table[v] = NoOctet
    /\ o \notin UsedOctets(table)
    /\ table' = [table EXCEPT ![v] = o]

Free(v) ==
    table' = [table EXCEPT ![v] = NoOctet]

PoolNext ==
    \E v \in VMs : Free(v) \/ \E o \in Octets : Grant(v, o)

PoolSpec == PoolInit /\ [][PoolNext]_table

PoolTypeOK == table \in [VMs -> Octets \cup {NoOctet}]

(***************************************************************************)
(* No octet is allocated to two VMs: the comment of subnet.go,             *)
(* "SubnetAllocator manages unique /24 subnet allocation for VMs".         *)
(***************************************************************************)
UniqueOctets ==
    \A v, w \in VMs : v # w /\ table[v] # NoOctet => table[v] # table[w]
=============================================================================
