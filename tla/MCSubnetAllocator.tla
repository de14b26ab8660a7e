-------------------------- MODULE MCSubnetAllocator -------------------------
(* Two processes allocate   and release for three VMs from two octets, so  *)
(* that insertion races, exhaustion and reuse of a freed octet all happen. *)
EXTENDS SubnetAllocator, TLC

CONSTANTS v1, v2, v3, a1, a2

MCVMs == {v1, v2, v3}
MCAllocators == {a1, a2}
=============================================================================
