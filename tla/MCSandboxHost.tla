---------------------------- MODULE MCSandboxHost ---------------------------
(* Instances of SandboxHost: one or two VMs, one or two administrative     *)
(* processes, one or two octets.                                           *)
EXTENDS SandboxHost, TLC

CONSTANTS v1, v2, q1, q2

TwoVMs == {v1, v2}
OneVM == {v1}
TwoAdmins == {q1, q2}
OneAdmin == {q1}
NoForce == {FALSE}
RmGcAndPrune == {"rm", "gc", "prune"}
ListGcAndPrune == {"list", "gc", "prune"}
=============================================================================
