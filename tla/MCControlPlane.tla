--------------------------- MODULE MCControlPlane ---------------------------
(* Instances of ControlPlane for TLC. *)
EXTENDS ControlPlane, TLC

CONSTANTS j1, j2, r1

\* Both jobs come from one repository: claim affinity is checked in store_queue.
MCRepoOf == [j \in Jobs |-> r1]

AgentVMSymmetry == Permutations(Agents) \cup Permutations(VMs)
=============================================================================
