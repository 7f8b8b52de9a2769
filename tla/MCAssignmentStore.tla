-------------------------- MODULE MCAssignmentStore --------------------------
(* Instances of AssignmentStore for TLC. *)
EXTENDS AssignmentStore, TLC

CONSTANTS j1, j2, r1, r2

\* One repository per job, so that a cached repository can jump the queue.
MCRepoOf == (j1 :> r1) @@ (j2 :> r2)

==============================================================================
