----------------------------- MODULE MCWarmPool -----------------------------
(* Instances of WarmPool for TLC. *)
EXTENDS WarmPool, TLC

CONSTANTS j1, j2, small, large

\* Two jobs of different sizes, the larger one cold only, or two of one size.
MCMemOf     == (small :> 1) @@ (large :> 3)
MCShapeOf   == (j1 :> small) @@ (j2 :> large)
MCMinReady  == (small :> 1) @@ (large :> 0)
MCOneMem    == (small :> 1)
MCOneShape  == [j \in Jobs |-> small]
MCOneReady  == (small :> 1)

IdSymmetry == Permutations(Ids)
=============================================================================
