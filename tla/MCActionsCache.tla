--------------------------- MODULE MCActionsCache ---------------------------
(* Instances of ActionsCache for TLC. *)
EXTENDS ActionsCache, TLC

\* One repository per guest address, every payload one block.
MCRepoOf == [g \in Guests |-> g]
MCBlocks == [g \in Guests |-> 1]

CacheSymmetry == Permutations(Guests) \cup Permutations(Uploads)
=============================================================================
