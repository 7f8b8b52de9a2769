----------------------------- MODULE MCOCICache -----------------------------
(* Instances of OCICache for TLC. *)
EXTENDS OCICache, TLC

CONSTANTS v1, v2, r1, r2, pub, priv, tag

\* Two guests of different repositories that get the same address one after the other.
MCRepoOf == v1 :> r1 @@ v2 :> r2
MCAddrOf == v1 :> "a" @@ v2 :> "a"
MCDigestOf == [r \in Refs |-> r]

\* One repository may build the manifest, which is public as well, the other may fetch
\* or build the private layer.
MCHas == r1 :> {tag} @@ r2 :> {priv}
=============================================================================
