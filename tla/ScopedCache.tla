----------------------------- MODULE ScopedCache -----------------------------
(***************************************************************************)
(* What a host-local cache promises the guests of an agent, whatever it    *)
(* keeps in memory and on disk: it maps scoped entries to contents that    *)
(* were offered for that very entry, it may lose any entry at any time,    *)
(* and a guest reads entries of the scopes it may read.  ActionsCache and   *)
(* OCICache implement it.                                                   *)
(***************************************************************************)
CONSTANTS
  Entries,      \* what a lookup names
  Readers,      \* guests
  Offers(_),    \* entry -> contents producers supply for that very entry
  MayRead(_),   \* guest -> the entries of its scopes
  Nothing       \* no content

VARIABLES
  contents,     \* entry -> content a lookup finds, or Nothing
  got           \* guest -> the content it was given last, or Nothing

cacheVars == <<contents, got>>

CacheInit ==
  /\ contents = [e \in Entries |-> Nothing]
  /\ got = [g \in Readers |-> Nothing]

(* One content may become visible under several entries at once. *)
Publish ==
  /\ \A e \in Entries : contents'[e] \in {contents[e]} \cup Offers(e)
  /\ contents' = [e \in Entries |-> contents'[e]]
  /\ UNCHANGED got

(* Evictions, purges, failed writes and crashes lose entries; guests end with *)
(* their jobs, and others take their place.                                   *)
Lose ==
  /\ \A e \in Entries : contents'[e] \in {contents[e], Nothing}
  /\ contents' = [e \in Entries |-> contents'[e]]
  /\ \A g \in Readers : got'[g] \in {got[g], Nothing}
  /\ got' = [g \in Readers |-> got'[g]]

Serve(g) ==
  /\ \E e \in MayRead(g) : got'[g] \in Offers(e)
  /\ got' = [got EXCEPT ![g] = got'[g]]
  /\ UNCHANGED contents

CacheNext ==
  \/ Publish
  \/ Lose
  \/ \E g \in Readers : Serve(g)

CacheSpec == CacheInit /\ [][CacheNext]_cacheVars
=============================================================================
