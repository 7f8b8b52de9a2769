----------------------------- MODULE ActionsCache -----------------------------
(***************************************************************************)
(* The host's GitHub Actions cache (internal/ghacache): the store on disk  *)
(* with its in-memory index, and the gateway through which guests of       *)
(* concurrent jobs save and restore entries.                               *)
(*                                                                         *)
(* s.mu makes every store call one critical section.  Finalize is split    *)
(* where a crash or a failing file operation can stop it; `op` is the call *)
(* that holds the lock.  OpenBlob opens the file after unlocking.           *)
(* A payload is a number of blocks uploaded for one entry; a block has size 1.*)
(***************************************************************************)
EXTENDS Integers, FiniteSets, FiniteSetsExt

CONSTANTS
  Guests,        \* guest addresses; a new VM and job may follow at an address
  Repos,
  RepoOf,        \* guest address -> repository of the jobs that run there
  Keys,          \* key and version, which the store only ever compares together
  Uploads,       \* upload ids (randomID)
  Blocks,        \* guest -> blocks of the payload it saves
  MaxBytes,
  Nothing,
  MaxFaults      \* bound on failing file operations and agent crashes

ASSUME CacheConstants ==
  /\ IsFiniteSet(Guests) /\ IsFiniteSet(Repos) /\ IsFiniteSet(Keys) /\ IsFiniteSet(Uploads)
  /\ RepoOf \in [Guests -> Repos]
  /\ Blocks \in [Guests -> Nat \ {0}]
  /\ MaxBytes \in Nat
  /\ Nothing \notin Guests \cup Keys \cup Nat
  /\ MaxFaults \in Nat

Entries == Repos \X Keys      \* entryID: a hash of repo, key and version

VARIABLES
  meta,       \* entry -> size in its ready meta.json, or Nothing (none or unreadable)
  data,       \* entry -> its payload, or Nothing
  uploads,    \* upload -> its directory, or Nothing
  idx,        \* s.idx: entry -> size, or Nothing
  total,      \* s.total
  op,         \* the Finalize that holds the lock, or Nothing
  binds,      \* g.binds: addresses bound to their repository
  down,       \* guest -> its last download: the entry of the URL it was given, the
              \* entry whose path OpenBlob looked up, the payload it got, or Nothing
  faults      \* failing file operations and crashes so far

actionsVars == <<meta, data, uploads, idx, total, op, binds, down, faults>>

Payload  == [for : Entries, n : Nat]   \* the entry it was uploaded for, and its blocks
Ready    == {e \in Entries : meta[e] # Nothing}
Indexed  == {e \in Entries : idx[e] # Nothing}
SizeIn(f, S) == SumFunctionOnSet(f, S)

Locked == op # Nothing

(* A file operation that fails, or a crash; every other step leaves faults alone. *)
Fault == faults < MaxFaults /\ faults' = faults + 1
Fine  == UNCHANGED faults

-----------------------------------------------------------------------------
(* Saving: CreateCacheEntry, block or whole PUTs, FinalizeCacheEntry. *)

(* Mutant: any upload that is there is taken for the entry's. *)
UploadsForAny(e) == {u \in Uploads : uploads[u] # Nothing}

UploadsFor(e) == {u \in Uploads : uploads[u] # Nothing /\ uploads[u].entry = e}

(* Refused when the entry is ready; other uploads of it are not looked at. *)
Create(g, k, u) ==
  /\ ~Locked /\ g \in binds
  /\ uploads[u] = Nothing
  /\ <<RepoOf[g], k>> \notin Ready
  /\ uploads' = [uploads EXCEPT ![u] = [entry |-> <<RepoOf[g], k>>,
                                        data |-> Nothing, blocks |-> {}]]
  /\ Fine /\ UNCHANGED <<meta, data, idx, total, op, binds, down>>

(* PUTs name the upload by its random id and nothing else is checked: the   *)
(* guests that were given one are jobs of its repository.                    *)
Writes(g, u) ==
  ~Locked /\ g \in binds /\ uploads[u] # Nothing /\ uploads[u].entry[1] = RepoOf[g]

SetData(u, n) ==
  /\ uploads' = [uploads EXCEPT ![u].data = [for |-> uploads[u].entry, n |-> n]]
  /\ UNCHANGED <<meta, data, idx, total, op, binds, down>>

(* A write that fails leaves the file truncated. *)
WriteUpload(g, u) ==
  /\ Writes(g, u)
  /\ \/ SetData(u, Blocks[g]) /\ Fine
     \/ SetData(u, 0) /\ Fault

AppendUpload(g, u, b) ==
  /\ Writes(g, u)
  /\ b \in 1..Blocks[g]
  /\ uploads' = [uploads EXCEPT ![u].blocks = @ \cup {b}]
  /\ Fine /\ UNCHANGED <<meta, data, idx, total, op, binds, down>>

(* The blocks up to the first missing one; the file is written either way. *)
CommitBlocks(g, u) ==
  /\ Writes(g, u)
  /\ SetData(u, Max({n \in 0..Blocks[g] : 1..n \subseteq uploads[u].blocks}))
  /\ Fine

(* Some upload of the entry (the directory is read in the order of random   *)
(* ids); one without data fails the call.  The payload replaces the entry's. *)
Finalize(g, k, u, declared) ==
  LET e == <<RepoOf[g], k>> IN
  /\ ~Locked /\ g \in binds
  /\ u \in UploadsFor(e) /\ uploads[u].data # Nothing
  /\ data' = [data EXCEPT ![e] = uploads[u].data]
  /\ uploads' = [uploads EXCEPT ![u].data = Nothing]
  /\ op' = [step |-> "meta", entry |-> e, upload |-> u,
            size |-> IF declared = 0 THEN uploads[u].data.n ELSE declared]
  /\ Fine /\ UNCHANGED <<meta, idx, total, binds, down>>

At(step) == Locked /\ op.step = step

(* Mutant: the old size of a replaced entry stays in the total. *)
rememberTwice(e, size) ==
  /\ idx' = [idx EXCEPT ![e] = size]
  /\ total' = total + size

rememberLocked(e, size) ==
  /\ idx' = [idx EXCEPT ![e] = size]
  /\ total' = total + size - IF idx[e] = Nothing THEN 0 ELSE idx[e]

(* writeMeta, rememberLocked; a failing write leaves an unreadable file. *)
FinalizeMeta ==
  /\ At("meta")
  /\ \/ /\ meta' = [meta EXCEPT ![op.entry] = op.size]
        /\ rememberLocked(op.entry, op.size)
        /\ op' = [op EXCEPT !.step = "clean"]
        /\ Fine
     \/ /\ meta' = [meta EXCEPT ![op.entry] = Nothing]
        /\ op' = Nothing
        /\ Fault /\ UNCHANGED <<idx, total>>
  /\ UNCHANGED <<data, uploads, binds, down>>

(* The upload directory is removed; the error is ignored. *)
FinalizeClean ==
  /\ At("clean")
  /\ \/ uploads' = [uploads EXCEPT ![op.upload] = Nothing] /\ Fine
     \/ Fault /\ UNCHANGED uploads
  /\ op' = [op EXCEPT !.step = "evict"]
  /\ UNCHANGED <<meta, data, idx, total, binds, down>>

(* evictLocked takes the oldest access times of the index first.  Times are *)
(* left out: any indexed entry but the one just saved may be next.          *)
Victims == Indexed \ {op.entry}

(* Mutant: the size is subtracted, the entry stays in the index. *)
forgetSize(S) ==
  /\ total' = total - SizeIn(idx, S \cap Indexed)
  /\ UNCHANGED idx

forgetLocked(S) ==
  /\ idx' = [e \in Entries |-> IF e \in S THEN Nothing ELSE idx[e]]
  /\ total' = total - SizeIn(idx, S \cap Indexed)

(* RemoveAll of entry directories; one that fails may stop half way. *)
Remove(M, D) ==
  /\ meta' = [e \in Entries |-> IF e \in M THEN Nothing ELSE meta[e]]
  /\ data' = [e \in Entries |-> IF e \in D THEN Nothing ELSE data[e]]
RemoveAll(S)  == Remove(S, S) /\ Fine
RemoveSome(S) ==
  Fault /\ \E M \in SUBSET (S \cap Ready), D \in SUBSET {e \in S : data[e] # Nothing} : Remove(M, D)

(* Mutant: the entry is forgotten before its directory is gone. *)
EvictOneEarly(e) ==
  /\ At("evict") /\ total > MaxBytes
  /\ e \in Victims
  /\ forgetLocked({e})
  /\ \/ RemoveAll({e}) /\ UNCHANGED op
     \/ RemoveSome({e}) /\ op' = Nothing
  /\ UNCHANGED <<uploads, binds, down>>

EvictOne(e) ==
  /\ At("evict") /\ total > MaxBytes
  /\ e \in Victims
  /\ \/ RemoveAll({e}) /\ forgetLocked({e}) /\ UNCHANGED op
     \/ RemoveSome({e}) /\ op' = Nothing /\ UNCHANGED <<idx, total>>
  /\ UNCHANGED <<uploads, binds, down>>

(* Mutant: the limit is off by one. *)
FinalizeDoneEarly ==
  /\ At("evict")
  /\ total <= MaxBytes + 1
  /\ op' = Nothing
  /\ Fine /\ UNCHANGED <<meta, data, uploads, idx, total, binds, down>>

FinalizeDone ==
  /\ At("evict")
  /\ total <= MaxBytes \/ Victims = {}
  /\ op' = Nothing
  /\ Fine /\ UNCHANGED <<meta, data, uploads, idx, total, binds, down>>

-----------------------------------------------------------------------------
(* Restoring: GetCacheEntryDownloadURL, then a GET of the URL. *)

(* The exact key, or one of those a restore key is a prefix of (the newest; *)
(* times are left out).                                                     *)
lookupLocked(r, k, restoreKeys) ==
  IF <<r, k>> \in Ready THEN {<<r, k>>} ELSE Ready \cap ({r} \X restoreKeys)

(* The access time is written to meta.json; a failing write is ignored. *)
Get(g, k, restoreKeys) ==
  /\ ~Locked /\ g \in binds
  /\ \E e \in lookupLocked(RepoOf[g], k, restoreKeys) :
       /\ \/ Fine /\ UNCHANGED meta
          \/ Fault /\ meta' = [meta EXCEPT ![e] = Nothing]
       /\ down' = [down EXCEPT ![g] = [step |-> "url", entry |-> e]]
  /\ UNCHANGED <<data, uploads, idx, total, op, binds>>

Doing(g, step) == down[g] # Nothing /\ down[g].step = step

(* Found in the index, under the lock. *)
blobPath(g) ==
  /\ ~Locked
  /\ Doing(g, "url") /\ down[g].entry \in Indexed
  /\ down' = [down EXCEPT ![g].step = "open"]
  /\ Fine /\ UNCHANGED <<meta, data, uploads, idx, total, op, binds>>

(* os.Open without the lock: the payload that is there now, or 404. *)
OpenBlob(g) ==
  /\ Doing(g, "open")
  /\ LET p == data[down[g].entry] IN
     down' = [down EXCEPT ![g] = IF p = Nothing THEN Nothing ELSE [step |-> "got", payload |-> p]]
  /\ Fine /\ UNCHANGED <<meta, data, uploads, idx, total, op, binds>>

-----------------------------------------------------------------------------
(* Operators' purges, delivered with a heartbeat (ApplyCacheOps). *)

(* Directory by directory until one fails; only what had a readable meta is *)
(* forgotten.  Uploads are left alone.                                      *)
DeleteRepo(r) ==
  /\ ~Locked
  /\ LET dirs == {e \in Entries : e[1] = r} IN
     \/ RemoveAll(dirs) /\ forgetLocked(dirs \cap Ready)
     \/ /\ Fault
        /\ \E done \in SUBSET dirs : \E e \in dirs \ done : \E M, D \in SUBSET {e} :
             /\ Remove(done \cup M, done \cup D)
             /\ forgetLocked(done \cap Ready)
  /\ UNCHANGED <<uploads, op, binds, down>>

(* Everything but the CA, uploads too; the index is reset at the end. *)
DeleteAll ==
  /\ ~Locked
  /\ \/ RemoveAll(Entries) /\ forgetLocked(Entries) /\ uploads' = [u \in Uploads |-> Nothing]
     \/ /\ RemoveSome(Entries) /\ UNCHANGED <<idx, total>>
        /\ \E S \in SUBSET Uploads :
             uploads' = [u \in Uploads |-> IF u \in S THEN Nothing ELSE uploads[u]]
  /\ UNCHANGED <<op, binds, down>>

-----------------------------------------------------------------------------
(* Jobs come and go; the agent restarts. *)

BindRemote(g) ==
  /\ g \notin binds
  /\ binds' = binds \cup {g}
  /\ Fine /\ UNCHANGED <<meta, data, uploads, idx, total, op, down>>

(* The job ends and its VM with it; what it had uploaded stays on disk. *)
Leave(S) ==
  /\ binds' = binds \ S
  /\ down' = [g \in Guests |-> IF g \in S THEN Nothing ELSE down[g]]

UnbindRemote(g) ==
  /\ g \in binds
  /\ Leave({g})
  /\ Fine /\ UNCHANGED <<meta, data, uploads, idx, total, op>>

(* rebuildIndex: every ready meta.json, whether its payload is there or not. *)
rebuildIndex ==
  /\ idx' = [e \in Entries |-> IF e \in Ready THEN meta[e] ELSE Nothing]
  /\ total' = SizeIn(meta, Ready)

(* The agent dies at any point and starts again, sweeping its VMs. *)
Crash ==
  /\ Fault
  /\ rebuildIndex
  /\ op' = Nothing
  /\ Leave(Guests)
  /\ UNCHANGED <<meta, data, uploads>>

-----------------------------------------------------------------------------

ActionsInit ==
  /\ meta = [e \in Entries |-> Nothing] /\ data = [e \in Entries |-> Nothing]
  /\ uploads = [u \in Uploads |-> Nothing]
  /\ idx = [e \in Entries |-> Nothing] /\ total = 0
  /\ op = Nothing
  /\ binds = {}
  /\ down = [g \in Guests |-> Nothing]
  /\ faults = 0

SaveStep(g) ==
  \E u \in Uploads :
    \/ WriteUpload(g, u) \/ CommitBlocks(g, u)
    \/ \E b \in 1..Blocks[g] : AppendUpload(g, u, b)
    \/ \E k \in Keys : Create(g, k, u) \/ \E d \in {0, Blocks[g]} : Finalize(g, k, u, d)

FinalizeStep ==
  FinalizeMeta \/ FinalizeClean \/ FinalizeDone \/ \E e \in Entries : EvictOne(e)

(* Nothing stands for a primary key that nobody saves. *)
RestoreStep(g) ==
  \/ \E k \in Keys \cup {Nothing}, restoreKeys \in SUBSET Keys : Get(g, k, restoreKeys)
  \/ blobPath(g)
  \/ OpenBlob(g)

ApplyCacheOps == DeleteAll \/ \E r \in Repos : DeleteRepo(r)

ActionsNext ==
  \/ \E g \in Guests : SaveStep(g) \/ RestoreStep(g) \/ BindRemote(g) \/ UnbindRemote(g)
  \/ FinalizeStep
  \/ ApplyCacheOps
  \/ Crash

ActionsSpec == ActionsInit /\ [][ActionsNext]_actionsVars

-----------------------------------------------------------------------------
(* Properties. *)

\* The store's and the gateway's variables have the types of the Go values.
ActionsTypeOK ==
  /\ meta \in [Entries -> Nat \cup {Nothing}]
  /\ data \in [Entries -> Payload \cup {Nothing}]
  /\ uploads \in [Uploads -> [entry : Entries, data : Payload \cup {Nothing},
                              blocks : SUBSET Nat] \cup {Nothing}]
  /\ idx \in [Entries -> Nat \cup {Nothing}]
  /\ total \in Nat
  /\ op \in [step : {"meta", "clean", "evict"}, entry : Entries, upload : Uploads, size : Nat]
            \cup {Nothing}
  /\ binds \in SUBSET Guests
  /\ down \in [Guests -> [step : {"url", "open"}, entry : Entries]
                           \cup [step : {"got"}, payload : Payload] \cup {Nothing}]
  /\ faults \in 0..MaxFaults

\* The running total that decides about eviction is the sum over the index, through
\* replaced entries, purges, failed removals and restarts; a drift would never heal
\* and would either stop eviction or empty the cache.
TotalIsIndexed == total = SizeIn(idx, Indexed)

\* What a lookup can still find is in the index with its size: no interleaving of
\* failing removals, failing meta writes, purges and crashes leaves an entry on disk
\* that the quota does not count and eviction never reaches.
ReadyIndexed == \A e \in Ready : e \in Indexed /\ idx[e] = meta[e]

\* "evicts ... if needed": a save that succeeds leaves the ready entries within
\* cache_max_bytes, or its own entry as the only one, also when entries were replaced,
\* half removed or indexed anew before.
SavedWithinQuota ==
  [][FinalizeDone => SizeIn(meta, Ready) <= MaxBytes \/ Ready \subseteq {op.entry}]_actionsVars

(* The abstract cache: a lookup finds an entry whose meta.json is ready. *)
Abstract == INSTANCE ScopedCache WITH
  Readers  <- Guests,
  Offers   <- LAMBDA e : {p \in Payload : p.for = e},
  MayRead  <- LAMBDA g : {RepoOf[g]} \X Keys,
  contents <- [e \in Entries |-> IF e \in Ready THEN data[e] ELSE Nothing],
  got      <- [g \in Guests |-> IF Doing(g, "got") THEN down[g].payload ELSE Nothing]

\* "Keys are namespaced by repo only": with uploads of one key by several jobs, stale
\* uploads of dead jobs, purges and crashes half way through Finalize, an entry holds
\* only what was uploaded for that repository and key, and a guest only ever downloads
\* entries of its own repository.
ActionsCacheIsScoped == Abstract!CacheSpec
=============================================================================
