------------------------------- MODULE OCICache -------------------------------
(***************************************************************************)
(* The host's pull-through registry cache (internal/ocicache): the store   *)
(* of blobs and manifests with its in-memory index, and the gateway whose  *)
(* request handlers look an item up, fetch it from the registry on a miss, *)
(* stream it to the guest and store it, each step interleaving with other   *)
(* handlers, pushes of build caches, purges and restarts.                   *)
(*                                                                         *)
(* s.mu makes a store call one critical section; a put that evicts is split *)
(* (`op` holds the lock) because OpenBlob opens files without the lock and  *)
(* removals can fail.  Every stored object has size 1; the content an item  *)
(* should have is the item itself.                                          *)
(***************************************************************************)
EXTENDS Integers, FiniteSets

CONSTANTS
  Guests,        \* VMs
  Repos,
  RepoOf,        \* guest -> repository of its job
  AddrOf,        \* guest -> its IP address; one may be used again by a later guest
  Blobs,         \* digests of layers
  Refs,          \* references of manifests: tags and digests
  DigestOf,      \* reference -> the manifest's digest reference
  PublicItems,   \* items the registry serves without credentials
  Has,           \* repository -> items its jobs build or may fetch with their credentials
  Public,        \* ScopePublic
  MaxBytes,
  Nothing, Bad,  \* Bad: content that does not match its digest
  MaxFaults,     \* bound on failing file operations and agent crashes
  MaxTotal       \* bound on s.total, which drifts with every purge

Items  == Blobs \cup Refs
Scopes == Repos \cup {Public}
Dirs   == Scopes \X Items       \* blobDir, manifestDir
BlobDirs == Scopes \X Blobs

ASSUME OCIConstants ==
  /\ IsFiniteSet(Guests) /\ IsFiniteSet(Repos) /\ IsFiniteSet(Items)
  /\ RepoOf \in [Guests -> Repos]
  /\ Blobs \cap Refs = {} /\ DigestOf \in [Refs -> Refs]
  /\ \A r \in Refs :      \* who may fetch a manifest by its tag may fetch it by its digest
       /\ r \in PublicItems => DigestOf[r] \in PublicItems
       /\ \A repo \in Repos : r \in Has[repo] => DigestOf[r] \in Has[repo]
  /\ PublicItems \subseteq Items /\ Has \in [Repos -> SUBSET Items]
  /\ Public \notin Repos /\ {Nothing, Bad} \cap (Items \cup Scopes) = {} /\ Nothing # Bad
  /\ MaxBytes \in Nat /\ MaxFaults \in Nat /\ MaxTotal \in Nat

VARIABLES
  data,      \* directory -> content of its data file, or Nothing
  meta,      \* directories with a readable meta.json
  idx,       \* s.idx: directories
  total,     \* s.total
  op,        \* the guest whose put holds the lock to evict, or Nothing
  up,        \* guests that run
  binds,     \* g.binds: address -> repository, or Nothing
  pull,      \* guest -> its request being handled, or Nothing
  uploads,   \* guest -> body of its upload session so far, or Nothing
  got,       \* guest -> content the cache gave it for its last request, or Nothing
  faults

store   == <<data, meta, idx, total, op>>
gateway == <<up, binds, pull, uploads, got>>
ociVars == <<data, meta, idx, total, op, up, binds, pull, uploads, got, faults>>

Addresses == {AddrOf[v] : v \in Guests}
Locked == op # Nothing

Fault == faults < MaxFaults /\ faults' = faults + 1
Fine  == UNCHANGED faults

-----------------------------------------------------------------------------
(* Looking up: the public scope, then the repository's. *)

Visible(d) == data[d] # Nothing /\ (d \in BlobDirs \/ d \in meta)

Find(repo, i) ==
  IF Visible(<<Public, i>>) THEN Public
  ELSE IF repo # Nothing /\ Visible(<<repo, i>>) THEN repo ELSE Nothing

(* A hit: a blob is opened in a later step, a manifest was read under the lock. *)
(* touchBlobLocked rewrites meta.json; a write that fails leaves it unreadable. *)
Hit(v, scope, i) ==
  /\ IF i \in Blobs
     THEN /\ pull' = [pull EXCEPT ![v] = [step |-> "open", dir |-> <<scope, i>>]]
          /\ got' = [got EXCEPT ![v] = Nothing]
     ELSE /\ pull' = [pull EXCEPT ![v] = Nothing]
          /\ got' = [got EXCEPT ![v] = IF v \in up THEN data[<<scope, i>>] ELSE Nothing]
  /\ \/ Fine /\ UNCHANGED meta
     \/ Fault /\ meta' = meta \ {<<scope, i>>}
  /\ UNCHANGED <<data, idx, total, op, up, binds, uploads>>

Handle(v, r) ==
  /\ pull' = [pull EXCEPT ![v] = r]
  /\ got' = [got EXCEPT ![v] = Nothing]
  /\ Fine /\ UNCHANGED <<store, up, binds, uploads>>

(* getManifest and serveBlob up to the first lookup; the repository is read *)
(* once, the guest's runner may be running before its address is bound.     *)
Pull(v, i) ==
  /\ v \in up /\ pull[v] = Nothing /\ ~Locked
  /\ LET repo == binds[AddrOf[v]] IN
     IF Find(repo, i) # Nothing THEN Hit(v, Find(repo, i), i)
     ELSE Handle(v, [step |-> "fetch", item |-> i, repo |-> repo])

Doing(v, step) == pull[v] # Nothing /\ pull[v].step = step

(* writeBlob: os.Open without the lock; the file may be gone (404). *)
OpenBlob(v) ==
  /\ Doing(v, "open")
  /\ pull' = [pull EXCEPT ![v] = Nothing]
  /\ got' = [got EXCEPT ![v] = IF v \in up /\ data[pull[v].dir] # Nothing
                               THEN data[pull[v].dir] ELSE Nothing]
  /\ Fine /\ UNCHANGED <<store, up, binds, uploads>>

-----------------------------------------------------------------------------
(* A miss: fetchOriginStream asks without, then with the guest's credentials. *)

(* Mutant: an answer to the guest's credentials goes to the public scope. *)
fetchScopePublic(v, i) == {Public}

(* The scope of an answer 200; the binding is read again before credentials *)
(* are used.                                                                *)
fetchScope(v, i) ==
  IF i \in PublicItems THEN {Public}
  ELSE IF binds[AddrOf[v]] # Nothing /\ i \in Has[RepoOf[v]] THEN {pull[v].repo} ELSE {}

(* Refusals, or credentials although the request came unbound (401). *)
Refused(v) ==
  /\ Doing(v, "fetch")
  /\ pull[v].item \notin PublicItems
  /\ Handle(v, Nothing)

(* Mutant: the check that a request with credentials came from a bound address is gone. *)
FetchedUnbound(v) ==
  /\ Doing(v, "fetch")
  /\ \E scope \in fetchScope(v, pull[v].item) :
       Handle(v, [step |-> "put", dir |-> <<scope, pull[v].item>>, body |-> pull[v].item])

(* The guest is sent the body as it arrives; a blob's may not match its digest. *)
Fetched(v) ==
  /\ Doing(v, "fetch")
  /\ \E scope \in fetchScope(v, pull[v].item) \ {Nothing} :
     \E body \in {pull[v].item} \cup (IF pull[v].item \in Blobs THEN {Bad} ELSE {}) :
       Handle(v, [step |-> "put", dir |-> <<scope, pull[v].item>>, body |-> body])

(* The registry failed: another look at the store, or 502. *)
FetchFails(v) ==
  /\ Doing(v, "fetch") /\ ~Locked
  /\ LET repo == pull[v].repo  i == pull[v].item IN
     IF Find(repo, i) # Nothing THEN Hit(v, Find(repo, i), i) ELSE Handle(v, Nothing)

-----------------------------------------------------------------------------
(* Storing. *)

digestMatches(d, body) == d \in BlobDirs => body = d[2]

(* A manifest is stored under its reference and its digest. *)
PutDirs(d) == IF d \in BlobDirs THEN {d} ELSE {d, <<d[1], DigestOf[d[2]]>>}

Content(d, body) == IF d \in BlobDirs THEN body ELSE d[2]

(* PutBlobFromReader and PutManifest: rename or write the data, write the   *)
(* meta.json, index blobs (manifests are not), then evict.                   *)
Put(v) ==
  /\ Doing(v, "put") /\ ~Locked /\ total < MaxTotal
  /\ digestMatches(pull[v].dir, pull[v].body)
  /\ LET dirs == PutDirs(pull[v].dir)  blobs == dirs \cap BlobDirs IN
     /\ data' = [d \in Dirs |-> IF d \in dirs THEN Content(d, pull[v].body) ELSE data[d]]
     /\ \/ /\ meta' = meta \cup dirs
           /\ idx' = idx \cup blobs
           /\ total' = total + Cardinality(blobs)
           /\ op' = v
           /\ Fine
        \/ /\ meta' = meta \ dirs
           /\ Fault
           /\ UNCHANGED <<idx, total, op>>
  /\ pull' = [pull EXCEPT ![v] = Nothing]
  /\ UNCHANGED <<up, binds, uploads, got>>

PutMismatch(v) ==
  /\ Doing(v, "put")
  /\ ~digestMatches(pull[v].dir, pull[v].body)
  /\ Handle(v, Nothing)

Remove(M, D) ==
  /\ meta' = meta \ M
  /\ data' = [d \in Dirs |-> IF d \in D THEN Nothing ELSE data[d]]
RemoveAll(S)  == Remove(S, S) /\ Fine
RemoveSome(S) ==
  Fault /\ \E M \in SUBSET (S \cap meta), D \in SUBSET {d \in S : data[d] # Nothing} : Remove(M, D)

(* Mutant: the index lets go of a directory whose removal may fail. *)
EvictOneEarly(d) ==
  /\ Locked /\ total > MaxBytes /\ d \in idx
  /\ idx' = idx \ {d}
  /\ \/ RemoveAll({d}) /\ total' = total - 1 /\ UNCHANGED op
     \/ RemoveSome({d}) /\ op' = Nothing /\ UNCHANGED total
  /\ UNCHANGED gateway

(* Mutant: the size is given back although the removal failed. *)
EvictOneTwice(d) ==
  /\ Locked /\ total > MaxBytes /\ d \in idx
  /\ total' = total - 1
  /\ \/ RemoveAll({d}) /\ idx' = idx \ {d} /\ UNCHANGED op
     \/ RemoveSome({d}) /\ op' = Nothing /\ UNCHANGED idx
  /\ UNCHANGED gateway

(* evictLocked: any indexed directory may be the oldest, the one just stored *)
(* too; times are left out.                                                  *)
EvictOne(d) ==
  /\ Locked /\ total > MaxBytes /\ d \in idx
  /\ \/ RemoveAll({d}) /\ idx' = idx \ {d} /\ total' = total - 1 /\ UNCHANGED op
     \/ RemoveSome({d}) /\ op' = Nothing /\ UNCHANGED <<idx, total>>
  /\ UNCHANGED gateway

(* Mutant: the limit is off by one. *)
PutDoneEarly ==
  /\ Locked /\ (total <= MaxBytes + 1 \/ idx = {})
  /\ op' = Nothing
  /\ Fine /\ UNCHANGED <<data, meta, idx, total, gateway>>

PutDone ==
  /\ Locked /\ (total <= MaxBytes \/ idx = {})
  /\ op' = Nothing
  /\ Fine /\ UNCHANGED <<data, meta, idx, total, gateway>>

-----------------------------------------------------------------------------
(* Pushes of build caches: POST, PATCH, PUT; only the last names the blob. *)

(* A session is opened, or grows by a chunk of what the guest built. *)
serveUpload(v, body) ==
  /\ v \in up /\ binds[AddrOf[v]] # Nothing
  /\ uploads' = [uploads EXCEPT ![v] = body]
  /\ Fine /\ UNCHANGED <<store, up, binds, pull, got>>

PatchUpload(v) ==
  /\ uploads[v] # Nothing
  /\ \E c \in Blobs \cap Has[RepoOf[v]] :
       serveUpload(v, IF uploads[v] = {} THEN {c} ELSE {Bad})

(* The session ends first; the blob goes to the repository bound now. *)
PutUpload(v, b) ==
  /\ v \in up /\ binds[AddrOf[v]] # Nothing
  /\ uploads[v] # Nothing /\ pull[v] = Nothing
  /\ uploads' = [uploads EXCEPT ![v] = Nothing]
  /\ got' = [got EXCEPT ![v] = Nothing]
  /\ pull' = [pull EXCEPT ![v] = [step |-> "put", dir |-> <<binds[AddrOf[v]], b>>,
                                  body |-> IF uploads[v] = {b} THEN b ELSE Bad]]
  /\ Fine /\ UNCHANGED <<store, up, binds>>

putBuildManifest(v, r) ==
  /\ v \in up /\ binds[AddrOf[v]] # Nothing /\ pull[v] = Nothing
  /\ r \in Has[RepoOf[v]]
  /\ Handle(v, [step |-> "put", dir |-> <<binds[AddrOf[v]], r>>, body |-> r])

-----------------------------------------------------------------------------
(* Purges leave the index and the total as they are. *)

DeleteRepo(r) ==
  /\ ~Locked
  /\ RemoveAll({r} \X Items) \/ RemoveSome({r} \X Items)
  /\ UNCHANGED <<idx, total, op, gateway>>

DeleteAll ==
  /\ ~Locked
  /\ RemoveAll(Dirs) \/ RemoveSome(Dirs)
  /\ UNCHANGED <<idx, total, op, gateway>>

-----------------------------------------------------------------------------
(* Guests come and go; the handler of a request outlives its guest. *)

Boot(v) ==
  /\ v \notin up /\ pull[v] = Nothing
  /\ binds[AddrOf[v]] = Nothing /\ \A w \in up : AddrOf[w] # AddrOf[v]
  /\ up' = up \cup {v}
  /\ Fine /\ UNCHANGED <<store, binds, pull, uploads, got>>

BindRemote(v) ==
  /\ v \in up /\ binds[AddrOf[v]] = Nothing
  /\ binds' = [binds EXCEPT ![AddrOf[v]] = RepoOf[v]]
  /\ Fine /\ UNCHANGED <<store, up, pull, uploads, got>>

(* The guest is destroyed, then its address is unbound (deferred). *)
UnbindRemote(v) ==
  /\ v \in up /\ binds[AddrOf[v]] # Nothing
  /\ up' = up \ {v}
  /\ binds' = [binds EXCEPT ![AddrOf[v]] = Nothing]
  /\ got' = [got EXCEPT ![v] = Nothing]
  /\ uploads' = [uploads EXCEPT ![v] = Nothing]
  /\ Fine /\ UNCHANGED <<store, pull>>

(* rebuildIndex counts every readable meta.json, of manifests too. *)
rebuildIndex == idx' = meta /\ total' = Cardinality(meta)

Crash ==
  /\ Fault
  /\ rebuildIndex
  /\ op' = Nothing /\ up' = {}
  /\ binds' = [a \in Addresses |-> Nothing]
  /\ pull' = [v \in Guests |-> Nothing] /\ uploads' = [v \in Guests |-> Nothing]
  /\ got' = [v \in Guests |-> Nothing]
  /\ UNCHANGED <<data, meta>>

-----------------------------------------------------------------------------

OCIInit ==
  /\ data = [d \in Dirs |-> Nothing] /\ meta = {} /\ idx = {} /\ total = 0
  /\ op = Nothing /\ up = {}
  /\ binds = [a \in Addresses |-> Nothing]
  /\ pull = [v \in Guests |-> Nothing] /\ uploads = [v \in Guests |-> Nothing]
  /\ got = [v \in Guests |-> Nothing]
  /\ faults = 0

GuestStep(v) ==
  \/ \E i \in Items : Pull(v, i)
  \/ OpenBlob(v) \/ Refused(v) \/ Fetched(v) \/ FetchFails(v) \/ Put(v) \/ PutMismatch(v)
  \/ uploads[v] = Nothing /\ serveUpload(v, {})
  \/ PatchUpload(v)
  \/ \E b \in Blobs : PutUpload(v, b)
  \/ \E r \in Refs : putBuildManifest(v, r)

ApplyCacheOps == DeleteAll \/ \E r \in Repos : DeleteRepo(r)

OCINext ==
  \/ \E v \in Guests : GuestStep(v) \/ Boot(v) \/ BindRemote(v) \/ UnbindRemote(v)
  \/ \E d \in Dirs : EvictOne(d)
  \/ PutDone
  \/ ApplyCacheOps
  \/ Crash

OCISpec == OCIInit /\ [][OCINext]_ociVars

-----------------------------------------------------------------------------
(* Properties. *)

\* The store's and the gateway's variables have the types of the Go values.
OCITypeOK ==
  /\ data \in [Dirs -> Items \cup {Bad, Nothing}]
  /\ meta \in SUBSET Dirs /\ idx \in SUBSET Dirs
  /\ total \in Nat
  /\ op \in Guests \cup {Nothing}
  /\ up \in SUBSET Guests
  /\ binds \in [Addresses -> Repos \cup {Nothing}]
  /\ pull \in [Guests ->
        [step : {"fetch"}, item : Items, repo : Repos \cup {Nothing}]
        \cup [step : {"open"}, dir : Dirs]
        \cup [step : {"put"}, dir : Dirs, body : Items \cup {Bad}] \cup {Nothing}]
  /\ uploads \in [Guests -> (SUBSET (Blobs \cup {Bad})) \cup {Nothing}]
  /\ got \in [Guests -> Items \cup {Bad, Nothing}]
  /\ faults \in 0..MaxFaults

\* The total that decides about eviction never falls below what the index counts,
\* although purges, repeated puts of one blob and failing removals make it drift:
\* a total that is too small would let the cache outgrow its disk for good.
TotalCoversIndex == Cardinality(idx) <= total

\* A blob with a meta.json is in the index: neither a failing eviction or purge nor a
\* crash leaves one behind that no eviction will ever remove.
BlobsIndexed == meta \cap BlobDirs \subseteq idx

\* When a put returns, the blobs on disk fit oci_cache_max_bytes, also after purges,
\* concurrent pulls of one blob, failed evictions and restarts.
StoredWithinQuota ==
  [][PutDone => Cardinality(meta \cap BlobDirs) <= MaxBytes]_ociVars

\* Design, section 6.1: "LRU eviction when oci_cache_max_bytes is exceeded".
EvictsOnlyOverQuota ==
  [][(\E d \in Dirs : EvictOne(d)) => Cardinality(meta) > MaxBytes]_ociVars

(* The abstract cache: the files a lookup may find. *)
Abstract == INSTANCE ScopedCache WITH
  Entries  <- Dirs,
  Readers  <- Guests,
  Offers   <- LAMBDA d : {d[2]} \cap (IF d[1] = Public THEN PublicItems ELSE Has[d[1]]),
  MayRead  <- LAMBDA v : {Public, RepoOf[v]} \X Items,
  contents <- data

\* The cache serves an item only with the content its digest names, keeps what came
\* with a job's credentials or from its builds out of the public scope, and gives a
\* guest nothing of another repository: with handlers that outlive their guest while
\* its address is bound anew, requests that came before the binding, corrupt transfers,
\* interrupted uploads and files removed between lookup and open.
OCICacheIsScoped == Abstract!CacheSpec
=============================================================================
