---------------------------- MODULE OCICacheProofs ----------------------------
(***************************************************************************)
(* Proofs about OCICache, for any guests, addresses, repositories, items     *)
(* and any number of faults: BlobsIndexed, and that the store and the        *)
(* gateway implement ScopedCache.  The argument follows a guest: an address  *)
(* is bound only while the guest that has it runs, so a request, an upload   *)
(* session and a put carry the repository of the guest they came from, also  *)
(* after its end; what is stored was then fetched or built by that           *)
(* repository or is public.  The total is compared with the size of the     *)
(* index by what each step adds to and takes from both.                      *)
(***************************************************************************)
EXTENDS OCICache, FiniteSetTheorems, TLAPS

Requests ==
  [step : {"fetch"}, item : Items, repo : Repos \cup {Nothing}]
  \cup [step : {"open"}, dir : Dirs]
  \cup [step : {"put"}, dir : Dirs, body : Items \cup {Bad}]

(* The types, without those of the sum and of the counter of faults. *)
Typed ==
  /\ data \in [Dirs -> Items \cup {Bad, Nothing}]
  /\ up \in SUBSET Guests
  /\ binds \in [Addresses -> Repos \cup {Nothing}]
  /\ pull \in [Guests -> Requests \cup {Nothing}]
  /\ uploads \in [Guests -> (SUBSET (Blobs \cup {Bad})) \cup {Nothing}]
  /\ got \in [Guests -> Items \cup {Bad, Nothing}]

(* The scope may hold the item. *)
Owned(d) == d[2] \in IF d[1] = Public THEN PublicItems ELSE Has[d[1]]

(* The guests that run have addresses of their own, bound to their repositories. *)
BindsOwn ==
  /\ \A v \in up : binds[AddrOf[v]] \in {Nothing, RepoOf[v]}
  /\ \A v, w \in up : AddrOf[v] = AddrOf[w] => v = w

(* What a handler does it does for the repository of the guest that asked. *)
RequestOwn(v) ==
  /\ Doing(v, "fetch") => pull[v].repo \in {Nothing, RepoOf[v]}
  /\ Doing(v, "open")  => pull[v].dir[1] \in {Public, RepoOf[v]}
  /\ Doing(v, "put") /\ digestMatches(pull[v].dir, pull[v].body) => Owned(pull[v].dir)

UploadOwn(v) == uploads[v] # Nothing => uploads[v] \subseteq Has[RepoOf[v]] \cup {Bad}

DataOwn == \A d \in Dirs : data[d] # Nothing => data[d] = d[2] /\ Owned(d)

GuestsOwn == \A v \in Guests : RequestOwn(v) /\ UploadOwn(v)

Scoped == Typed /\ BindsOwn /\ GuestsOwn /\ DataOwn

-----------------------------------------------------------------------------
(* The steps that answer a guest from the store. *)

\* A lookup looks into the public scope and the given repository, at an item that is there.
LEMMA FindScoped ==
  ASSUME NEW repo, NEW i, Find(repo, i) # Nothing
  PROVE  /\ Find(repo, i) \in {Public, repo} /\ Find(repo, i) # Nothing
         /\ Visible(<<Find(repo, i), i>>)
BY DEF Find

(* A step of v's handler leaves the other guests' requests. *)
Others(v) ==
  \A w \in Guests \ {v} : pull'[w] = pull[w] /\ uploads'[w] = uploads[w] /\ got'[w] = got[w]

LEMMA HitEffect ==
  ASSUME Scoped, NEW v \in Guests, NEW i \in Items, NEW scope \in {Public, RepoOf[v]},
         Visible(<<scope, i>>), Hit(v, scope, i)
  PROVE  /\ Typed' /\ Others(v) /\ RequestOwn(v)' /\ UploadOwn(v)'
         /\ UNCHANGED <<data, up, binds>>
         /\ got'[v] \in {Nothing, data[<<scope, i>>]}
<1>1. <<scope, i>> \in Dirs
  BY OCIConstants DEF Dirs, Scopes
<1>2. /\ UNCHANGED <<data, up, binds, uploads>>
      /\ \/ pull' = [pull EXCEPT ![v] = Nothing]
         \/ pull' = [pull EXCEPT ![v] = [step |-> "open", dir |-> <<scope, i>>]]
      /\ \/ got' = [got EXCEPT ![v] = Nothing]
         \/ got' = [got EXCEPT ![v] = data[<<scope, i>>]]
  BY DEF Hit
<1>3. Typed'
  BY <1>1, <1>2 DEF Scoped, Typed, Requests
<1>4. Others(v) /\ got'[v] \in {Nothing, data[<<scope, i>>]}
  BY <1>2 DEF Scoped, Typed, Others
<1>5. pull'[v] \in {Nothing, [step |-> "open", dir |-> <<scope, i>>]}
  BY <1>2 DEF Scoped, Typed
<1>6. RequestOwn(v)'
  BY <1>5 DEF RequestOwn, Doing
<1>7. UploadOwn(v)'
  BY <1>2 DEF Scoped, GuestsOwn, UploadOwn
<1> QED BY <1>2, <1>3, <1>4, <1>6, <1>7

(* A handler goes on to r, or ends, without touching the store. *)
LEMMA HandleEffect ==
  ASSUME Scoped, NEW v \in Guests, NEW r \in Requests \cup {Nothing}, Handle(v, r)
  PROVE  /\ Typed' /\ Others(v) /\ UploadOwn(v)'
         /\ UNCHANGED <<data, up, binds>>
         /\ got'[v] = Nothing /\ pull'[v] = r
<1>1. Typed' /\ Others(v) /\ got'[v] = Nothing /\ pull'[v] = r
  BY DEF Handle, Scoped, Typed, Others, store
<1>2. UploadOwn(v)'
  BY DEF Handle, Scoped, GuestsOwn, UploadOwn
<1> QED BY <1>1, <1>2 DEF Handle, store

(* One guest's step: what it may change, and what it hands the guest. *)
Answers(v) ==
  /\ Typed' /\ Others(v) /\ RequestOwn(v)' /\ UploadOwn(v)'
  /\ UNCHANGED <<up, binds>>
  /\ \A d \in Dirs : data'[d] # data[d] => data'[d] = d[2] /\ Owned(d)
  /\ \/ got'[v] = got[v]
     \/ /\ UNCHANGED data
        /\ \/ got'[v] = Nothing
           \/ \E d \in {Public, RepoOf[v]} \X Items : got'[v] = data[d] /\ data[d] # Nothing

LEMMA PullAnswers ==
  ASSUME Scoped, NEW v \in Guests, NEW i \in Items, Pull(v, i)
  PROVE  Answers(v)
<1> DEFINE repo == binds[AddrOf[v]]
<1>1. repo \in {Nothing, RepoOf[v]}
  BY DEF Pull, Scoped, BindsOwn
<1>2. RepoOf[v] \in Repos /\ RepoOf[v] # Nothing
  BY OCIConstants DEF Scopes
<1> HIDE DEF repo
<1>3. CASE Find(repo, i) # Nothing /\ Hit(v, Find(repo, i), i)
  <2>1. Find(repo, i) \in {Public, RepoOf[v]} /\ Visible(<<Find(repo, i), i>>)
    BY <1>1, <1>3, FindScoped
  <2> QED BY <1>3, <2>1, HitEffect DEF Answers, Visible
<1>4. CASE Handle(v, [step |-> "fetch", item |-> i, repo |-> repo])
  <2> DEFINE r == [step |-> "fetch", item |-> i, repo |-> repo]
  <2>1. r \in Requests
    BY <1>1, <1>2 DEF Requests
  <2>2. Answers(v) \/ ~RequestOwn(v)'
    BY <1>4, <2>1, HandleEffect DEF Answers
  <2>3. RequestOwn(v)'
    <3>1. pull'[v] = r
      BY <1>4, <2>1, HandleEffect
    <3> QED BY <1>1, <3>1 DEF RequestOwn, Doing
  <2> QED BY <2>2, <2>3
<1> QED BY <1>3, <1>4 DEF Pull, repo

LEMMA EndAnswers ==
  ASSUME Scoped, NEW v \in Guests, Handle(v, Nothing)
  PROVE  Answers(v)
<1>1. RequestOwn(v)'
  BY HandleEffect DEF RequestOwn, Doing
<1> QED BY <1>1, HandleEffect DEF Answers

LEMMA OpenAnswers ==
  ASSUME Scoped, NEW v \in Guests, OpenBlob(v)
  PROVE  Answers(v)
<1>1. pull[v].dir \in {Public, RepoOf[v]} \X Items
  BY DEF OpenBlob, Scoped, GuestsOwn, RequestOwn, Typed, Requests, Doing, Dirs
<1>2. Typed' /\ Others(v) /\ pull'[v] = Nothing /\ UNCHANGED <<data, up, binds, uploads>>
  <2>1. data[pull[v].dir] \in Items \cup {Bad, Nothing}
    BY <1>1, OCIConstants DEF Scoped, Typed, Dirs, Scopes
  <2> QED BY <2>1 DEF OpenBlob, Scoped, Typed, Others, store
<1>3. got'[v] \in {Nothing, data[pull[v].dir]}
  BY DEF OpenBlob, Scoped, Typed
<1>4. RequestOwn(v)' /\ UploadOwn(v)'
  BY <1>2 DEF RequestOwn, Doing, UploadOwn, Scoped, GuestsOwn
<1> QED BY <1>1, <1>2, <1>3, <1>4 DEF Answers

-----------------------------------------------------------------------------
(* The steps that bring an item to the store. *)

(* A put may be handed on when its item, if intact, belongs to its scope. *)
LEMMA PutRequest ==
  ASSUME Scoped, NEW v \in Guests, NEW d \in Dirs, NEW body \in Items \cup {Bad},
         digestMatches(d, body) => Owned(d),
         pull'[v] = [step |-> "put", dir |-> d, body |-> body]
  PROVE  RequestOwn(v)'
BY DEF RequestOwn, Doing

LEMMA FetchAnswers ==
  ASSUME Scoped, NEW v \in Guests, Fetched(v)
  PROVE  Answers(v)
<1> DEFINE i == pull[v].item
<1>1. pull[v].repo \in {Nothing, RepoOf[v]} /\ i \in Items
  BY DEF Fetched, Doing, Scoped, GuestsOwn, RequestOwn, Typed, Requests
<1>2. PICK scope \in fetchScope(v, i) \ {Nothing}, body \in {i, Bad} :
        Handle(v, [step |-> "put", dir |-> <<scope, i>>, body |-> body])
  BY DEF Fetched
<1>3. RepoOf[v] \in Repos /\ RepoOf[v] # Public
  BY OCIConstants
<1>4. <<scope, i>> \in Dirs /\ Owned(<<scope, i>>)
  BY <1>1, <1>2, <1>3 DEF fetchScope, Dirs, Scopes, Owned
<1> DEFINE r == [step |-> "put", dir |-> <<scope, i>>, body |-> body]
<1>5. r \in Requests
  BY <1>1, <1>4 DEF Requests
<1>6. pull'[v] = r
  BY <1>2, <1>5, HandleEffect
<1>7. RequestOwn(v)'
  BY <1>1, <1>4, <1>6, PutRequest
<1> QED BY <1>2, <1>5, <1>7, HandleEffect DEF Answers

LEMMA FetchFailsAnswers ==
  ASSUME Scoped, NEW v \in Guests, FetchFails(v)
  PROVE  Answers(v)
<1> DEFINE repo == pull[v].repo
           i == pull[v].item
<1>1. repo \in {Nothing, RepoOf[v]} /\ i \in Items
  BY DEF FetchFails, Doing, Scoped, GuestsOwn, RequestOwn, Typed, Requests
<1>2. CASE Handle(v, Nothing)
  BY <1>2, EndAnswers
<1>3. CASE Find(repo, i) # Nothing /\ Hit(v, Find(repo, i), i)
  <2> HIDE DEF repo, i
  <2>1. Find(repo, i) \in {Public, RepoOf[v]} /\ Visible(<<Find(repo, i), i>>)
    BY <1>1, <1>3, FindScoped
  <2> QED BY <1>1, <1>3, <2>1, HitEffect DEF Answers, Visible
<1> QED BY <1>2, <1>3 DEF FetchFails

LEMMA PutAnswers ==
  ASSUME Scoped, NEW v \in Guests, Put(v)
  PROVE  Answers(v)
<1> DEFINE dir == pull[v].dir
           body == pull[v].body
           dirs == PutDirs(dir)
<1>1. dir \in Dirs /\ body \in Items \cup {Bad} /\ digestMatches(dir, body) /\ Owned(dir)
  BY DEF Put, Doing, Scoped, GuestsOwn, RequestOwn, Typed, Requests
<1>2. \A d \in dirs : d \in Dirs /\ Owned(d) /\ Content(d, body) = d[2]
  <2>1. CASE dir \in BlobDirs
    BY <1>1, <2>1 DEF PutDirs, Content, digestMatches
  <2>2. CASE dir \notin BlobDirs
    <3>1. dir[1] \in Scopes /\ dir[2] \in Refs /\ dir = <<dir[1], dir[2]>>
      BY <1>1, <2>2 DEF Dirs, BlobDirs, Items
    <3>2. DigestOf[dir[2]] \in Refs
      BY <3>1, OCIConstants
    <3>3. Owned(<<dir[1], DigestOf[dir[2]]>>)
      BY <1>1, <3>1, OCIConstants DEF Owned, Scopes
    <3>4. \A d \in dirs : d \in Dirs /\ d \notin BlobDirs /\ Owned(d)
      BY <1>1, <2>2, <3>1, <3>2, <3>3, OCIConstants DEF PutDirs, Dirs, BlobDirs, Items
    <3> QED BY <3>4 DEF Content
  <2> QED BY <2>1, <2>2
<1> HIDE DEF dirs
<1>3. data' = [d \in Dirs |-> IF d \in dirs THEN Content(d, body) ELSE data[d]]
  BY DEF Put, dirs
<1>4. \A d \in Dirs : data'[d] = IF d \in dirs THEN d[2] ELSE data[d]
  BY <1>2, <1>3
<1>5. data' \in [Dirs -> Items \cup {Bad, Nothing}]
  <2>1. \A d \in Dirs : d[2] \in Items
    BY DEF Dirs
  <2> QED BY <1>3, <1>4, <2>1 DEF Scoped, Typed
<1>6. pull' = [pull EXCEPT ![v] = Nothing] /\ UNCHANGED <<up, binds, uploads, got>>
  BY DEF Put
<1>7. Typed' /\ Others(v) /\ pull'[v] = Nothing
  BY <1>5, <1>6 DEF Scoped, Typed, Others
<1>8. RequestOwn(v)' /\ UploadOwn(v)'
  BY <1>6, <1>7 DEF RequestOwn, Doing, UploadOwn, Scoped, GuestsOwn
<1> QED BY <1>2, <1>4, <1>6, <1>7, <1>8 DEF Answers

LEMMA UploadAnswers ==
  ASSUME Scoped, NEW v \in Guests, NEW body \in SUBSET (Blobs \cup {Bad}),
         body \subseteq Has[RepoOf[v]] \cup {Bad}, serveUpload(v, body)
  PROVE  Answers(v)
<1>1. /\ Typed' /\ Others(v) /\ uploads'[v] = body
      /\ UNCHANGED <<data, up, binds, pull, got>>
  BY DEF serveUpload, Scoped, Typed, Others, store
<1>2. RequestOwn(v)' /\ UploadOwn(v)'
  BY <1>1 DEF RequestOwn, Doing, UploadOwn, Scoped, GuestsOwn
<1> QED BY <1>1, <1>2 DEF Answers

LEMMA PushAnswers ==
  ASSUME Scoped, NEW v \in Guests, NEW b \in Blobs, PutUpload(v, b)
  PROVE  Answers(v)
<1> DEFINE d == <<binds[AddrOf[v]], b>>
           body == IF uploads[v] = {b} THEN b ELSE Bad
           r == [step |-> "put", dir |-> d, body |-> body]
<1>1. binds[AddrOf[v]] = RepoOf[v] /\ RepoOf[v] \in Repos /\ RepoOf[v] # Public
  BY OCIConstants DEF PutUpload, Scoped, BindsOwn
<1>2. b \in Items /\ b # Bad /\ body \in Items \cup {Bad} /\ d \in Dirs /\ d \in BlobDirs
  BY <1>1, OCIConstants DEF Items, Dirs, BlobDirs, Scopes
<1>3. digestMatches(d, body) => Owned(d)
  <2>1. ASSUME digestMatches(d, body) PROVE b \in Has[RepoOf[v]]
    <3>1. uploads[v] = {b}
      BY <1>2, <2>1 DEF digestMatches
    <3> QED BY <1>2, <3>1 DEF PutUpload, Scoped, GuestsOwn, UploadOwn
  <2> QED BY <1>1, <2>1 DEF Owned
<1>4. r \in Requests
  BY <1>2 DEF Requests
<1> HIDE DEF d, body
<1>5. /\ pull' = [pull EXCEPT ![v] = r] /\ uploads' = [uploads EXCEPT ![v] = Nothing]
      /\ got' = [got EXCEPT ![v] = Nothing] /\ UNCHANGED <<data, up, binds>>
  BY DEF PutUpload, d, body, store
<1>6. Typed' /\ Others(v) /\ pull'[v] = r /\ uploads'[v] = Nothing /\ got'[v] = Nothing
  <2> HIDE DEF r
  <2> QED BY <1>4, <1>5 DEF Scoped, Typed, Others
<1>7. RequestOwn(v)' /\ UploadOwn(v)'
  BY <1>2, <1>3, <1>6, PutRequest DEF UploadOwn
<1> QED BY <1>5, <1>6, <1>7 DEF Answers

LEMMA BuildAnswers ==
  ASSUME Scoped, NEW v \in Guests, NEW ref \in Refs, putBuildManifest(v, ref)
  PROVE  Answers(v)
<1> DEFINE d == <<binds[AddrOf[v]], ref>>
           r == [step |-> "put", dir |-> d, body |-> ref]
<1>1. binds[AddrOf[v]] = RepoOf[v] /\ RepoOf[v] \in Repos /\ RepoOf[v] # Public
  BY OCIConstants DEF putBuildManifest, Scoped, BindsOwn
<1>2. ref \in Items /\ d \in Dirs /\ Owned(d)
  BY <1>1 DEF putBuildManifest, Items, Dirs, Scopes, Owned
<1>3. r \in Requests
  BY <1>2 DEF Requests
<1> HIDE DEF d
<1>4. Handle(v, r)
  BY DEF putBuildManifest, d
<1>5. pull'[v] = r
  BY <1>3, <1>4, HandleEffect
<1>6. RequestOwn(v)'
  BY <1>2, <1>5, PutRequest
<1> QED BY <1>3, <1>4, <1>6, HandleEffect DEF Answers

LEMMA GuestAnswers ==
  ASSUME Scoped, NEW v \in Guests, GuestStep(v)
  PROVE  Answers(v)
<1>1. ASSUME PatchUpload(v) PROVE Answers(v)
  <2>1. PICK c \in Blobs \cap Has[RepoOf[v]] :
          serveUpload(v, IF uploads[v] = {} THEN {c} ELSE {Bad})
    BY <1>1 DEF PatchUpload
  <2> QED BY <2>1, UploadAnswers
<1>2. ASSUME serveUpload(v, {}) PROVE Answers(v)
  BY <1>2, UploadAnswers
<1>3. ASSUME Refused(v) \/ PutMismatch(v) PROVE Answers(v)
  BY <1>3, EndAnswers DEF Refused, PutMismatch
<1> QED BY <1>1, <1>2, <1>3, PullAnswers, OpenAnswers, FetchAnswers, FetchFailsAnswers,
           PutAnswers, PushAnswers, BuildAnswers DEF GuestStep

-----------------------------------------------------------------------------
(* The other steps take files off the disk or move guests. *)

Lossy == data' \in [Dirs -> Items \cup {Bad, Nothing}]
         /\ \A d \in Dirs : data'[d] \in {data[d], Nothing}

LEMMA RemoveIsLossy ==
  ASSUME Typed, NEW M, NEW D, Remove(M, D)
  PROVE  Lossy
BY DEF Remove, Lossy, Typed

Removes == (\E d \in Dirs : EvictOne(d)) \/ PutDone \/ ApplyCacheOps

LEMMA RemovesIsLossy ==
  ASSUME Typed, Removes
  PROVE  Lossy /\ UNCHANGED gateway
<1>1. CASE PutDone
  BY <1>1 DEF PutDone, Lossy, Typed
<1>2. CASE (\E d \in Dirs : EvictOne(d)) \/ ApplyCacheOps
  <2>1. PICK M, D : Remove(M, D)
    BY <1>2 DEF EvictOne, ApplyCacheOps, DeleteRepo, DeleteAll, RemoveAll, RemoveSome
  <2> QED BY <1>2, <2>1, RemoveIsLossy DEF EvictOne, ApplyCacheOps, DeleteRepo, DeleteAll
<1> QED BY <1>1, <1>2 DEF Removes

(* Requests and uploads stay or end; every guest has what it had, or nothing. *)
Quiet ==
  /\ Typed'
  /\ \A v \in Guests : /\ pull'[v] \in {pull[v], Nothing}
                       /\ uploads'[v] \in {uploads[v], Nothing}
                       /\ got'[v] \in {got[v], Nothing}
  /\ \A d \in Dirs : data'[d] \in {data[d], Nothing}
  /\ BindsOwn'

LEMMA RemovesQuiet ==
  ASSUME Scoped, Removes
  PROVE  Quiet
BY RemovesIsLossy DEF Scoped, Typed, Lossy, gateway, BindsOwn, Quiet

LEMMA MovesQuiet ==
  ASSUME Scoped, NEW v \in Guests, Boot(v) \/ BindRemote(v) \/ UnbindRemote(v)
  PROVE  Quiet
<1>1. AddrOf[v] \in Addresses /\ RepoOf[v] \in Repos
  BY OCIConstants DEF Addresses
<1>2. CASE Boot(v)
  BY <1>2 DEF Boot, Scoped, Typed, Quiet, BindsOwn, store
<1>3. CASE BindRemote(v)
  BY <1>1, <1>3 DEF BindRemote, Scoped, Typed, Quiet, BindsOwn, store
<1>4. CASE UnbindRemote(v)
  BY <1>1, <1>4 DEF UnbindRemote, Scoped, Typed, Quiet, BindsOwn, store
<1> QED BY <1>2, <1>3, <1>4

LEMMA CrashQuiet ==
  ASSUME Scoped, Crash
  PROVE  Quiet
BY DEF Crash, Scoped, Typed, Quiet, BindsOwn

LEMMA StutterQuiet ==
  ASSUME Scoped, UNCHANGED ociVars
  PROVE  Quiet
BY DEF ociVars, Scoped, Typed, Quiet, BindsOwn

LEMMA StepKinds ==
  ASSUME Scoped, [OCINext]_ociVars
  PROVE  Quiet \/ \E v \in Guests : Answers(v)
BY GuestAnswers, RemovesQuiet, MovesQuiet, CrashQuiet, StutterQuiet DEF OCINext, Removes

-----------------------------------------------------------------------------
(* Contents stay with their entries. *)

LEMMA ScopedInit == OCIInit => Scoped
BY DEF OCIInit, Scoped, Typed, BindsOwn, GuestsOwn, RequestOwn, UploadOwn, DataOwn, Doing

LEMMA ScopedStep ==
  ASSUME Scoped, [OCINext]_ociVars
  PROVE  Scoped'
<1>1. CASE Quiet
  <2>1. ASSUME NEW v \in Guests PROVE RequestOwn(v)' /\ UploadOwn(v)'
    BY <1>1, <2>1 DEF Quiet, Scoped, GuestsOwn, RequestOwn, UploadOwn, Doing
  <2>2. DataOwn'
    BY <1>1 DEF Quiet, Scoped, DataOwn, Owned
  <2> QED BY <1>1, <2>1, <2>2 DEF Quiet, Scoped, GuestsOwn
<1>2. ASSUME NEW v \in Guests, Answers(v) PROVE Scoped'
  <2>1. ASSUME NEW w \in Guests PROVE RequestOwn(w)' /\ UploadOwn(w)'
    BY <1>2, <2>1 DEF Answers, Others, Scoped, GuestsOwn, RequestOwn, UploadOwn, Doing
  <2>2. DataOwn'
    BY <1>2 DEF Answers, Scoped, DataOwn, Owned
  <2>3. BindsOwn'
    BY <1>2 DEF Answers, Scoped, BindsOwn
  <2> QED BY <1>2, <2>1, <2>2, <2>3 DEF Answers, Scoped, GuestsOwn
<1> QED BY <1>1, <1>2, StepKinds

LEMMA StepImplements ==
  ASSUME Scoped, Scoped', [OCINext]_ociVars
  PROVE  [Abstract!CacheNext]_(Abstract!cacheVars)
<1>0. /\ DOMAIN data' = Dirs /\ data' = [d \in Dirs |-> data'[d]]
      /\ DOMAIN got' = Guests /\ got' = [v \in Guests |-> got'[v]]
  BY DEF Scoped, Typed
<1>1. CASE Quiet
  <2>1. Abstract!Lose
    BY <1>0, <1>1 DEF Quiet, Abstract!Lose
  <2> QED BY <2>1 DEF Abstract!CacheNext
<1>2. ASSUME NEW v \in Guests, Answers(v) PROVE Abstract!CacheNext \/ UNCHANGED <<data, got>>
  <2>1. CASE UNCHANGED data /\ got'[v] \in {got[v], Nothing}
    <3>1. Abstract!Lose
      BY <1>0, <1>2, <2>1 DEF Answers, Others, Abstract!Lose
    <3> QED BY <3>1 DEF Abstract!CacheNext
  <2>2. CASE UNCHANGED data
             /\ \E d \in {Public, RepoOf[v]} \X Items : got'[v] = data[d] /\ data[d] # Nothing
    <3>1. PICK d \in {Public, RepoOf[v]} \X Items : got'[v] = data[d] /\ data[d] # Nothing
      BY <2>2
    <3>2. d \in Dirs /\ got'[v] = d[2] /\ Owned(d)
      BY <3>1, OCIConstants DEF Scoped, DataOwn, Dirs, Scopes
    <3>3. got' = [got EXCEPT ![v] = got'[v]]
      BY <1>0, <1>2 DEF Answers, Others, Scoped, Typed
    <3>4. Abstract!Serve(v)
      BY <2>2, <3>1, <3>2, <3>3 DEF Abstract!Serve, Owned
    <3> QED BY <3>4 DEF Abstract!CacheNext
  <2>3. CASE got'[v] = got[v]
    <3>0. got' = got
      BY <1>0, <1>2, <2>3 DEF Answers, Others, Scoped, Typed
    <3>1. Abstract!Publish
      BY <3>0, <1>0, <1>2, <2>3 DEF Answers, Abstract!Publish, Owned
    <3> QED BY <3>1 DEF Abstract!CacheNext
  <2> QED BY <1>2, <2>1, <2>2, <2>3 DEF Answers
<1> QED BY <1>1, <1>2, StepKinds DEF Abstract!cacheVars

\* The registry cache implements the abstract cache: for any number of guests, addresses,
\* repositories and faults, an item is served with the content its digest names, nothing
\* private reaches the public scope, and no guest is given another repository's item.
THEOREM ImplementsScopedCache == OCISpec => OCICacheIsScoped
<1>1. OCIInit => Abstract!CacheInit
  BY DEF OCIInit, Abstract!CacheInit
<1>2. Scoped /\ [OCINext]_ociVars => Scoped'
  BY ScopedStep
<1>3. Scoped /\ Scoped' /\ [OCINext]_ociVars => [Abstract!CacheNext]_(Abstract!cacheVars)
  BY StepImplements
<1> QED
  BY <1>1, <1>2, <1>3, ScopedInit, PTL DEF OCISpec, OCICacheIsScoped, Abstract!CacheSpec

-----------------------------------------------------------------------------
(* Every blob with a meta.json is in the index. *)

\* Among a guest's steps only a put adds to the index, the total and the meta.json files.
LEMMA GuestKeepsIndex ==
  ASSUME NEW v \in Guests, GuestStep(v), ~Put(v)
  PROVE  UNCHANGED <<idx, total>> /\ meta' \subseteq meta
<1>1. ASSUME NEW scope, NEW i, Hit(v, scope, i)
      PROVE  UNCHANGED <<idx, total>> /\ meta' \subseteq meta
  BY <1>1 DEF Hit
<1>2. ASSUME NEW r, Handle(v, r) PROVE UNCHANGED <<idx, total>> /\ meta' \subseteq meta
  BY <1>2 DEF Handle, store
<1>3. ASSUME NEW body, serveUpload(v, body) PROVE UNCHANGED <<idx, total>> /\ meta' \subseteq meta
  BY <1>3 DEF serveUpload, store
<1> QED BY <1>1, <1>2, <1>3 DEF GuestStep, Pull, OpenBlob, Refused, Fetched, FetchFails,
           PutMismatch, PatchUpload, PutUpload, putBuildManifest, store

\* A directory leaves the index only together with its files; what a purge removes stays
\* in it, and a crash counts every meta.json anew.
THEOREM BlobsStayIndexed == OCISpec => []BlobsIndexed
<1>1. OCIInit => BlobsIndexed
  BY DEF OCIInit, BlobsIndexed
<1>2. BlobsIndexed /\ [OCINext]_ociVars => BlobsIndexed'
  <2> SUFFICES ASSUME BlobsIndexed, [OCINext]_ociVars PROVE BlobsIndexed'
    OBVIOUS
  <2> USE DEF BlobsIndexed
  <2>1. CASE idx' = idx /\ meta' \subseteq meta
    BY <2>1
  <2>4. ASSUME NEW v \in Guests, GuestStep(v), ~Put(v) PROVE BlobsIndexed'
    BY <2>1, <2>4, GuestKeepsIndex
  <2>5. ASSUME NEW v \in Guests, Put(v) PROVE BlobsIndexed'
    BY <2>5 DEF Put
  <2>6. ASSUME NEW v \in Guests, Boot(v) \/ BindRemote(v) \/ UnbindRemote(v)
        PROVE  idx' = idx /\ meta' \subseteq meta
    BY <2>6 DEF Boot, BindRemote, UnbindRemote, store
  <2>7. ASSUME NEW d \in Dirs, EvictOne(d) PROVE BlobsIndexed'
    BY <2>1, <2>7 DEF EvictOne, RemoveAll, RemoveSome, Remove
  <2>8. CASE PutDone \/ ApplyCacheOps
    BY <2>1, <2>8 DEF PutDone, ApplyCacheOps, DeleteRepo, DeleteAll, RemoveAll, RemoveSome, Remove
  <2>9. CASE Crash
    BY <2>9 DEF Crash, rebuildIndex
  <2>10. CASE UNCHANGED ociVars
    BY <2>10 DEF ociVars
  <2> QED BY <2>1, <2>4, <2>5, <2>6, <2>7, <2>8, <2>9, <2>10 DEF OCINext
<1> QED BY <1>1, <1>2, PTL DEF OCISpec

-----------------------------------------------------------------------------
(* The total and the index. *)

LEMMA DirsFinite == IsFiniteSet(Dirs)
<1>1. IsFiniteSet(Scopes)
  BY OCIConstants, FS_AddElement DEF Scopes
<1> QED BY <1>1, OCIConstants, FS_Product DEF Dirs

\* A step adds to the index what it adds to the total, or less; it takes a directory from
\* it with its size, leaves both alone, or counts anew.
IndexStep ==
  \/ UNCHANGED <<idx, total>> /\ meta' \subseteq meta
  \/ \E B \in SUBSET BlobDirs : /\ idx' = idx \cup B /\ total' = total + Cardinality(B)
                               /\ meta' \subseteq Dirs
  \/ \E d \in idx : idx' = idx \ {d} /\ total' = total - 1 /\ meta' \subseteq meta
  \/ idx' = meta /\ total' = Cardinality(meta) /\ meta' = meta

Counted ==
  /\ idx \in SUBSET Dirs /\ meta \in SUBSET Dirs /\ total \in Nat
  /\ TotalCoversIndex

LEMMA PutDirsTyped ==
  ASSUME Scoped, NEW v \in Guests, Put(v)
  PROVE  PutDirs(pull[v].dir) \subseteq Dirs
<1> DEFINE dir == pull[v].dir
<1>1. dir \in Dirs
  BY DEF Put, Doing, Scoped, Typed, Requests
<1>2. CASE dir \in BlobDirs
  BY <1>1, <1>2 DEF PutDirs
<1>3. CASE dir \notin BlobDirs
  <2>1. dir[1] \in Scopes /\ dir[2] \in Refs
    BY <1>1, <1>3 DEF Dirs, BlobDirs, Items
  <2>2. DigestOf[dir[2]] \in Items
    BY <2>1, OCIConstants DEF Items
  <2> QED BY <1>1, <1>3, <2>1, <2>2 DEF PutDirs, Dirs
<1> QED BY <1>2, <1>3

LEMMA IndexSteps ==
  ASSUME Scoped, Counted, [OCINext]_ociVars
  PROVE  IndexStep
<1>1. ASSUME NEW v \in Guests, GuestStep(v), ~Put(v) PROVE IndexStep
  BY <1>1, GuestKeepsIndex DEF IndexStep
<1>2. ASSUME NEW v \in Guests, Put(v) PROVE IndexStep
  <2> DEFINE dirs == PutDirs(pull[v].dir)
             B == dirs \cap BlobDirs
  <2>1. \/ idx' = idx \cup B /\ total' = total + Cardinality(B) /\ meta' = meta \cup dirs
        \/ UNCHANGED <<idx, total>> /\ meta' \subseteq meta
    BY <1>2 DEF Put
  <2>2. dirs \subseteq Dirs
    BY <1>2, PutDirsTyped
  <2>3. B \in SUBSET BlobDirs
    OBVIOUS
  <2> HIDE DEF dirs, B
  <2> QED BY <2>1, <2>2, <2>3 DEF IndexStep, Counted
<1>3. ASSUME NEW v \in Guests, Boot(v) \/ BindRemote(v) \/ UnbindRemote(v) PROVE IndexStep
  BY <1>3 DEF Boot, BindRemote, UnbindRemote, store, IndexStep
<1>4. ASSUME NEW d \in Dirs, EvictOne(d) PROVE IndexStep
  BY <1>4 DEF EvictOne, RemoveAll, RemoveSome, Remove, IndexStep
<1>5. CASE PutDone \/ ApplyCacheOps
  BY <1>5 DEF PutDone, ApplyCacheOps, DeleteRepo, DeleteAll, RemoveAll, RemoveSome, Remove,
     IndexStep
<1>6. CASE Crash
  BY <1>6 DEF Crash, rebuildIndex, IndexStep
<1>7. CASE UNCHANGED ociVars
  BY <1>7 DEF ociVars, store, IndexStep
<1> QED BY <1>1, <1>2, <1>3, <1>4, <1>5, <1>6, <1>7 DEF OCINext

LEMMA CountedStep ==
  ASSUME Counted, IndexStep
  PROVE  Counted'
<1>1. IsFiniteSet(idx) /\ IsFiniteSet(meta)
  BY DirsFinite, FS_Subset DEF Counted
<1>2. CASE UNCHANGED <<idx, total>> /\ meta' \subseteq meta
  BY <1>2 DEF Counted, TotalCoversIndex
<1>3. ASSUME NEW B \in SUBSET BlobDirs, idx' = idx \cup B, total' = total + Cardinality(B),
             meta' \subseteq Dirs
      PROVE  Counted'
  <2>1. BlobDirs \subseteq Dirs
    BY DEF BlobDirs, Dirs, Items
  <2>2. IsFiniteSet(B)
    BY <2>1, DirsFinite, FS_Subset
  <2>3. /\ Cardinality(idx) \in Nat /\ Cardinality(B) \in Nat
        /\ Cardinality(idx \cap B) \in Nat
    BY <1>1, <2>2, FS_CardinalityType, FS_Intersection
  <2>4. Cardinality(idx \cup B) = Cardinality(idx) + Cardinality(B) - Cardinality(idx \cap B)
    BY <1>1, <2>2, FS_Union
  <2>5. Cardinality(idx \cup B) <= total + Cardinality(B) /\ total + Cardinality(B) \in Nat
    BY <2>3, <2>4 DEF Counted, TotalCoversIndex
  <2> QED BY <1>3, <2>1, <2>5 DEF Counted, TotalCoversIndex
<1>4. ASSUME NEW d \in idx, idx' = idx \ {d}, total' = total - 1, meta' \subseteq meta
      PROVE  Counted'
  <2>1. Cardinality(idx \ {d}) = Cardinality(idx) - 1 /\ Cardinality(idx \ {d}) \in Nat
    BY <1>1, FS_RemoveElement, FS_CardinalityType
  <2>2. Cardinality(idx) \in Nat
    BY <1>1, FS_CardinalityType
  <2>3. Cardinality(idx \ {d}) <= total - 1 /\ total - 1 \in Nat
    BY <2>1, <2>2 DEF Counted, TotalCoversIndex
  <2> QED BY <1>4, <2>3 DEF Counted, TotalCoversIndex
<1>5. CASE idx' = meta /\ total' = Cardinality(meta) /\ meta' = meta
  <2>1. Cardinality(meta) \in Nat
    BY <1>1, FS_CardinalityType
  <2> QED BY <1>5, <2>1 DEF Counted, TotalCoversIndex
<1> QED BY <1>2, <1>3, <1>4, <1>5 DEF IndexStep

LEMMA CountedInvariant == OCISpec => [](Scoped /\ Counted)
<1>1. OCIInit => Counted
  BY FS_EmptySet DEF OCIInit, Counted, TotalCoversIndex
<1>2. Scoped /\ Counted /\ [OCINext]_ociVars => Scoped' /\ Counted'
  BY ScopedStep, IndexSteps, CountedStep
<1> QED BY <1>1, <1>2, ScopedInit, PTL DEF OCISpec

\* evictLocked never compares a total that is too small with the quota: a purge leaves the
\* total alone, a put of a blob that is indexed counts it twice, a removal that fails takes
\* nothing off, and rebuildIndex counts manifests too.
THEOREM TotalNeverBehind == OCISpec => []TotalCoversIndex
BY CountedInvariant, PTL DEF Counted

-----------------------------------------------------------------------------
(* All types. *)

OpTyped == op \in Guests \cup {Nothing} /\ faults \in 0..MaxFaults

LEMMA OpStep ==
  ASSUME OpTyped, [OCINext]_ociVars
  PROVE  OpTyped'
<1> USE DEF OpTyped
<1>1. Fault => faults' \in 0..MaxFaults
  BY OCIConstants DEF Fault
<1>2. Fine => faults' \in 0..MaxFaults
  BY DEF Fine
<1>3. ASSUME NEW v, NEW scope, NEW i, Hit(v, scope, i) PROVE (Fine \/ Fault) /\ op' = op
  BY <1>3 DEF Hit
<1>4. ASSUME NEW v, NEW r, Handle(v, r) PROVE (Fine \/ Fault) /\ op' = op
  BY <1>4 DEF Handle, store
<1>5. ASSUME NEW v, NEW body, serveUpload(v, body) PROVE (Fine \/ Fault) /\ op' = op
  BY <1>5 DEF serveUpload, store
<1>6. ASSUME NEW v \in Guests, GuestStep(v), ~Put(v) PROVE (Fine \/ Fault) /\ op' = op
  BY <1>3, <1>4, <1>5, <1>6 DEF GuestStep, Pull, OpenBlob, Refused, Fetched, FetchFails,
     PutMismatch, PatchUpload, PutUpload, putBuildManifest, store
<1>7. ASSUME NEW v \in Guests, Put(v) PROVE (Fine \/ Fault) /\ op' \in {op, v}
  BY <1>7 DEF Put
<1>8. ASSUME NEW v \in Guests, Boot(v) \/ BindRemote(v) \/ UnbindRemote(v)
      PROVE  Fine /\ op' = op
  BY <1>8 DEF Boot, BindRemote, UnbindRemote, store
<1>9. ASSUME NEW d \in Dirs, EvictOne(d) PROVE (Fine \/ Fault) /\ op' \in {op, Nothing}
  BY <1>9 DEF EvictOne, RemoveAll, RemoveSome
<1>10. CASE ApplyCacheOps
  <2>1. (Fine \/ Fault) /\ op' = op
    BY <1>10 DEF ApplyCacheOps, DeleteRepo, DeleteAll, RemoveAll, RemoveSome
  <2> QED BY <1>1, <1>2, <2>1
<1>11. CASE PutDone
  BY <1>2, <1>11 DEF PutDone
<1>12. CASE Crash
  BY <1>1, <1>12 DEF Crash
<1>13. CASE UNCHANGED ociVars
  BY <1>13 DEF ociVars, store
<1> QED BY <1>1, <1>2, <1>6, <1>7, <1>8, <1>9, <1>10, <1>11, <1>12, <1>13 DEF OCINext

\* The types of the store and of the gateway: the total stays a natural number although
\* evictions subtract from it what purges have removed before.
THEOREM OCITypesKept == OCISpec => []OCITypeOK
<1>1. OCIInit => OpTyped
  BY OCIConstants DEF OCIInit, OpTyped
<1>2. OpTyped /\ [OCINext]_ociVars => OpTyped'
  BY OpStep
<1>3. Scoped /\ Counted /\ OpTyped => OCITypeOK
  BY DEF Scoped, Typed, Counted, OCITypeOK, Requests, OpTyped
<1> QED BY <1>1, <1>2, <1>3, CountedInvariant, PTL DEF OCISpec

-----------------------------------------------------------------------------
(* The quota. *)

\* When a put returns, the blobs on disk fit the quota: they are indexed, and the total
\* that eviction has brought down to the quota covers the index.
THEOREM StoredFits == OCISpec => StoredWithinQuota
<1>1. ASSUME Counted, BlobsIndexed, PutDone
      PROVE  Cardinality(meta \cap BlobDirs) <= MaxBytes
  <2>1. IsFiniteSet(idx)
    BY <1>1, DirsFinite, FS_Subset DEF Counted
  <2>2. /\ Cardinality(meta \cap BlobDirs) <= Cardinality(idx)
        /\ IsFiniteSet(meta \cap BlobDirs)
    BY <1>1, <2>1, FS_Subset DEF BlobsIndexed
  <2>3. Cardinality(meta \cap BlobDirs) \in Nat /\ Cardinality(idx) \in Nat
    BY <2>1, <2>2, FS_CardinalityType
  <2>4. CASE total <= MaxBytes
    BY <1>1, <2>2, <2>3, <2>4, OCIConstants DEF Counted, TotalCoversIndex
  <2>5. CASE idx = {}
    BY <2>2, <2>3, <2>5, FS_EmptySet, OCIConstants
  <2> QED BY <1>1, <2>4, <2>5 DEF PutDone
<1>2. Counted /\ BlobsIndexed
      => [PutDone => Cardinality(meta \cap BlobDirs) <= MaxBytes]_ociVars
  BY <1>1
<1> QED BY <1>2, CountedInvariant, BlobsStayIndexed, PTL DEF StoredWithinQuota
=============================================================================
