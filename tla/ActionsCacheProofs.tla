-------------------------- MODULE ActionsCacheProofs --------------------------
(***************************************************************************)
(* Proofs about ActionsCache, for any guests, repositories, keys, uploads,  *)
(* payload sizes and any number of faults: ReadyIndexed, that the store   *)
(* and the gateway implement ScopedCache, that `total` is the sum over the  *)
(* index, so that it is a number, and that the quota bounds what is stored. *)
(***************************************************************************)
EXTENDS ActionsCache, SumTheorems

(* The types, without those of the sum and of the counter of faults. *)
OpType   == [step : {"meta", "clean", "evict"}, entry : Entries, upload : Uploads, size : Nat]
DownType == [step : {"url", "open"}, entry : Entries] \cup [step : {"got"}, payload : Payload]
UploadType == [entry : Entries, data : Payload \cup {Nothing}, blocks : SUBSET Nat]

Typed ==
  /\ meta \in [Entries -> Nat \cup {Nothing}]
  /\ data \in [Entries -> Payload \cup {Nothing}]
  /\ uploads \in [Uploads -> UploadType \cup {Nothing}]
  /\ idx \in [Entries -> Nat \cup {Nothing}]
  /\ op \in OpType \cup {Nothing}
  /\ down \in [Guests -> DownType \cup {Nothing}]

-----------------------------------------------------------------------------
(* Types. *)

\* CommitBlocks writes a number of blocks it has: the greatest of a bounded set exists.
LEMMA GreatestExists ==
  ASSUME NEW B \in Nat, NEW S \in SUBSET (0..B), S # {}
  PROVE  Max(S) \in S
<1> DEFINE D == {B - n : n \in S}
<1>0. \A n \in S : n \in 0..B
  OBVIOUS
<1>1. D \subseteq Nat
  BY <1>0
<1>2. D # {}
  OBVIOUS
<1>3. PICK d \in D : \A c \in D : ~(<<c, d>> \in OpToRel(<, Nat))
  <2> HIDE DEF D
  <2> QED BY <1>1, <1>2, NatLessThanWellFounded, WFMin
<1>4. \A c \in D : ~(c < d)
  BY <1>1, <1>3 DEF OpToRel
<1>5. PICK n \in S : d = B - n
  BY <1>3
<1>6. \A m \in S : B - m \in D
  OBVIOUS
<1>7. \A m \in S : n >= m
  BY <1>0, <1>4, <1>5, <1>6
<1> QED BY <1>7 DEF Max

LEMMA TypesInit == ActionsInit => Typed
BY DEF ActionsInit, Typed

(* Every payload written to an upload is for the entry of that upload. *)
LEMMA SetDataTypes ==
  ASSUME Typed, NEW g \in Guests, NEW u \in Uploads, NEW n \in Nat, Writes(g, u), SetData(u, n)
  PROVE  Typed'
BY DEF Typed, Writes, SetData, UploadType, Payload

LEMMA SaveTypes ==
  ASSUME Typed, NEW g \in Guests, SaveStep(g)
  PROVE  Typed'
<1>0. Blocks[g] \in Nat \ {0} /\ RepoOf[g] \in Repos
  BY CacheConstants
<1> PICK u \in Uploads :
    \/ WriteUpload(g, u) \/ CommitBlocks(g, u)
    \/ \E b \in 1..Blocks[g] : AppendUpload(g, u, b)
    \/ \E k \in Keys : Create(g, k, u) \/ \E d \in {0, Blocks[g]} : Finalize(g, k, u, d)
  BY DEF SaveStep
<1>1. CASE WriteUpload(g, u)
  BY <1>0, <1>1, SetDataTypes DEF WriteUpload
<1>2. CASE CommitBlocks(g, u)
  <2> DEFINE S == {n \in 0..Blocks[g] : 1..n \subseteq uploads[u].blocks}
  <2>1. S \in SUBSET (0..Blocks[g]) /\ 0 \in S
    BY <1>0
  <2> HIDE DEF S
  <2>2. Max(S) \in S
    <3>1. Blocks[g] \in Nat /\ S # {}
      BY <1>0, <2>1
    <3> QED BY <2>1, <3>1, GreatestExists, Zenon
  <2>3. Max(S) \in Nat
    <3>1. \A n \in 0..Blocks[g] : n \in Nat
      BY <1>0
    <3> QED BY <2>1, <2>2, <3>1, Zenon
  <2> QED BY <1>2, <2>3, SetDataTypes DEF CommitBlocks, S
<1>3. ASSUME NEW b \in 1..Blocks[g], AppendUpload(g, u, b) PROVE Typed'
  BY <1>0, <1>3 DEF Typed, AppendUpload, Writes, UploadType
<1>4. ASSUME NEW k \in Keys, Create(g, k, u) PROVE Typed'
  BY <1>0, <1>4 DEF Typed, Create, UploadType, Entries
<1>5. ASSUME NEW k \in Keys, NEW d \in {0, Blocks[g]}, Finalize(g, k, u, d) PROVE Typed'
  <2> DEFINE e == <<RepoOf[g], k>>
             s == IF d = 0 THEN uploads[u].data.n ELSE d
  <2>1. e \in Entries
    BY <1>0 DEF Entries
  <2>2. uploads[u] \in UploadType /\ uploads[u].data \in Payload
    BY <1>5 DEF Finalize, UploadsFor, Typed, UploadType
  <2>3. s \in Nat
    BY <1>0, <2>2 DEF Payload
  <2>4. data' \in [Entries -> Payload \cup {Nothing}]
    BY <1>5, <2>1, <2>2 DEF Finalize, Typed
  <2>5. uploads' \in [Uploads -> UploadType \cup {Nothing}]
    BY <1>5, <2>2 DEF Finalize, Typed, UploadType
  <2>6. op' \in OpType
    BY <1>5, <2>1, <2>3 DEF Finalize, OpType
  <2> QED BY <1>5, <2>4, <2>5, <2>6 DEF Finalize, Typed
<1> QED BY <1>1, <1>2, <1>3, <1>4, <1>5

LEMMA RemoveTypes ==
  ASSUME Typed, NEW M, NEW D, Remove(M, D)
  PROVE  /\ meta' \in [Entries -> Nat \cup {Nothing}]
         /\ data' \in [Entries -> Payload \cup {Nothing}]
BY DEF Typed, Remove

LEMMA ForgetTypes ==
  ASSUME Typed, NEW S, forgetLocked(S)
  PROVE  idx' \in [Entries -> Nat \cup {Nothing}]
BY DEF Typed, forgetLocked

LEMMA FinalizeTypes ==
  ASSUME Typed, FinalizeStep
  PROVE  Typed'
<1>1. CASE FinalizeMeta
  BY <1>1 DEF Typed, FinalizeMeta, At, Locked, OpType, rememberLocked
<1>2. CASE FinalizeClean
  BY <1>2 DEF Typed, FinalizeClean, At, Locked, OpType
<1>3. CASE FinalizeDone
  BY <1>3 DEF Typed, FinalizeDone
<1>4. ASSUME NEW e \in Entries, EvictOne(e) PROVE Typed'
  <2>1. CASE RemoveAll({e}) /\ forgetLocked({e}) /\ UNCHANGED op
    BY <1>4, <2>1, RemoveTypes, ForgetTypes DEF EvictOne, RemoveAll, Typed
  <2>2. CASE RemoveSome({e}) /\ op' = Nothing /\ UNCHANGED <<idx, total>>
    BY <1>4, <2>2, RemoveTypes DEF EvictOne, RemoveSome, Typed
  <2> QED BY <1>4, <2>1, <2>2 DEF EvictOne
<1> QED BY <1>1, <1>2, <1>3, <1>4 DEF FinalizeStep

(* The entry a lookup finds belongs to the guest's repository. *)
LEMMA LookupScoped ==
  ASSUME NEW r, NEW k, NEW R \in SUBSET Keys, NEW e \in lookupLocked(r, k, R)
  PROVE  e \in Ready /\ e \in {r} \X Keys
BY DEF lookupLocked, Ready, Entries

LEMMA RestoreTypes ==
  ASSUME Typed, NEW g \in Guests, RestoreStep(g)
  PROVE  Typed'
<1>1. ASSUME NEW k, NEW R \in SUBSET Keys, Get(g, k, R) PROVE Typed'
  <2>1. PICK e \in lookupLocked(RepoOf[g], k, R) :
          /\ meta' = meta \/ meta' = [meta EXCEPT ![e] = Nothing]
          /\ down' = [down EXCEPT ![g] = [step |-> "url", entry |-> e]]
    BY <1>1 DEF Get
  <2>2. e \in Entries
    BY <2>1, LookupScoped DEF Ready
  <2> QED BY <1>1, <2>1, <2>2 DEF Get, Typed, DownType
<1>2. CASE blobPath(g)
  BY <1>2 DEF Typed, blobPath, Doing, DownType
<1>3. CASE OpenBlob(g)
  BY <1>3 DEF Typed, OpenBlob, Doing, DownType
<1> QED BY <1>1, <1>2, <1>3 DEF RestoreStep

LEMMA PurgeTypes ==
  ASSUME Typed, ApplyCacheOps
  PROVE  Typed'
<1>1. ASSUME NEW r \in Repos, DeleteRepo(r) PROVE Typed'
  <2>1. PICK M, D : Remove(M, D)
    BY <1>1 DEF DeleteRepo, RemoveAll
  <2>2. PICK S : forgetLocked(S)
    BY <1>1 DEF DeleteRepo
  <2> QED BY <1>1, <2>1, <2>2, RemoveTypes, ForgetTypes DEF DeleteRepo, Typed
<1>2. CASE DeleteAll
  <2>1. PICK M, D : Remove(M, D)
    BY <1>2 DEF DeleteAll, RemoveAll, RemoveSome
  <2>2. idx' \in [Entries -> Nat \cup {Nothing}]
    BY <1>2, ForgetTypes DEF DeleteAll, Typed
  <2>3. uploads' \in [Uploads -> UploadType \cup {Nothing}]
    BY <1>2 DEF DeleteAll, Typed
  <2> QED BY <1>2, <2>1, <2>2, <2>3, RemoveTypes DEF DeleteAll, Typed
<1> QED BY <1>1, <1>2 DEF ApplyCacheOps

\* The store's and the gateway's variables keep their types in every step.
LEMMA TypesStep ==
  ASSUME Typed, [ActionsNext]_actionsVars
  PROVE  Typed'
<1>1. ASSUME NEW g \in Guests, BindRemote(g) PROVE Typed'
  BY <1>1 DEF Typed, BindRemote
<1>2. ASSUME NEW g \in Guests, UnbindRemote(g) PROVE Typed'
  BY <1>2 DEF Typed, UnbindRemote, Leave
<1>3. CASE Crash
  BY <1>3 DEF Typed, Crash, Leave, rebuildIndex, Ready
<1>4. CASE UNCHANGED actionsVars
  BY <1>4 DEF Typed, actionsVars
<1> QED BY <1>1, <1>2, <1>3, <1>4, SaveTypes, FinalizeTypes, RestoreTypes, PurgeTypes
        DEF ActionsNext

-----------------------------------------------------------------------------
(* The steps that take entries off the disk, or leave them alone. *)

Lossy ==
  \A e \in Entries : meta'[e] \in {meta[e], Nothing} /\ data'[e] \in {data[e], Nothing}

LEMMA RemoveIsLossy ==
  ASSUME NEW M, NEW D, Remove(M, D)
  PROVE  Lossy
BY DEF Remove, Lossy

LEMMA PurgeIsLossy ==
  ASSUME ApplyCacheOps
  PROVE  Lossy /\ UNCHANGED down /\ UNCHANGED op
         /\ \A u \in Uploads : uploads'[u] \in {uploads[u], Nothing}
<1>1. PICK M, D : Remove(M, D)
  BY DEF ApplyCacheOps, DeleteRepo, DeleteAll, RemoveAll, RemoveSome
<1>2. \A u \in Uploads : uploads'[u] \in {uploads[u], Nothing}
  BY DEF ApplyCacheOps, DeleteRepo, DeleteAll
<1> QED BY <1>1, <1>2, RemoveIsLossy DEF ApplyCacheOps, DeleteRepo, DeleteAll

LEMMA EvictIsLossy ==
  ASSUME NEW e, EvictOne(e)
  PROVE  Lossy /\ UNCHANGED <<down, uploads>>
<1>1. PICK M, D : Remove(M, D)
  BY DEF EvictOne, RemoveAll, RemoveSome
<1> QED BY <1>1, RemoveIsLossy DEF EvictOne

-----------------------------------------------------------------------------
(* Every ready entry is indexed. *)

\* No step leaves a ready entry outside the index: the index gains an entry in the step
\* that makes it ready, and loses it only together with, or after, its meta.json.
LEMMA ReadyIndexedStep ==
  ASSUME Typed, Typed', ReadyIndexed, [ActionsNext]_actionsVars
  PROVE  ReadyIndexed'
<1> USE DEF ReadyIndexed, Ready, Indexed
<1>1. ASSUME NEW g \in Guests, SaveStep(g) PROVE ReadyIndexed'
  BY <1>1 DEF SaveStep, WriteUpload, CommitBlocks, AppendUpload, Create, Finalize, SetData
<1>2. ASSUME NEW g \in Guests, RestoreStep(g) PROVE ReadyIndexed'
  <2>1. idx' = idx /\ \A e \in Entries : meta'[e] \in {meta[e], Nothing}
    BY <1>2 DEF RestoreStep, Get, blobPath, OpenBlob, Typed
  <2> QED BY <2>1
<1>3. ASSUME NEW g \in Guests, BindRemote(g) \/ UnbindRemote(g) PROVE ReadyIndexed'
  BY <1>3 DEF BindRemote, UnbindRemote
<1>4. CASE FinalizeMeta
  BY <1>4 DEF FinalizeMeta, rememberLocked, At, Locked, Typed, OpType
<1>5. CASE FinalizeClean \/ FinalizeDone
  BY <1>5 DEF FinalizeClean, FinalizeDone
<1>6. ASSUME NEW e \in Entries, EvictOne(e) PROVE ReadyIndexed'
  <2>1. CASE RemoveAll({e}) /\ forgetLocked({e})
    BY <2>1 DEF RemoveAll, Remove, forgetLocked
  <2>2. CASE RemoveSome({e}) /\ UNCHANGED idx
    BY <1>6, <2>2, EvictIsLossy DEF Lossy
  <2> QED BY <1>6, <2>1, <2>2 DEF EvictOne
<1>7. ASSUME NEW r \in Repos, DeleteRepo(r) PROVE ReadyIndexed'
  <2> DEFINE dirs == {e \in Entries : e[1] = r}
  <2>1. CASE RemoveAll(dirs) /\ forgetLocked(dirs \cap Ready)
    BY <2>1 DEF RemoveAll, Remove, forgetLocked
  <2>2. ASSUME NEW done \in SUBSET dirs, NEW M, NEW D,
               Remove(done \cup M, done \cup D), forgetLocked(done \cap Ready)
        PROVE  ReadyIndexed'
    BY <2>2 DEF Remove, forgetLocked
  <2> QED BY <1>7, <2>1, <2>2 DEF DeleteRepo
<1>8. CASE DeleteAll
  <2>1. CASE RemoveAll(Entries)
    BY <2>1 DEF RemoveAll, Remove
  <2>2. CASE RemoveSome(Entries) /\ UNCHANGED idx
    <3>1. PICK M, D : Remove(M, D)
      BY <2>2 DEF RemoveSome
    <3> QED BY <2>2, <3>1 DEF Remove
  <2> QED BY <1>8, <2>1, <2>2 DEF DeleteAll
<1>9. CASE Crash
  BY <1>9 DEF Crash, rebuildIndex
<1>10. CASE UNCHANGED actionsVars
  BY <1>10 DEF actionsVars
<1> QED BY <1>1, <1>2, <1>3, <1>4, <1>5, <1>6, <1>7, <1>8, <1>9, <1>10
        DEF ActionsNext, FinalizeStep, ApplyCacheOps

\* Whatever fails or dies half way, what a lookup can find is counted by the quota and
\* within the reach of eviction.
THEOREM ReadyIsIndexed == ActionsSpec => []ReadyIndexed
<1>1. ActionsInit => ReadyIndexed
  BY DEF ActionsInit, ReadyIndexed, Ready
<1>2. Typed /\ ReadyIndexed /\ [ActionsNext]_actionsVars => (Typed /\ ReadyIndexed)'
  BY TypesStep, ReadyIndexedStep
<1> QED BY <1>1, <1>2, TypesInit, PTL DEF ActionsSpec

-----------------------------------------------------------------------------
(* The total is the sum over the index. *)

LEMMA SizesFinite ==
  ASSUME Typed
  PROVE  /\ IsFiniteSet(Indexed) /\ IsFiniteSet(Ready)
         /\ \A e \in Indexed : idx[e] \in Nat
         /\ \A e \in Ready : meta[e] \in Nat
<1>1. IsFiniteSet(Entries)
  BY CacheConstants, FS_Product DEF Entries
<1>2. Indexed \subseteq Entries /\ Ready \subseteq Entries
  BY DEF Indexed, Ready
<1> QED BY <1>1, <1>2, FS_Subset DEF Typed, Indexed, Ready

LEMMA SameIndex ==
  ASSUME TotalIsIndexed, UNCHANGED <<idx, total>>
  PROVE  TotalIsIndexed'
BY DEF TotalIsIndexed, SizeIn, Indexed

(* A new entry adds its size, a replaced one the difference. *)
LEMMA RememberTotal ==
  ASSUME Typed, TotalIsIndexed, NEW e \in Entries, NEW n \in Nat, rememberLocked(e, n)
  PROVE  TotalIsIndexed'
<1> DEFINE T == Indexed \ {e}
<1>1. /\ IsFiniteSet(T) /\ e \notin T
      /\ \A k \in T : idx[k] \in Nat /\ idx'[k] = idx[k]
  <2>1. IsFiniteSet(Indexed) /\ \A k \in Indexed : idx[k] \in Nat
    BY SizesFinite
  <2>2. \A k \in Entries : k # e => idx'[k] = idx[k]
    BY DEF rememberLocked, Typed
  <2> QED BY <2>1, <2>2, FS_Subset DEF Indexed
<1>2. idx'[e] = n /\ Indexed' = T \cup {e}
  BY CacheConstants DEF rememberLocked, Typed, Indexed
<1>3. total' = total + n - IF idx[e] = Nothing THEN 0 ELSE idx[e]
  BY DEF rememberLocked
<1>4. e \in Indexed => Indexed = T \cup {e} /\ idx[e] \in Nat /\ idx[e] # Nothing
  BY DEF Indexed, Typed
<1>5. e \notin Indexed => Indexed = T /\ idx[e] = Nothing
  BY DEF Indexed
<1> HIDE DEF T
<1>6. PICK t \in Nat : t = SumFunctionOnSet(idx, T) /\ t = SumFunctionOnSet(idx', T)
  BY <1>1, SumType, SumSame
<1>7. SumFunctionOnSet(idx', Indexed') = t + n
  <2>1. SumFunctionOnSet(idx', T \cup {e}) = SumFunctionOnSet(idx', T) + idx'[e]
    BY <1>1, <1>2, SumAdd
  <2> QED BY <1>2, <1>6, <2>1
<1>8. CASE e \in Indexed
  <2>1. SumFunctionOnSet(idx, T \cup {e}) = SumFunctionOnSet(idx, T) + idx[e]
    BY <1>1, <1>4, <1>8, SumAdd
  <2>2. total = t + idx[e]
    BY <1>4, <1>6, <1>8, <2>1 DEF TotalIsIndexed, SizeIn
  <2>3. total' = total + n - idx[e] /\ idx[e] \in Nat
    BY <1>3, <1>4, <1>8
  <2>4. total' = t + n
    BY <2>2, <2>3
  <2> QED BY <1>7, <2>4 DEF TotalIsIndexed, SizeIn
<1>9. CASE e \notin Indexed
  <2>1. total = t /\ total' = total + n - 0
    BY <1>3, <1>5, <1>6, <1>9 DEF TotalIsIndexed, SizeIn
  <2>2. total' = t + n
    BY <2>1
  <2> QED BY <1>7, <2>2 DEF TotalIsIndexed, SizeIn
<1> QED BY <1>8, <1>9

(* What is forgotten is subtracted. *)
LEMMA ForgetTotal ==
  ASSUME Typed, TotalIsIndexed, NEW S, forgetLocked(S)
  PROVE  TotalIsIndexed'
<1>1. /\ Indexed' = Indexed \ (S \cap Indexed)
      /\ \A e \in Indexed' : idx'[e] = idx[e]
  BY DEF forgetLocked, Indexed
<1>2. IsFiniteSet(Indexed) /\ \A e \in Indexed : idx[e] \in Nat
  BY SizesFinite
<1>3. /\ SumFunctionOnSet(idx, S \cap Indexed) \in Nat
      /\ SumFunctionOnSet(idx, Indexed') \in Nat
      /\ SumFunctionOnSet(idx, Indexed)
           = SumFunctionOnSet(idx, S \cap Indexed) + SumFunctionOnSet(idx, Indexed')
  <2>1. /\ Indexed = (S \cap Indexed) \cup Indexed'
        /\ (S \cap Indexed) \cap Indexed' = {}
    BY <1>1
  <2> QED BY <1>2, <2>1, SumTwo
<1>4. SumFunctionOnSet(idx', Indexed') = SumFunctionOnSet(idx, Indexed')
  <2>1. IsFiniteSet(Indexed')
    BY <1>1, <1>2, FS_Subset
  <2> QED BY <1>1, <2>1, SumSame
<1>5. total' = SumFunctionOnSet(idx, Indexed) - SumFunctionOnSet(idx, S \cap Indexed)
  BY DEF forgetLocked, TotalIsIndexed, SizeIn
<1>6. total' = SumFunctionOnSet(idx, Indexed')
  BY <1>3, <1>5
<1> QED BY <1>1, <1>4, <1>6 DEF TotalIsIndexed, SizeIn

LEMMA RebuildTotal ==
  ASSUME Typed, rebuildIndex
  PROVE  TotalIsIndexed'
<1>1. Indexed' = Ready /\ \A e \in Ready : idx'[e] = meta[e]
  BY DEF rebuildIndex, Indexed, Ready
<1>2. SumFunctionOnSet(idx', Ready) = SumFunctionOnSet(meta, Ready)
  BY <1>1, SizesFinite, SumSame
<1> QED BY <1>1, <1>2 DEF rebuildIndex, TotalIsIndexed, SizeIn

\* Every step changes the total by what it changes in the index.
LEMMA TotalStep ==
  ASSUME Typed, TotalIsIndexed, [ActionsNext]_actionsVars
  PROVE  TotalIsIndexed'
<1>1. CASE FinalizeMeta
  <2>1. op.entry \in Entries /\ op.size \in Nat
    BY <1>1 DEF FinalizeMeta, At, Locked, Typed, OpType
  <2> QED BY <1>1, <2>1, RememberTotal, SameIndex DEF FinalizeMeta
<1>2. ASSUME NEW e \in Entries, EvictOne(e) PROVE TotalIsIndexed'
  BY <1>2, ForgetTotal, SameIndex DEF EvictOne
<1>3. ASSUME NEW r \in Repos, DeleteRepo(r) PROVE TotalIsIndexed'
  BY <1>3, ForgetTotal DEF DeleteRepo
<1>4. CASE DeleteAll
  BY <1>4, ForgetTotal, SameIndex DEF DeleteAll
<1>5. CASE Crash
  BY <1>5, RebuildTotal DEF Crash
<1>6. ASSUME NEW g \in Guests, SaveStep(g) \/ RestoreStep(g) \/ BindRemote(g) \/ UnbindRemote(g)
      PROVE  TotalIsIndexed'
  BY <1>6, SameIndex DEF SaveStep, WriteUpload, CommitBlocks, AppendUpload, Create, Finalize,
     SetData, RestoreStep, Get, blobPath, OpenBlob, BindRemote, UnbindRemote
<1>7. CASE FinalizeClean \/ FinalizeDone \/ UNCHANGED actionsVars
  BY <1>7, SameIndex DEF FinalizeClean, FinalizeDone, actionsVars
<1> QED BY <1>1, <1>2, <1>3, <1>4, <1>5, <1>6, <1>7
        DEF ActionsNext, FinalizeStep, ApplyCacheOps

LEMMA FaultsStep ==
  ASSUME faults \in 0..MaxFaults, binds \in SUBSET Guests, [ActionsNext]_actionsVars
  PROVE  faults' \in 0..MaxFaults /\ binds' \in SUBSET Guests
<1>1. Fault => faults' \in 0..MaxFaults
  BY CacheConstants DEF Fault
<1>2. Fine => faults' \in 0..MaxFaults
  BY DEF Fine
<1>3. ASSUME NEW S, Leave(S) PROVE binds' \in SUBSET Guests
  BY <1>3 DEF Leave
<1>4. ASSUME NEW g \in Guests, SaveStep(g) PROVE (Fault \/ Fine) /\ UNCHANGED binds
  BY <1>4 DEF SaveStep, WriteUpload, CommitBlocks, AppendUpload, Create, Finalize, SetData
<1>5. ASSUME NEW g \in Guests, RestoreStep(g) PROVE (Fault \/ Fine) /\ UNCHANGED binds
  BY <1>5 DEF RestoreStep, Get, blobPath, OpenBlob
<1>6. CASE FinalizeStep
  <2>1. (Fault \/ Fine) /\ UNCHANGED binds
    BY <1>6 DEF FinalizeStep, FinalizeMeta, FinalizeClean, FinalizeDone, EvictOne, RemoveAll,
       RemoveSome
  <2> QED BY <1>1, <1>2, <2>1
<1>7. CASE ApplyCacheOps
  <2>1. (Fault \/ Fine) /\ UNCHANGED binds
    BY <1>7 DEF ApplyCacheOps, DeleteRepo, DeleteAll, RemoveAll, RemoveSome
  <2> QED BY <1>1, <1>2, <2>1
<1>8. ASSUME NEW g \in Guests, BindRemote(g) \/ UnbindRemote(g)
      PROVE  Fine /\ binds' \in SUBSET Guests
  BY <1>3, <1>8 DEF BindRemote, UnbindRemote
<1>9. CASE Crash
  BY <1>1, <1>3, <1>9 DEF Crash
<1>10. CASE UNCHANGED actionsVars
  BY <1>10 DEF actionsVars
<1> QED BY <1>1, <1>2, <1>4, <1>5, <1>6, <1>7, <1>8, <1>9, <1>10 DEF ActionsNext

Counted == Typed /\ TotalIsIndexed /\ faults \in 0..MaxFaults /\ binds \in SUBSET Guests

LEMMA CountedInvariant == ActionsSpec => []Counted
<1>1. ActionsInit => Counted
  <2>1. ASSUME ActionsInit PROVE TotalIsIndexed
    <3>1. Indexed = {} /\ total = 0
      BY <2>1 DEF ActionsInit, Indexed
    <3> QED BY <3>1, SumEmpty DEF TotalIsIndexed, SizeIn
  <2> QED BY <2>1, TypesInit, CacheConstants DEF ActionsInit, Counted
<1>2. Counted /\ [ActionsNext]_actionsVars => Counted'
  BY TypesStep, TotalStep, FaultsStep DEF Counted
<1> QED BY <1>1, <1>2, PTL DEF ActionsSpec

\* s.total never drifts from the index, through replaced entries, evictions, purges,
\* removals that fail half way and restarts, however many there are.
THEOREM TotalNeverDrifts == ActionsSpec => []TotalIsIndexed
<1>1. Counted => TotalIsIndexed
  BY DEF Counted
<1> QED BY <1>1, CountedInvariant, PTL

\* The store's and the gateway's variables keep the types of the Go values; s.total
\* is never negative.
THEOREM ActionsTypesKept == ActionsSpec => []ActionsTypeOK
<1>1. ASSUME Counted PROVE ActionsTypeOK
  <2>1. total \in Nat
    BY <1>1, SizesFinite, SumType DEF Counted, TotalIsIndexed, SizeIn
  <2> QED BY <1>1, <2>1 DEF Counted, ActionsTypeOK, Typed, OpType, DownType, UploadType
<1> QED BY <1>1, CountedInvariant, PTL

\* A save that succeeds leaves the ready entries within cache_max_bytes, or its own
\* as the only one: what is ready is indexed, and the index sums up to the total.
THEOREM SaveWithinQuota == ActionsSpec => SavedWithinQuota
<1>1. ASSUME Typed, TotalIsIndexed, ReadyIndexed, FinalizeDone
      PROVE  SizeIn(meta, Ready) <= MaxBytes \/ Ready \subseteq {op.entry}
  <2>1. Ready \subseteq Indexed /\ \A e \in Ready : idx[e] = meta[e]
    BY <1>1 DEF ReadyIndexed
  <2>2. CASE Victims = {}
    BY <2>1, <2>2 DEF Victims
  <2>3. CASE total <= MaxBytes
    <3>1. SumFunctionOnSet(meta, Ready) = SumFunctionOnSet(idx, Ready)
      BY <1>1, <2>1, SizesFinite, SumSame
    <3>2. SumFunctionOnSet(idx, Ready) <= SumFunctionOnSet(idx, Indexed)
      BY <1>1, <2>1, SizesFinite, SumSubset
    <3>3. SumFunctionOnSet(idx, Ready) \in Nat /\ SumFunctionOnSet(idx, Indexed) \in Nat
      <4>1. \A e \in Ready : idx[e] \in Nat
        BY <1>1, <2>1, SizesFinite
      <4> QED BY <1>1, <4>1, SizesFinite, SumType
    <3>4. SumFunctionOnSet(idx, Indexed) <= MaxBytes
      BY <1>1, <2>3 DEF TotalIsIndexed, SizeIn
    <3> QED BY <3>1, <3>2, <3>3, <3>4, CacheConstants DEF SizeIn
  <2> QED BY <1>1, <2>2, <2>3 DEF FinalizeDone
<1>2. Counted => Typed /\ TotalIsIndexed
  BY DEF Counted
<1>3. [ActionsNext]_actionsVars /\ Typed /\ TotalIsIndexed /\ ReadyIndexed
        => [FinalizeDone => SizeIn(meta, Ready) <= MaxBytes \/ Ready \subseteq {op.entry}]_actionsVars
  BY <1>1
<1> QED
  BY <1>2, <1>3, CountedInvariant, ReadyIsIndexed, PTL DEF ActionsSpec, SavedWithinQuota

-----------------------------------------------------------------------------
(* Contents stay with their entries. *)

UploadsScoped ==
  \A u \in Uploads : uploads[u] # Nothing /\ uploads[u].data # Nothing
                       => uploads[u].data.for = uploads[u].entry

DataScoped == \A e \in Entries : data[e] # Nothing => data[e].for = e

UrlsScoped ==
  \A g \in Guests : Doing(g, "url") \/ Doing(g, "open") => down[g].entry \in {RepoOf[g]} \X Keys

Scoped == UploadsScoped /\ DataScoped /\ UrlsScoped

LEMMA UploadsScopedStep ==
  ASSUME Typed, Typed', UploadsScoped, [ActionsNext]_actionsVars
  PROVE  UploadsScoped'
<1> USE DEF UploadsScoped
<1>1. ASSUME NEW g \in Guests, NEW u \in Uploads, NEW n, Writes(g, u), SetData(u, n)
      PROVE  UploadsScoped'
  BY <1>1 DEF Writes, SetData, Typed, UploadType
<1>2. ASSUME NEW g \in Guests, NEW u \in Uploads, NEW b, AppendUpload(g, u, b)
      PROVE  UploadsScoped'
  BY <1>2 DEF AppendUpload, Writes, Typed, UploadType
<1>3. ASSUME NEW g \in Guests, NEW u \in Uploads, NEW k, Create(g, k, u)
      PROVE  UploadsScoped'
  BY <1>3 DEF Create, Typed
<1>4. ASSUME NEW g \in Guests, NEW u \in Uploads, NEW k, NEW d, Finalize(g, k, u, d)
      PROVE  UploadsScoped'
  BY <1>4 DEF Finalize, UploadsFor, Typed, UploadType
<1>5. ASSUME NEW g \in Guests, SaveStep(g) PROVE UploadsScoped'
  BY <1>1, <1>2, <1>3, <1>4, <1>5 DEF SaveStep, WriteUpload, CommitBlocks
<1>6. CASE FinalizeClean
  BY <1>6 DEF FinalizeClean, At, Locked, Typed, OpType
<1>7. CASE FinalizeMeta \/ FinalizeDone \/ \E e \in Entries : EvictOne(e)
  BY <1>7 DEF FinalizeMeta, FinalizeDone, EvictOne
<1>8. CASE ApplyCacheOps
  BY <1>8, PurgeIsLossy
<1>9. ASSUME NEW g \in Guests, RestoreStep(g) \/ BindRemote(g) \/ UnbindRemote(g)
      PROVE  UploadsScoped'
  BY <1>9 DEF RestoreStep, Get, blobPath, OpenBlob, BindRemote, UnbindRemote
<1>10. CASE Crash \/ UNCHANGED actionsVars
  BY <1>10 DEF Crash, actionsVars
<1> QED BY <1>5, <1>6, <1>7, <1>8, <1>9, <1>10 DEF ActionsNext, FinalizeStep

LEMMA DataScopedStep ==
  ASSUME Typed, UploadsScoped, DataScoped, [ActionsNext]_actionsVars
  PROVE  DataScoped'
<1> USE DEF DataScoped
<1>1. ASSUME Lossy PROVE DataScoped'
  BY <1>1 DEF Lossy
<1>2. ASSUME UNCHANGED data PROVE DataScoped'
  BY <1>2
<1>3. ASSUME NEW g \in Guests, NEW u \in Uploads, NEW k, NEW d, Finalize(g, k, u, d)
      PROVE  DataScoped'
  BY <1>3 DEF Finalize, UploadsFor, UploadsScoped, Typed
<1>4. ASSUME NEW g \in Guests, SaveStep(g) PROVE DataScoped'
  BY <1>2, <1>3, <1>4 DEF SaveStep, WriteUpload, CommitBlocks, AppendUpload, Create, SetData
<1>5. CASE FinalizeMeta \/ FinalizeClean \/ FinalizeDone
  BY <1>2, <1>5 DEF FinalizeMeta, FinalizeClean, FinalizeDone
<1>6. ASSUME NEW g \in Guests, RestoreStep(g) \/ BindRemote(g) \/ UnbindRemote(g)
      PROVE  DataScoped'
  BY <1>2, <1>6 DEF RestoreStep, Get, blobPath, OpenBlob, BindRemote, UnbindRemote
<1>7. CASE Crash \/ UNCHANGED actionsVars
  BY <1>2, <1>7 DEF Crash, actionsVars
<1> QED BY <1>1, <1>4, <1>5, <1>6, <1>7, PurgeIsLossy, EvictIsLossy DEF ActionsNext, FinalizeStep

LEMMA UrlsScopedStep ==
  ASSUME Typed, UrlsScoped, [ActionsNext]_actionsVars
  PROVE  UrlsScoped'
<1> USE DEF UrlsScoped, Doing
<1>1. ASSUME NEW g \in Guests, NEW k, NEW R \in SUBSET Keys, Get(g, k, R) PROVE UrlsScoped'
  <2>1. PICK e \in lookupLocked(RepoOf[g], k, R) :
          down' = [down EXCEPT ![g] = [step |-> "url", entry |-> e]]
    BY <1>1 DEF Get
  <2>2. e \in {RepoOf[g]} \X Keys
    BY LookupScoped
  <2> QED BY <2>1, <2>2 DEF Typed
<1>2. ASSUME NEW g \in Guests, blobPath(g) PROVE UrlsScoped'
  BY <1>2 DEF blobPath, Typed, DownType
<1>3. ASSUME NEW g \in Guests, OpenBlob(g) PROVE UrlsScoped'
  BY <1>3 DEF OpenBlob, Typed
<1>4. ASSUME NEW S, Leave(S) PROVE UrlsScoped'
  BY <1>4 DEF Leave
<1>5. ASSUME UNCHANGED down PROVE UrlsScoped'
  BY <1>5
<1>6. ASSUME NEW g \in Guests, SaveStep(g) \/ BindRemote(g) PROVE UrlsScoped'
  BY <1>5, <1>6 DEF SaveStep, WriteUpload, CommitBlocks, AppendUpload, Create, Finalize, SetData,
                    BindRemote
<1>7. CASE FinalizeMeta \/ FinalizeClean \/ FinalizeDone \/ UNCHANGED actionsVars
  BY <1>5, <1>7 DEF FinalizeMeta, FinalizeClean, FinalizeDone, actionsVars
<1> QED BY <1>1, <1>2, <1>3, <1>4, <1>5, <1>6, <1>7, PurgeIsLossy, EvictIsLossy
        DEF ActionsNext, FinalizeStep, RestoreStep, UnbindRemote, Crash

-----------------------------------------------------------------------------
(* Every step is a step of the abstract cache. *)

Content(e) == IF e \in Ready THEN data[e] ELSE Nothing
Got(g)     == IF Doing(g, "got") THEN down[g].payload ELSE Nothing

Kept == \A g \in Guests : Got(g)' \in {Got(g), Nothing}

LEMMA LoseStep ==
  ASSUME Kept, \A e \in Entries : Content(e)' \in {Content(e), Nothing}
  PROVE  Abstract!CacheNext
BY DEF Abstract!CacheNext, Abstract!Lose, Kept, Got, Content

LEMMA PublishStep ==
  ASSUME NEW e \in Entries, Content(e)' \in Payload, Content(e)'.for = e,
         \A k \in Entries \ {e} : Content(k)' = Content(k),
         UNCHANGED down
  PROVE  Abstract!CacheNext
BY DEF Abstract!CacheNext, Abstract!Publish, Content, Doing

LEMMA LossyStep ==
  ASSUME Lossy, Kept
  PROVE  Abstract!CacheNext
BY LoseStep DEF Lossy, Content, Ready

LEMMA LeaveKeeps ==
  ASSUME NEW S, Leave(S)
  PROVE  Kept
BY DEF Leave, Kept, Got, Doing

LEMMA SaveImplements ==
  ASSUME Typed, UploadsScoped, NEW g \in Guests, SaveStep(g)
  PROVE  Abstract!CacheNext
<1>1. CASE UNCHANGED <<meta, data, down>>
  BY <1>1, LossyStep DEF Lossy, Kept, Got, Doing
<1>2. ASSUME NEW u \in Uploads, NEW k \in Keys, NEW d, Finalize(g, k, u, d)
      PROVE  Abstract!CacheNext
  <2> DEFINE e == <<RepoOf[g], k>>
  <2>1. /\ e \in Entries
        /\ uploads[u].data \in Payload /\ uploads[u].data.for = e
        /\ data' = [data EXCEPT ![e] = uploads[u].data]
        /\ UNCHANGED <<meta, down>>
    BY <1>2, CacheConstants DEF Finalize, UploadsFor, UploadsScoped, Typed, UploadType, Entries
  <2> HIDE DEF e
  <2>2. \A k1 \in Entries \ {e} : Content(k1)' = Content(k1)
    BY <2>1 DEF Content, Ready, Typed
  <2>3. CASE e \in Ready
    <3>1. Content(e)' = uploads[u].data
      BY <2>1, <2>3 DEF Content, Ready, Typed
    <3> QED BY <2>1, <2>2, <3>1, PublishStep
  <2>4. CASE e \notin Ready
    <3>1. Content(e)' = Content(e)
      BY <2>1, <2>4 DEF Content, Ready
    <3> QED BY <2>1, <2>2, <3>1, LoseStep DEF Kept, Got, Doing
  <2> QED BY <2>3, <2>4
<1> QED BY <1>1, <1>2 DEF SaveStep, WriteUpload, CommitBlocks, AppendUpload, Create, SetData

LEMMA FinalizeImplements ==
  ASSUME Typed, DataScoped, FinalizeMeta
  PROVE  Abstract!CacheNext
<1>1. PICK e \in Entries :
      /\ UNCHANGED <<data, down>>
      /\ \/ meta' = [meta EXCEPT ![e] = op.size]
         \/ meta' = [meta EXCEPT ![e] = Nothing]
  BY DEF FinalizeMeta, At, Locked, Typed, OpType
<1>2. \A k \in Entries \ {e} : Content(k)' = Content(k)
  BY <1>1 DEF Content, Ready, Typed
<1>3. Content(e)' \in {data[e], Nothing}
  BY <1>1 DEF Content, Ready
<1>4. CASE Content(e)' = Nothing
  BY <1>1, <1>2, <1>4, LoseStep DEF Kept, Got, Doing
<1>5. CASE Content(e)' # Nothing
  <2>1. Content(e)' \in Payload /\ Content(e)'.for = e
    BY <1>1, <1>3, <1>5 DEF DataScoped, Typed
  <2> QED BY <1>1, <1>2, <2>1, PublishStep
<1> QED BY <1>4, <1>5

LEMMA RestoreImplements ==
  ASSUME Typed, Typed', DataScoped, UrlsScoped, NEW g \in Guests, RestoreStep(g)
  PROVE  Abstract!CacheNext
<1>1. ASSUME NEW k, NEW R, Get(g, k, R) PROVE Abstract!CacheNext
  <2>1. Lossy
    BY <1>1 DEF Get, Lossy, Typed
  <2>2. PICK e : down' = [down EXCEPT ![g] = [step |-> "url", entry |-> e]]
    BY <1>1 DEF Get
  <2>3. Kept
    BY <2>2 DEF Kept, Got, Doing, Typed
  <2> QED BY <2>1, <2>3, LossyStep
<1>2. CASE blobPath(g)
  <2>1. Kept
    BY <1>2 DEF blobPath, Kept, Got, Doing, Typed, DownType
  <2> QED BY <1>2, <2>1, LossyStep DEF blobPath, Lossy
<1>3. CASE OpenBlob(g)
  <2> DEFINE p == data[down[g].entry]
  <2>1. down[g].entry \in {RepoOf[g]} \X Keys
    BY <1>3 DEF OpenBlob, UrlsScoped
  <2>2. down[g].entry \in Entries
    BY <2>1, CacheConstants DEF Entries
  <2>3. UNCHANGED <<meta, data>> /\ \A k \in Guests \ {g} : down'[k] = down[k]
    BY <1>3 DEF OpenBlob, Typed
  <2>4. Lossy /\ \A k \in Guests \ {g} : Got(k)' = Got(k)
    BY <2>3 DEF Lossy, Got, Doing
  <2>5. Got(g)' \in {p, Nothing}
    BY <1>3 DEF OpenBlob, Got, Doing, Typed
  <2>6. CASE Got(g)' = Nothing
    BY <2>4, <2>6, LossyStep DEF Kept
  <2>7. CASE Got(g)' # Nothing
    <3>1. Got(g)' \in Payload /\ Got(g)'.for = down[g].entry
      BY <2>2, <2>5, <2>7 DEF DataScoped, Typed
    <3>2. Abstract!Serve(g)
      BY <2>1, <2>3, <2>4, <3>1 DEF Abstract!Serve, Got, Ready
    <3> QED BY <3>2 DEF Abstract!CacheNext
  <2> QED BY <2>6, <2>7
<1> QED BY <1>1, <1>2, <1>3 DEF RestoreStep

LEMMA StepImplements ==
  ASSUME Typed, Typed', Scoped, [ActionsNext]_actionsVars
  PROVE  [Abstract!CacheNext]_(Abstract!cacheVars)
<1>1. ASSUME Lossy, UNCHANGED down PROVE Abstract!CacheNext
  BY <1>1, LossyStep DEF Kept, Got, Doing
<1>2. CASE FinalizeClean \/ FinalizeDone
  BY <1>1, <1>2 DEF FinalizeClean, FinalizeDone, Lossy
<1>3. ASSUME NEW e \in Entries, EvictOne(e) PROVE Abstract!CacheNext
  BY <1>1, <1>3, EvictIsLossy
<1>4. CASE ApplyCacheOps
  BY <1>1, <1>4, PurgeIsLossy
<1>5. ASSUME NEW g \in Guests, BindRemote(g) PROVE Abstract!CacheNext
  BY <1>1, <1>5 DEF BindRemote, Lossy
<1>6. ASSUME NEW g \in Guests, UnbindRemote(g) PROVE Abstract!CacheNext
  BY <1>6, LeaveKeeps, LossyStep DEF UnbindRemote, Lossy
<1>7. CASE Crash
  BY <1>7, LeaveKeeps, LossyStep DEF Crash, Lossy
<1>8. CASE UNCHANGED actionsVars
  BY <1>8 DEF actionsVars, Abstract!cacheVars, Ready, Doing
<1> QED BY <1>2, <1>3, <1>4, <1>5, <1>6, <1>7, <1>8,
           SaveImplements, FinalizeImplements, RestoreImplements
        DEF ActionsNext, FinalizeStep, Scoped

\* The store and the gateway implement the abstract cache: for any number of guests,
\* repositories, keys, uploads and faults, an entry holds only what was uploaded for that
\* repository and key, and a guest downloads only entries of its own repository.
THEOREM ImplementsScopedCache == ActionsSpec => ActionsCacheIsScoped
<1>1. ActionsInit => Scoped /\ Abstract!CacheInit
  BY DEF ActionsInit, Scoped, UploadsScoped, DataScoped, UrlsScoped, Doing, Ready,
         Abstract!CacheInit
<1>2. Typed /\ Scoped /\ [ActionsNext]_actionsVars => (Typed /\ Scoped)'
  BY TypesStep, UploadsScopedStep, DataScopedStep, UrlsScopedStep DEF Scoped
<1>3. Typed /\ Typed' /\ Scoped /\ [ActionsNext]_actionsVars
        => [Abstract!CacheNext]_(Abstract!cacheVars)
  BY StepImplements
<1> QED
  BY <1>1, <1>2, <1>3, TypesInit, PTL DEF ActionsSpec, ActionsCacheIsScoped, Abstract!CacheSpec
=============================================================================
