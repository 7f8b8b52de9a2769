---------------------------- MODULE WarmPoolProofs ----------------------------
(***************************************************************************)
(* Proofs about WarmPool, for any finite sets of ids and jobs and any      *)
(* limits.  The cap on VMs is checked under the lock, but a cold boot      *)
(* enters the map only after the lock was released and taken again: the    *)
(* proof is that the job moves from InFlight to Tracked in that step, and  *)
(* that no other step adds to either set without the check.  The second    *)
(* half is about whose VM it is: OwnInv ties the map, the host, the boot   *)
(* goroutines and the Bind callers together, through every release of the  *)
(* lock.                                                                   *)
(***************************************************************************)
EXTENDS WarmPool, SumTheorems

VMRec == [state : VMStates, job : Jobs \cup {NoJob}, shape : Shapes]

LEMMA NoVMType == NoVM \in VMRec /\ NoVM.state = "none"
BY PoolConstants DEF NoVM, VMRec, VMStates

(* What a step does to the VMs in the map: none comes in, or one of shape s. *)
KeepsVMs == \A k \in Tracked' : k \in Tracked /\ vms'[k].shape = vms[k].shape

AddsVM(s) ==
  \E id \in Ids : \A k \in Tracked' :
    \/ k \in Tracked /\ vms'[k].shape = vms[k].shape
    \/ k = id /\ vms'[k].shape = s

(* What Enter does to the map and to the set of VMs in it. *)
LEMMA EnterFacts ==
  ASSUME PoolTypeOK, NEW id \in Ids, NEW vm \in VMRec, Enter(id, vm)
  PROVE  /\ vms' \in [Ids -> VMRec] /\ older' \in SUBSET (Ids \X Ids)
         /\ AddsVM(vm.shape)
         /\ vm.state = "none" \/ (id \in Tracked /\ vm.shape = vms[id].shape) => KeepsVMs
<1>1. vms' = [vms EXCEPT ![id] = vm] /\ vms \in [Ids -> VMRec]
  BY DEF PoolTypeOK, Enter, VMRec
<1>2. older' \in SUBSET (Ids \X Ids)
  BY DEF PoolTypeOK, Enter, InState
<1>3. \A k \in Ids : k # id => vms'[k] = vms[k]
  BY <1>1
<1>4. vms'[id] = vm
  BY <1>1
<1>5. AddsVM(vm.shape)
  BY <1>3, <1>4 DEF AddsVM, Tracked
<1>6. vm.state = "none" \/ (id \in Tracked /\ vm.shape = vms[id].shape) => KeepsVMs
  BY <1>3, <1>4 DEF KeepsVMs, Tracked
<1> QED
  BY <1>1, <1>2, <1>5, <1>6

(* Changing the state, and the job, of an entry gives an entry. *)
LEMMA ExceptType ==
  ASSUME PoolTypeOK, NEW id \in Ids, NEW st \in VMStates, NEW j \in Jobs \cup {NoJob}
  PROVE  /\ [vms[id] EXCEPT !.state = st] \in VMRec
         /\ [vms[id] EXCEPT !.state = st, !.job = j] \in VMRec
         /\ [vms[id] EXCEPT !.state = st].shape = vms[id].shape
         /\ [vms[id] EXCEPT !.state = st, !.job = j].shape = vms[id].shape
<1>1. vms[id] \in VMRec
  BY DEF PoolTypeOK, VMRec
<1> QED
  BY <1>1 DEF VMRec

LEMMA MarkFacts ==
  ASSUME PoolTypeOK, NEW id \in Ids, id \in Tracked, MarkDestroying(id)
  PROVE  /\ vms' \in [Ids -> VMRec] /\ older' \in SUBSET (Ids \X Ids)
         /\ KeepsVMs
<1>1. /\ [vms[id] EXCEPT !.state = "destroying", !.job = NoJob] \in VMRec
      /\ [vms[id] EXCEPT !.state = "destroying", !.job = NoJob].shape = vms[id].shape
  BY ExceptType DEF VMStates
<1> QED
  BY <1>1, EnterFacts DEF MarkDestroying

LEMMA BeginFacts ==
  ASSUME PoolTypeOK, NEW a \in Actors, NEW id \in Ids, beginDestroy(a, id)
  PROVE  /\ vms' \in [Ids -> VMRec] /\ older' \in SUBSET (Ids \X Ids)
         /\ KeepsVMs
         /\ destroy' \in [Actors -> Ids \cup {NoId}]
<1>1. destroy' \in [Actors -> Ids \cup {NoId}]
  BY DEF beginDestroy, PoolTypeOK
<1>2. CASE id \in Tracked
  BY <1>1, <1>2, MarkFacts DEF beginDestroy
<1>3. CASE id \notin Tracked
  BY <1>1, <1>3 DEF beginDestroy, PoolTypeOK, VMRec, Tracked, KeepsVMs
<1> QED
  BY <1>2, <1>3

LEMMA BindFacts ==
  ASSUME PoolTypeOK, NEW j \in Jobs, NEW pc, NEW id, Bind(j, pc, id),
         (pc \in Free /\ id = NoId) \/ (pc \in Holding /\ id \in Ids)
  PROVE  /\ binds' \in [Jobs -> BindRec]
         /\ pc \notin {"create", "boot", "cleanup"} => InFlight' = InFlight \ {j}
         /\ InFlight' \subseteq InFlight \cup {j}
<1>1. binds' = [binds EXCEPT ![j] = [pc |-> pc, id |-> id]]
  BY DEF Bind
<1>2. binds' \in [Jobs -> BindRec]
  <2>1. [pc |-> pc, id |-> id] \in BindRec
    BY DEF BindRec
  <2> QED
    BY <1>1, <2>1 DEF PoolTypeOK
<1>3. \A k \in Jobs : k # j => binds'[k] = binds[k]
  BY <1>1 DEF PoolTypeOK
<1>4. binds'[j].pc = pc
  BY <1>1 DEF PoolTypeOK
<1> QED
  BY <1>2, <1>3, <1>4 DEF InFlight

LEMMA BindFree ==
  ASSUME PoolTypeOK, NEW j \in Jobs, NEW pc \in Free, Bind(j, pc, NoId)
  PROVE  /\ binds' \in [Jobs -> BindRec]
         /\ InFlight' \subseteq InFlight
<1>1. pc \notin {"create", "boot", "cleanup"}
  BY DEF Free
<1>2. binds' \in [Jobs -> BindRec] /\ InFlight' = InFlight \ {j}
  BY <1>1, BindFacts
<1> QED
  BY <1>2

-----------------------------------------------------------------------------
(* How a step may change what the limits count. *)

Full == Cardinality(Tracked) + Cardinality(InFlight)

Room(s) == Full < MaxTotalVMs /\ allocatedRAMLocked + MemOf[s] <= RAMBudget

Admits ==
  \/ KeepsVMs /\ InFlight' \subseteq InFlight
  \/ \E s \in Shapes : Room(s) /\ AddsVM(s) /\ InFlight' \subseteq InFlight
  \/ \E j \in Jobs : Room(ShapeOf[j]) /\ KeepsVMs /\ InFlight' \subseteq InFlight \cup {j}
  \/ \E j \in InFlight : AddsVM(ShapeOf[j]) /\ InFlight' = InFlight \ {j}

LEMMA AtMostOneMore ==
  ASSUME NEW S, IsFiniteSet(S), NEW T, NEW x, T \subseteq S \cup {x}
  PROVE  Cardinality(T) <= Cardinality(S) + 1
<1>1. IsFiniteSet(S \cup {x})
  BY FS_AddElement
<1>2. IsFiniteSet(T) /\ Cardinality(T) <= Cardinality(S \cup {x})
  BY <1>1, FS_Subset
<1>3. Cardinality(S \cup {x}) = IF x \in S THEN Cardinality(S) ELSE Cardinality(S) + 1
  BY FS_AddElement
<1>4. Cardinality(S) \in Nat /\ Cardinality(T) \in Nat /\ Cardinality(S \cup {x}) \in Nat
  BY <1>1, <1>2, FS_CardinalityType
<1> QED
  BY <1>2, <1>3, <1>4

LEMMA FiniteCounts ==
  /\ IsFiniteSet(Tracked) /\ IsFiniteSet(InFlight)
  /\ IsFiniteSet(Tracked') /\ IsFiniteSet(InFlight')
<1>1. /\ Tracked \subseteq Ids /\ Tracked' \subseteq Ids
      /\ InFlight \subseteq Jobs /\ InFlight' \subseteq Jobs
  BY DEF Tracked, InFlight
<1> QED
  BY <1>1, FS_Subset, PoolConstants

LEMMA CapKept ==
  ASSUME WithinMaxTotal, Admits
  PROVE  WithinMaxTotal'
<1>1. /\ IsFiniteSet(Tracked) /\ IsFiniteSet(InFlight)
      /\ IsFiniteSet(Tracked') /\ IsFiniteSet(InFlight')
  BY FiniteCounts
<1>2. /\ Cardinality(Tracked) \in Nat /\ Cardinality(InFlight) \in Nat
      /\ Cardinality(Tracked') \in Nat /\ Cardinality(InFlight') \in Nat
  BY <1>1, FS_CardinalityType
<1>3. KeepsVMs => Cardinality(Tracked') <= Cardinality(Tracked)
  <2>1. KeepsVMs => Tracked' \subseteq Tracked
    BY DEF KeepsVMs
  <2> QED
    BY <1>1, <2>1, FS_Subset
<1>4. InFlight' \subseteq InFlight => Cardinality(InFlight') <= Cardinality(InFlight)
  BY <1>1, FS_Subset
<1>5. \A j \in InFlight : Cardinality(InFlight \ {j}) = Cardinality(InFlight) - 1
  BY <1>1, FS_RemoveElement
<1>6. \A s : AddsVM(s) => Cardinality(Tracked') <= Cardinality(Tracked) + 1
  <2>1. \A s : AddsVM(s) => \E id \in Ids : Tracked' \subseteq Tracked \cup {id}
    BY DEF AddsVM
  <2> QED
    BY <1>1, <2>1, AtMostOneMore
<1>7. \A j \in Jobs : InFlight' \subseteq InFlight \cup {j}
        => Cardinality(InFlight') <= Cardinality(InFlight) + 1
  BY <1>1, AtMostOneMore
<1>8. (\E j \in InFlight : InFlight' = InFlight \ {j})
        => Cardinality(InFlight') = Cardinality(InFlight) - 1
  BY <1>5
<1>9. \/ KeepsVMs /\ InFlight' \subseteq InFlight
      \/ Full < MaxTotalVMs /\ (\E s : AddsVM(s)) /\ InFlight' \subseteq InFlight
      \/ Full < MaxTotalVMs /\ KeepsVMs /\ \E j \in Jobs : InFlight' \subseteq InFlight \cup {j}
      \/ (\E s : AddsVM(s)) /\ \E j \in InFlight : InFlight' = InFlight \ {j}
  BY DEF Admits, Room
<1>10. Cardinality(Tracked') + Cardinality(InFlight') <= MaxTotalVMs
  BY <1>2, <1>3, <1>4, <1>6, <1>7, <1>8, <1>9, PoolConstants DEF WithinMaxTotal, Full
<1> QED
  BY <1>10 DEF WithinMaxTotal

(* The memory of the VMs in the map and of the cold boots on their way.     *)
VMMem  == [id \in Ids |-> MemOf[vms[id].shape]]
JobMem == [j \in Jobs |-> MemOf[ShapeOf[j]]]

LEMMA MemTypes ==
  ASSUME PoolTypeOK
  PROVE  /\ \A id \in Ids : VMMem[id] \in Nat
         /\ SumFunctionOnSet(VMMem, Tracked) \in Nat
         /\ \A j \in Jobs : JobMem[j] \in Nat
         /\ SumFunctionOnSet(JobMem, InFlight) \in Nat
<1>1. \A id \in Ids : VMMem[id] \in Nat
  BY PoolConstants DEF VMMem, PoolTypeOK
<1>2. \A j \in Jobs : JobMem[j] \in Nat
  BY PoolConstants DEF JobMem
<1>3. Tracked \subseteq Ids /\ InFlight \subseteq Jobs
  BY DEF Tracked, InFlight
<1> QED
  BY <1>1, <1>2, <1>3, FiniteCounts, SumType

LEMMA MemTypesNext ==
  ASSUME PoolTypeOK'
  PROVE  /\ \A id \in Ids : VMMem'[id] \in Nat
         /\ SumFunctionOnSet(VMMem', Tracked') \in Nat
         /\ SumFunctionOnSet(JobMem, InFlight') \in Nat
<1>1. \A id \in Ids : VMMem'[id] \in Nat
  BY PoolConstants DEF VMMem, PoolTypeOK
<1>2. \A j \in Jobs : JobMem[j] \in Nat
  BY PoolConstants DEF JobMem
<1>3. Tracked' \subseteq Ids /\ InFlight' \subseteq Jobs
  BY DEF Tracked, InFlight
<1> QED
  BY <1>1, <1>2, <1>3, FiniteCounts, SumType

(* VMs that stay in the map with their shape take no more memory. *)
LEMMA KeptMem ==
  ASSUME PoolTypeOK, NEW T \in SUBSET Tracked', T \subseteq Tracked,
         \A k \in T : vms'[k].shape = vms[k].shape
  PROVE  SumFunctionOnSet(VMMem', T) <= SumFunctionOnSet(VMMem, Tracked)
<1>1. T \subseteq Ids /\ Tracked \subseteq Ids
  BY DEF Tracked
<1>2. IsFiniteSet(T)
  BY FiniteCounts, FS_Subset
<1>3. \A k \in T : VMMem'[k] = VMMem[k]
  BY <1>1 DEF VMMem
<1>4. SumFunctionOnSet(VMMem', T) = SumFunctionOnSet(VMMem, T)
  BY <1>2, <1>3, SumSame
<1>5. \A k \in Tracked : VMMem[k] \in Nat
  BY <1>1, MemTypes
<1>6. SumFunctionOnSet(VMMem, T) <= SumFunctionOnSet(VMMem, Tracked)
  BY <1>5, FiniteCounts, SumSubset
<1> QED
  BY <1>4, <1>6

LEMMA AddedMem ==
  ASSUME PoolTypeOK, PoolTypeOK', NEW s \in Shapes, AddsVM(s)
  PROVE  SumFunctionOnSet(VMMem', Tracked') <= SumFunctionOnSet(VMMem, Tracked) + MemOf[s]
<1>1. PICK id \in Ids : \A k \in Tracked' :
        \/ k \in Tracked /\ vms'[k].shape = vms[k].shape
        \/ k = id /\ vms'[k].shape = s
  BY DEF AddsVM
<1>2. /\ MemOf[s] \in Nat /\ SumFunctionOnSet(VMMem, Tracked) \in Nat
      /\ SumFunctionOnSet(VMMem', Tracked') \in Nat
  BY MemTypes, MemTypesNext, PoolConstants
<1>3. CASE \A k \in Tracked' : k \in Tracked /\ vms'[k].shape = vms[k].shape
  <2>1. SumFunctionOnSet(VMMem', Tracked') <= SumFunctionOnSet(VMMem, Tracked)
    BY <1>3, KeptMem
  <2> QED
    BY <1>2, <2>1
<1>4. CASE id \in Tracked' /\ vms'[id].shape = s
  <2> DEFINE T == Tracked' \ {id}
  <2>1. SumFunctionOnSet(VMMem', T) <= SumFunctionOnSet(VMMem, Tracked)
    <3>1. T \subseteq Tracked /\ \A k \in T : vms'[k].shape = vms[k].shape
      BY <1>1
    <3> QED
      BY <3>1, KeptMem
  <2>2. VMMem'[id] = MemOf[s]
    BY <1>4 DEF VMMem
  <2>3. /\ IsFiniteSet(T) /\ id \notin T /\ T \cup {id} = Tracked'
        /\ \A k \in T : VMMem'[k] \in Nat
    <3>1. Tracked' \subseteq Ids
      BY DEF Tracked
    <3>2. \A k \in Ids : VMMem'[k] \in Nat
      BY PoolConstants DEF VMMem, PoolTypeOK
    <3> QED
      BY <1>4, <3>1, <3>2, FiniteCounts, FS_Subset
  <2> HIDE DEF T
  <2>4. SumFunctionOnSet(VMMem', T \cup {id}) = SumFunctionOnSet(VMMem', T) + VMMem'[id]
    BY <1>2, <2>2, <2>3, SumAdd
  <2>5. PICK t \in Nat : t = SumFunctionOnSet(VMMem', T)
    BY <2>3, SumType
  <2>6. SumFunctionOnSet(VMMem', Tracked') = t + MemOf[s]
    BY <2>2, <2>3, <2>4, <2>5
  <2>7. t <= SumFunctionOnSet(VMMem, Tracked)
    BY <2>1, <2>5
  <2> QED
    BY <1>2, <2>5, <2>6, <2>7
<1> QED
  BY <1>1, <1>3, <1>4

LEMMA RAMKept ==
  ASSUME PoolTypeOK, PoolTypeOK', WithinRAMBudget, Admits
  PROVE  WithinRAMBudget'
<1> DEFINE v == SumFunctionOnSet(VMMem, Tracked)
           w == SumFunctionOnSet(VMMem', Tracked')
           c == SumFunctionOnSet(JobMem, InFlight)
           d == SumFunctionOnSet(JobMem, InFlight')
<1>1. allocatedRAMLocked = v + c /\ allocatedRAMLocked' = w + d
  BY DEF allocatedRAMLocked, VMMem, JobMem
<1>2. v \in Nat /\ w \in Nat /\ c \in Nat /\ d \in Nat /\ RAMBudget \in Nat
  BY MemTypes, MemTypesNext, PoolConstants
<1>3. /\ InFlight \subseteq Jobs /\ InFlight' \subseteq Jobs
      /\ \A j \in Jobs : JobMem[j] = MemOf[ShapeOf[j]] /\ MemOf[ShapeOf[j]] \in Nat
      /\ \A s \in Shapes : MemOf[s] \in Nat
      /\ \A j \in Jobs : ShapeOf[j] \in Shapes
  BY PoolConstants DEF InFlight, JobMem
<1>4. KeepsVMs => w <= v
  BY KeptMem DEF KeepsVMs
<1>5. \A s \in Shapes : AddsVM(s) => w <= v + MemOf[s]
  BY AddedMem
<1>6. InFlight' \subseteq InFlight => d <= c
  BY <1>3, FiniteCounts, SumSubset
<1>7. \A j \in Jobs : InFlight' \subseteq InFlight \cup {j} => d <= c + MemOf[ShapeOf[j]]
  <2> SUFFICES ASSUME NEW j \in Jobs, InFlight' \subseteq InFlight \cup {j}
               PROVE  d <= c + MemOf[ShapeOf[j]]
    OBVIOUS
  <2>1. CASE InFlight' \subseteq InFlight
    BY <1>2, <1>3, <1>6, <2>1
  <2>2. CASE j \in InFlight' /\ j \notin InFlight
    <3> DEFINE T == InFlight' \ {j}
    <3>1. T \subseteq InFlight /\ T \cup {j} = InFlight' /\ j \notin T /\ IsFiniteSet(T)
      BY <2>2, FiniteCounts, FS_Subset
    <3>2. \A k \in InFlight : JobMem[k] \in Nat
      BY <1>3
    <3> HIDE DEF T
    <3>3. SumFunctionOnSet(JobMem, T) <= c /\ SumFunctionOnSet(JobMem, T) \in Nat
      BY <3>1, <3>2, FiniteCounts, SumSubset, SumType
    <3>4. SumFunctionOnSet(JobMem, T \cup {j}) = SumFunctionOnSet(JobMem, T) + JobMem[j]
      BY <1>3, <3>1, <3>2, SumAdd
    <3>5. PICK t \in Nat : t = SumFunctionOnSet(JobMem, T)
      BY <3>3
    <3>6. t <= c /\ d = t + MemOf[ShapeOf[j]]
      BY <1>3, <3>1, <3>3, <3>4, <3>5
    <3> HIDE DEF c, d
    <3> QED
      BY <1>2, <1>3, <3>5, <3>6
  <2> QED
    BY <2>1, <2>2
<1>8. \A j \in InFlight : InFlight' = InFlight \ {j} => c = d + MemOf[ShapeOf[j]]
  <2> SUFFICES ASSUME NEW j \in InFlight, InFlight' = InFlight \ {j}
               PROVE  c = d + MemOf[ShapeOf[j]]
    OBVIOUS
  <2> DEFINE T == InFlight \ {j}
  <2>1. T \cup {j} = InFlight /\ j \notin T /\ IsFiniteSet(T) /\ \A k \in T : JobMem[k] \in Nat
    BY <1>3, FiniteCounts, FS_Subset
  <2>2. InFlight' = T
    OBVIOUS
  <2> HIDE DEF T
  <2>3. SumFunctionOnSet(JobMem, T \cup {j}) = SumFunctionOnSet(JobMem, T) + JobMem[j]
    BY <1>3, <2>1, SumAdd
  <2> QED
    BY <1>3, <2>1, <2>2, <2>3
<1> HIDE DEF v, w, c, d
<1>9. v + c <= RAMBudget
  BY <1>1 DEF WithinRAMBudget
<1>10. w + d <= RAMBudget
  <2>1. CASE KeepsVMs /\ InFlight' \subseteq InFlight
    BY <1>2, <1>4, <1>6, <1>9, <2>1
  <2>2. CASE \E s \in Shapes : Room(s) /\ AddsVM(s) /\ InFlight' \subseteq InFlight
    <3>1. PICK s \in Shapes : v + c + MemOf[s] <= RAMBudget /\ AddsVM(s) /\ InFlight' \subseteq InFlight
      BY <1>1, <2>2 DEF Room
    <3>2. w <= v + MemOf[s] /\ d <= c
      BY <1>5, <1>6, <3>1
    <3> QED
      BY <1>2, <1>3, <3>1, <3>2
  <2>3. CASE \E j \in Jobs : Room(ShapeOf[j]) /\ KeepsVMs /\ InFlight' \subseteq InFlight \cup {j}
    <3>1. PICK j \in Jobs : /\ v + c + MemOf[ShapeOf[j]] <= RAMBudget
                            /\ KeepsVMs /\ InFlight' \subseteq InFlight \cup {j}
      BY <1>1, <2>3 DEF Room
    <3>2. w <= v /\ d <= c + MemOf[ShapeOf[j]]
      BY <1>4, <1>7, <3>1
    <3> QED
      BY <1>2, <1>3, <3>1, <3>2
  <2>4. CASE \E j \in InFlight : AddsVM(ShapeOf[j]) /\ InFlight' = InFlight \ {j}
    <3>1. PICK j \in InFlight : AddsVM(ShapeOf[j]) /\ InFlight' = InFlight \ {j}
      BY <2>4
    <3>2. w <= v + MemOf[ShapeOf[j]] /\ c = d + MemOf[ShapeOf[j]]
      BY <1>3, <1>5, <1>8, <3>1
    <3> QED
      BY <1>2, <1>3, <1>9, <3>2
  <2> QED
    BY <2>1, <2>2, <2>3, <2>4 DEF Admits
<1> QED
  BY <1>1, <1>10 DEF WithinRAMBudget

-----------------------------------------------------------------------------
(* Every action keeps the types and admits. *)

LEMMA SameMap == ASSUME vms' = vms PROVE Tracked' = Tracked /\ KeepsVMs
BY DEF Tracked, KeepsVMs

LEMMA SameBinds == ASSUME binds' = binds PROVE InFlight' = InFlight
BY DEF InFlight

Good == PoolTypeOK' /\ Admits

LEMMA JobGood ==
  ASSUME PoolTypeOK, NEW j \in Jobs, JobStep(j)
  PROVE  Good
<1> USE DEF VMRec
<1> DEFINE v == binds[j].id
<1>t. binds[j].pc \in Holding => v \in Ids
  BY DEF PoolTypeOK, BindRec, Free, Holding
<1>1. CASE BindCall(j) \/ BindStopped(j) \/ BindNoCapacity(j)
  <2>1. \E pc \in {"pick", "done"} : Bind(j, pc, NoId)
    BY <1>1 DEF BindCall, BindStopped, BindNoCapacity
  <2>2. /\ binds' \in [Jobs -> BindRec]
        /\ InFlight' \subseteq InFlight
    BY <2>1, BindFree DEF Free
  <2>3. UNCHANGED <<life, vms, older, host, boots, destroy, recon, drain, kill, shut, tainted>>
    BY <1>1 DEF BindCall, BindStopped, BindNoCapacity
  <2> QED
    BY <2>2, <2>3, SameMap DEF Good, Admits, PoolTypeOK
<1>2. CASE BindWarm(j)
  <2>1. PICK id \in pickWarmLocked(ShapeOf[j]) :
          /\ Enter(id, [vms[id] EXCEPT !.state = "busy", !.job = j])
          /\ Bind(j, "start", id)
    BY <1>2 DEF BindWarm
  <2>2. id \in Ids /\ id \in Tracked
    BY DEF pickWarmLocked, OfShape, InState, Tracked
  <2>3. /\ [vms[id] EXCEPT !.state = "busy", !.job = j] \in VMRec
        /\ [vms[id] EXCEPT !.state = "busy", !.job = j].shape = vms[id].shape
    BY <2>2, ExceptType DEF VMStates
  <2>4. /\ vms' \in [Ids -> VMRec] /\ older' \in SUBSET (Ids \X Ids)
        /\ KeepsVMs
    BY <2>1, <2>2, <2>3, EnterFacts
  <2>5. /\ binds' \in [Jobs -> BindRec]
        /\ InFlight' \subseteq InFlight
    BY <2>1, <2>2, BindFacts DEF Holding
  <2>6. UNCHANGED <<life, host, boots, destroy, recon, drain, kill, shut, tainted>>
    BY <1>2 DEF BindWarm
  <2> QED
    BY <2>4, <2>5, <2>6 DEF Good, Admits, PoolTypeOK
<1>3. CASE \E id \in Ids : BindCold(j, id)
  <2>1. PICK id \in Ids : BindCold(j, id)
    BY <1>3
  <2>2. Bind(j, "create", id) /\ Room(ShapeOf[j])
    BY <2>1 DEF BindCold, canCreateLocked, Full, Room
  <2>3. /\ binds' \in [Jobs -> BindRec]
        /\ InFlight' \subseteq InFlight \cup {j}
    BY <2>2, BindFacts DEF Holding
  <2>4. UNCHANGED <<life, vms, older, host, boots, destroy, recon, drain, kill, shut, tainted>>
    BY <2>1 DEF BindCold
  <2> QED
    BY <2>2, <2>3, <2>4, SameMap DEF Good, Admits, PoolTypeOK
<1>4. CASE ColdCreate(j) \/ ColdBootFails(j)
  <2>1. /\ v \in Ids
        /\ \E pc \in Holding : Bind(j, pc, v)
        /\ j \in InFlight
    BY <1>4, <1>t DEF ColdCreate, ColdBootFails, Holding, InFlight
  <2>2. /\ binds' \in [Jobs -> BindRec]
        /\ InFlight' \subseteq InFlight
    BY <2>1, BindFacts
  <2>3. UNCHANGED <<life, vms, older, boots, destroy, recon, drain, kill, shut>>
    BY <1>4 DEF ColdCreate, ColdBootFails
  <2>4. host' \in SUBSET (host \cup {v}) /\ tainted' \in SUBSET tainted
    BY <1>4 DEF ColdCreate, ColdBootFails, CreateOK, CreateFails, TryDestroy
  <2>5. PoolTypeOK'
    BY <2>1, <2>2, <2>3, <2>4 DEF PoolTypeOK
  <2> QED
    BY <2>2, <2>3, <2>5, SameMap DEF Good, Admits
<1>5. CASE ColdCleanup(j)
  <2>1. Bind(j, "done", NoId)
    BY <1>5 DEF ColdCleanup
  <2>2. /\ binds' \in [Jobs -> BindRec]
        /\ InFlight' \subseteq InFlight
    BY <2>1, BindFree DEF Free
  <2>3. UNCHANGED <<life, vms, older, boots, destroy, recon, drain, kill, shut>>
    BY <1>5 DEF ColdCleanup
  <2>4. host' \in SUBSET host /\ tainted' \in SUBSET tainted
    BY <1>5 DEF ColdCleanup, TryDestroy
  <2>5. PoolTypeOK'
    BY <2>2, <2>3, <2>4 DEF PoolTypeOK
  <2> QED
    BY <2>2, <2>3, <2>5, SameMap DEF Good, Admits
<1>6. CASE ColdBooted(j)
  <2>1. v \in Ids /\ j \in InFlight
    BY <1>6, <1>t DEF ColdBooted, Holding, InFlight
  <2>2. UNCHANGED <<life, host, boots, destroy, recon, drain, kill, shut, tainted>>
    BY <1>6 DEF ColdBooted
  <2>3. \E pc \in {"start", "abandon"} : Bind(j, pc, v)
    BY <1>6 DEF ColdBooted
  <2>4. /\ binds' \in [Jobs -> BindRec]
        /\ InFlight' = InFlight \ {j}
    BY <2>1, <2>3, BindFacts DEF Holding
  <2>5. CASE life = "up"
    <3> DEFINE e == [state |-> "busy", job |-> j, shape |-> ShapeOf[j]]
    <3>1. Enter(v, e)
      BY <1>6, <2>5 DEF ColdBooted
    <3>2. e \in VMRec
      BY PoolConstants DEF VMStates
    <3>3. /\ vms' \in [Ids -> VMRec] /\ older' \in SUBSET (Ids \X Ids)
          /\ AddsVM(ShapeOf[j])
      BY <2>1, <3>1, <3>2, EnterFacts
    <3>4. PoolTypeOK'
      BY <2>2, <2>4, <3>3 DEF PoolTypeOK
    <3>5. Admits
      BY <2>1, <2>4, <3>3 DEF Admits
    <3> QED
      BY <3>4, <3>5 DEF Good
  <2>6. CASE life # "up"
    <3>1. UNCHANGED <<vms, older>>
      BY <1>6, <2>6 DEF ColdBooted
    <3> QED
      BY <2>2, <2>4, <3>1, SameMap DEF Good, Admits, PoolTypeOK
  <2> QED
    BY <2>5, <2>6
<1>7. CASE StartRunner(j)
  <2>1. v \in Ids
    BY <1>7, <1>t DEF StartRunner, Holding
  <2>2. /\ UNCHANGED <<life, host, boots, recon, drain, kill, shut>>
        /\ tainted' \in SUBSET (tainted \cup {v})
    BY <1>7 DEF StartRunner
  <2>3. \E pc \in {"bound", "destroy"} : Bind(j, pc, v)
    BY <1>7 DEF StartRunner
  <2>4. /\ binds' \in [Jobs -> BindRec]
        /\ InFlight' \subseteq InFlight
    BY <2>1, <2>3, BindFacts DEF Holding
  <2>5. /\ vms' \in [Ids -> VMRec] /\ older' \in SUBSET (Ids \X Ids)
        /\ KeepsVMs
        /\ destroy' \in [Actors -> Ids \cup {NoId}]
    <3>1. CASE UNCHANGED <<vms, older, destroy>>
      BY <3>1, SameMap DEF PoolTypeOK
    <3>2. CASE beginDestroy(j, v)
      BY <2>1, <3>2, BeginFacts DEF Actors
    <3> QED
      BY <1>7, <3>1, <3>2 DEF StartRunner
  <2>6. PoolTypeOK'
    BY <2>1, <2>2, <2>4, <2>5 DEF PoolTypeOK
  <2> QED
    BY <2>4, <2>5, <2>6 DEF Good, Admits
<1>8. CASE JobFinished(j)
  <2>1. v \in Ids
    BY <1>8, <1>t DEF JobFinished, Holding
  <2>2. UNCHANGED <<life, host, boots, recon, drain, kill, shut, tainted>>
    BY <1>8 DEF JobFinished
  <2>3. Bind(j, "destroy", v) \/ Bind(j, "done", NoId)
    BY <1>8 DEF JobFinished
  <2>4. /\ binds' \in [Jobs -> BindRec]
        /\ InFlight' \subseteq InFlight
    BY <2>1, <2>3, BindFacts, BindFree DEF Holding, Free
  <2>5. /\ vms' \in [Ids -> VMRec] /\ older' \in SUBSET (Ids \X Ids)
        /\ KeepsVMs
        /\ destroy' \in [Actors -> Ids \cup {NoId}]
    <3>1. CASE vms[v].state = "busy"
      <4>1. MarkDestroying(v) /\ destroy' = [destroy EXCEPT ![j] = v] /\ v \in Tracked
        BY <1>8, <2>1, <3>1 DEF JobFinished, Tracked
      <4> QED
        BY <2>1, <4>1, MarkFacts DEF PoolTypeOK
    <3>2. CASE vms[v].state # "busy"
      BY <1>8, <3>2, SameMap DEF JobFinished, PoolTypeOK
    <3> QED
      BY <3>1, <3>2
  <2> QED
    BY <2>2, <2>4, <2>5 DEF Good, Admits, PoolTypeOK
<1> QED
  BY <1>1, <1>2, <1>3, <1>4, <1>5, <1>6, <1>7, <1>8 DEF JobStep

LEMMA BootGood ==
  ASSUME PoolTypeOK, NEW id \in Ids, BootStep(id)
  PROVE  Good
<1> USE DEF VMRec
<1>1. CASE BootCreate(id) \/ BootCleanup(id)
  <2>1. /\ UNCHANGED <<life, vms, older, binds, destroy, recon, drain, kill, shut>>
        /\ host' \in SUBSET (host \cup {id}) /\ tainted' \in SUBSET tainted
        /\ boots' \in [Ids -> {"none", "create", "boot", "cleanup"}]
    BY <1>1 DEF BootCreate, BootCleanup, CreateOK, TryDestroy, SetBoot, PoolTypeOK
  <2> QED
    BY <2>1, SameMap, SameBinds DEF Good, Admits, PoolTypeOK
<1>2. CASE BootFails(id)
  <2>1. /\ UNCHANGED <<life, binds, destroy, recon, drain, kill, shut>>
        /\ host' \in SUBSET (host \cup {id}) /\ tainted' \in SUBSET tainted
        /\ boots' \in [Ids -> {"none", "create", "boot", "cleanup"}]
    BY <1>2 DEF BootFails, CreateFails, TryDestroy, SetBoot, PoolTypeOK
  <2>2. Enter(id, NoVM)
    BY <1>2 DEF BootFails
  <2>3. /\ vms' \in [Ids -> VMRec] /\ older' \in SUBSET (Ids \X Ids)
        /\ KeepsVMs
    BY <2>2, EnterFacts, NoVMType
  <2> QED
    BY <2>1, <2>3, SameBinds DEF Good, Admits, PoolTypeOK
<1>3. CASE BootWarm(id)
  <2>1. /\ UNCHANGED <<life, host, binds, destroy, recon, drain, kill, shut, tainted>>
        /\ boots' \in [Ids -> {"none", "create", "boot", "cleanup"}]
    BY <1>3 DEF BootWarm, SetBoot, PoolTypeOK
  <2>2. /\ vms' \in [Ids -> VMRec] /\ older' \in SUBSET (Ids \X Ids)
        /\ KeepsVMs
    <3>1. CASE id \in Tracked
      <4>1. /\ [vms[id] EXCEPT !.state = "warm"] \in VMRec
            /\ [vms[id] EXCEPT !.state = "warm"].shape = vms[id].shape
        BY ExceptType DEF VMStates
      <4>2. Enter(id, [vms[id] EXCEPT !.state = "warm"])
        BY <1>3, <3>1 DEF BootWarm
      <4> QED
        BY <3>1, <4>1, <4>2, EnterFacts
    <3>2. CASE id \notin Tracked
      BY <1>3, <3>2, SameMap DEF BootWarm, PoolTypeOK
    <3> QED
      BY <3>1, <3>2
  <2> QED
    BY <2>1, <2>2, SameBinds DEF Good, Admits, PoolTypeOK
<1> QED
  BY <1>1, <1>2, <1>3 DEF BootStep

LEMMA DestroyGood ==
  ASSUME PoolTypeOK, NEW a \in Actors, DestroyOK(a) \/ DestroyFails(a)
  PROVE  Good
<1> USE DEF VMRec
<1> DEFINE id == destroy[a]
<1>1. id \in Ids
  BY DEF PoolTypeOK, DestroyOK, DestroyFails
<1>2. /\ destroy' \in [Actors -> Ids \cup {NoId}]
      /\ UNCHANGED <<life, boots, recon, drain, kill, shut>>
  BY DEF PoolTypeOK, DestroyOK, DestroyFails, EndDestroy
<1>3. host' \in SUBSET host /\ tainted' \in SUBSET tainted
  BY DEF DestroyOK, DestroyFails
<1>4. binds' \in [Jobs -> BindRec] /\ InFlight' \subseteq InFlight
  <2>1. CASE a \in Jobs
    <3>1. Bind(a, "done", NoId)
      BY <2>1 DEF DestroyOK, DestroyFails, EndDestroy, Bind
    <3> QED
      BY <2>1, <3>1, BindFree DEF Free
  <2>2. CASE a \notin Jobs
    BY <2>2, SameBinds DEF DestroyOK, DestroyFails, EndDestroy, PoolTypeOK
  <2> QED
    BY <2>1, <2>2
<1>5. /\ vms' \in [Ids -> VMRec] /\ older' \in SUBSET (Ids \X Ids)
      /\ KeepsVMs
  <2>1. CASE DestroyOK(a)
    BY <1>1, <2>1, EnterFacts, NoVMType DEF DestroyOK
  <2>2. CASE DestroyFails(a) /\ id \in Tracked
    <3>1. /\ [vms[id] EXCEPT !.state = "destroying"] \in VMRec
          /\ [vms[id] EXCEPT !.state = "destroying"].shape = vms[id].shape
      BY <1>1, ExceptType DEF VMStates
    <3>2. Enter(id, [vms[id] EXCEPT !.state = "destroying"])
      BY <2>2 DEF DestroyFails
    <3> QED
      BY <1>1, <2>2, <3>1, <3>2, EnterFacts
  <2>3. CASE DestroyFails(a) /\ id \notin Tracked
    BY <2>3, SameMap DEF DestroyFails, PoolTypeOK
  <2> QED
    BY <2>1, <2>2, <2>3
<1> QED
  BY <1>2, <1>3, <1>4, <1>5 DEF Good, Admits, PoolTypeOK

LEMMA ReconcileGood ==
  ASSUME PoolTypeOK, ReconcileStep
  PROVE  Good
<1> USE DEF VMRec
<1>1. CASE \/ \E ids \in SUBSET Ids : retryDestroys(ids) \/ recycleIdle(ids)
           \/ replenish \/ EndOfPass
           \/ \E s \in Shapes : ShapeDone(s)
  <2> DEFINE R == [phase : {"idle", "retry", "recycle", "replenish"},
                   ids : SUBSET Ids, shapes : SUBSET Shapes]
  <2>1. UNCHANGED <<life, vms, older, host, boots, binds, destroy, drain, kill, shut, tainted>>
    BY <1>1 DEF retryDestroys, recycleIdle, replenish, EndOfPass, ShapeDone
  <2>2. recon' \in R
    <3>1. recon.shapes \in SUBSET Shapes /\ {s \in Shapes : MinReady[s] > 0} \in SUBSET Shapes
      BY DEF PoolTypeOK
    <3>2. CASE \E ids \in SUBSET Ids : retryDestroys(ids) \/ recycleIdle(ids)
      BY <3>2 DEF retryDestroys, recycleIdle, Reconcile
    <3>3. CASE replenish
      BY <3>1, <3>3 DEF replenish, Reconcile
    <3>4. CASE EndOfPass
      BY <3>4 DEF EndOfPass, Idle
    <3>5. CASE \E s \in Shapes : ShapeDone(s)
      BY <3>1, <3>5 DEF ShapeDone, Reconcile
    <3> QED
      BY <1>1, <3>2, <3>3, <3>4, <3>5
  <2> QED
    BY <2>1, <2>2, SameMap, SameBinds DEF Good, Admits, PoolTypeOK
<1>2. CASE \E id \in Ids : RetryOne(id)
  <2>1. PICK id \in Ids : RetryOne(id)
    BY <1>2
  <2>2. UNCHANGED <<life, vms, older, host, boots, binds, drain, kill, shut, tainted>>
    BY <2>1 DEF RetryOne
  <2>3. destroy' \in [Actors -> Ids \cup {NoId}]
    BY <2>1 DEF RetryOne, PoolTypeOK
  <2>4. recon' \in [phase : {"idle", "retry", "recycle", "replenish"},
                    ids : SUBSET Ids, shapes : SUBSET Shapes]
    <3>1. recon' = [phase |-> "retry", ids |-> recon.ids \ {id}, shapes |-> {}]
      BY <2>1 DEF RetryOne, Reconcile
    <3>2. recon.ids \ {id} \in SUBSET Ids
      BY DEF PoolTypeOK
    <3> QED
      BY <3>1, <3>2
  <2> QED
    BY <2>2, <2>3, <2>4, SameMap, SameBinds DEF Good, Admits, PoolTypeOK
<1>3. CASE \E id \in Ids : RecycleOne(id)
  <2>1. PICK id \in Ids : RecycleOne(id)
    BY <1>3
  <2>2. /\ UNCHANGED <<life, host, boots, binds, drain, kill, shut, tainted>>
        /\ recon' \in [phase : {"idle", "retry", "recycle", "replenish"},
                       ids : SUBSET Ids, shapes : SUBSET Shapes]
        /\ beginDestroy("recon", id)
    BY <2>1 DEF RecycleOne, Reconcile, PoolTypeOK
  <2>3. /\ vms' \in [Ids -> VMRec] /\ older' \in SUBSET (Ids \X Ids)
        /\ KeepsVMs
        /\ destroy' \in [Actors -> Ids \cup {NoId}]
    BY <2>2, BeginFacts DEF Actors
  <2> QED
    BY <2>2, <2>3, SameBinds DEF Good, Admits, PoolTypeOK
<1>4. CASE \E s \in Shapes, id \in Ids : reservePoolBoot(s, id)
  <2>1. PICK s \in Shapes, id \in Ids : reservePoolBoot(s, id)
    BY <1>4
  <2> DEFINE e == [state |-> "pool_boot", job |-> NoJob, shape |-> s]
  <2>2. /\ UNCHANGED <<life, host, binds, destroy, recon, drain, kill, shut, tainted>>
        /\ boots' \in [Ids -> {"none", "create", "boot", "cleanup"}]
        /\ Enter(id, e) /\ Room(s)
    BY <2>1 DEF reservePoolBoot, SetBoot, canCreateLocked, Full, Room, PoolTypeOK
  <2>3. e \in VMRec
    BY DEF VMStates
  <2>4. /\ vms' \in [Ids -> VMRec] /\ older' \in SUBSET (Ids \X Ids)
        /\ AddsVM(s)
    BY <2>2, <2>3, EnterFacts
  <2>5. PoolTypeOK'
    BY <2>2, <2>4 DEF PoolTypeOK
  <2>6. Admits
    BY <2>2, <2>4, SameBinds DEF Admits
  <2> QED
    BY <2>5, <2>6 DEF Good
<1> QED
  BY <1>1, <1>2, <1>3, <1>4 DEF ReconcileStep

LEMMA OperatorGood ==
  ASSUME PoolTypeOK, OperatorStep
  PROVE  Good
<1> USE DEF VMRec
<1>1. CASE DrainWarm
  <2>1. /\ UNCHANGED <<life, vms, older, host, boots, binds, destroy, recon, kill, shut, tainted>>
        /\ drain' \in SUBSET Ids
    BY <1>1 DEF DrainWarm, InState
  <2> QED
    BY <2>1, SameMap, SameBinds DEF Good, Admits, PoolTypeOK
<1>2. CASE \E id \in Ids : DrainOne(id)
  <2>1. PICK id \in Ids : DrainOne(id)
    BY <1>2
  <2>2. /\ UNCHANGED <<life, host, boots, binds, recon, kill, shut, tainted>>
        /\ drain' \in SUBSET Ids /\ beginDestroy("drain", id)
    BY <2>1 DEF DrainOne, PoolTypeOK
  <2>3. /\ vms' \in [Ids -> VMRec] /\ older' \in SUBSET (Ids \X Ids)
        /\ KeepsVMs
        /\ destroy' \in [Actors -> Ids \cup {NoId}]
    BY <2>2, BeginFacts DEF Actors
  <2> QED
    BY <2>2, <2>3, SameBinds DEF Good, Admits, PoolTypeOK
<1>3. CASE \E id \in Ids : KillVM(id)
  <2>1. /\ UNCHANGED <<life, vms, older, host, boots, binds, destroy, recon, drain, shut, tainted>>
        /\ kill' \in [id : Ids, busy : BOOLEAN]
    BY <1>3 DEF KillVM
  <2> QED
    BY <2>1, SameMap, SameBinds DEF Good, Admits, PoolTypeOK, NoKill
<1>4. CASE KillSeen
  <2>1. /\ UNCHANGED <<life, host, boots, binds, recon, drain, shut, tainted>>
        /\ kill' = NoKill /\ kill.id \in Ids
    BY <1>4 DEF KillSeen, PoolTypeOK
  <2>2. /\ vms' \in [Ids -> VMRec] /\ older' \in SUBSET (Ids \X Ids)
        /\ KeepsVMs
        /\ destroy' \in [Actors -> Ids \cup {NoId}]
    <3>1. CASE beginDestroy("kill", kill.id)
      BY <2>1, <3>1, BeginFacts DEF Actors
    <3>2. CASE UNCHANGED <<vms, older, destroy>>
      BY <3>2, SameMap DEF PoolTypeOK
    <3> QED
      BY <1>4, <3>1, <3>2 DEF KillSeen
  <2> QED
    BY <2>1, <2>2, SameBinds DEF Good, Admits, PoolTypeOK
<1> QED
  BY <1>1, <1>2, <1>3, <1>4 DEF OperatorStep

LEMMA ProcessGood ==
  ASSUME PoolTypeOK, ProcessStep
  PROVE  Good
<1> USE DEF VMRec
<1>1. CASE Start \/ Stop \/ Shutdown \/ \E id \in Ids : ShutdownOne(id)
  <2>1. /\ UNCHANGED <<vms, older, boots, binds, recon, drain, kill>>
        /\ life' \in {"down", "up", "stopping", "destroying"}
        /\ host' \in SUBSET host /\ tainted' \in SUBSET tainted
        /\ shut' \in SUBSET Ids
        /\ destroy' \in [Actors -> Ids \cup {NoId}]
    BY <1>1 DEF Start, Stop, Shutdown, ShutdownOne, Tracked, PoolTypeOK
  <2> QED
    BY <2>1, SameMap, SameBinds DEF Good, Admits, PoolTypeOK
<1>2. CASE Exit
  <2>1. vms' \in [Ids -> VMRec] /\ KeepsVMs
    BY <1>2, NoVMType DEF Exit, Tracked, KeepsVMs
  <2>2. binds' \in [Jobs -> BindRec] /\ InFlight' = {}
    <3>1. [pc |-> "done", id |-> NoId] \in BindRec
      BY DEF BindRec, Free
    <3> QED
      BY <1>2, <3>1 DEF Exit, InFlight, PoolTypeOK
  <2>3. PoolTypeOK'
    BY <1>2, <2>1, <2>2 DEF Exit, PoolTypeOK, Idle, NoKill
  <2> QED
    BY <2>1, <2>2, <2>3 DEF Good, Admits
<1> QED
  BY <1>1, <1>2 DEF ProcessStep

LEMMA PoolInductive ==
  ASSUME PoolTypeOK, WithinMaxTotal, WithinRAMBudget, [PoolNext]_poolVars
  PROVE  PoolTypeOK' /\ WithinMaxTotal' /\ WithinRAMBudget'
<1>1. CASE PoolNext
  <2>1. Good
    BY <1>1, JobGood, BootGood, DestroyGood, ReconcileGood, OperatorGood, ProcessGood DEF PoolNext
  <2> QED
    BY <2>1, CapKept, RAMKept DEF Good
<1>2. CASE UNCHANGED poolVars
  <2>1. PoolTypeOK' /\ Tracked' = Tracked /\ InFlight' = InFlight
    BY <1>2 DEF poolVars, PoolTypeOK, Tracked, InFlight
  <2>2. allocatedRAMLocked' = allocatedRAMLocked
    BY <1>2, <2>1 DEF poolVars, allocatedRAMLocked
  <2> QED
    BY <2>1, <2>2 DEF WithinMaxTotal, WithinRAMBudget
<1> QED
  BY <1>1, <1>2

LEMMA PoolInitial ==
  ASSUME PoolInit
  PROVE  PoolTypeOK /\ WithinMaxTotal /\ WithinRAMBudget
<1>1. PoolTypeOK
  <2>1. [pc |-> "idle", id |-> NoId] \in BindRec
    BY DEF BindRec, Free
  <2> QED
    BY <2>1, NoVMType DEF PoolInit, PoolTypeOK, VMRec, Idle, NoKill
<1>2. Tracked = {} /\ InFlight = {}
  BY NoVMType DEF PoolInit, Tracked, InFlight
<1>3. WithinMaxTotal
  BY <1>2, FS_EmptySet, PoolConstants DEF WithinMaxTotal
<1>4. WithinRAMBudget
  BY <1>2, SumEmpty, PoolConstants DEF WithinRAMBudget, allocatedRAMLocked
<1> QED
  BY <1>1, <1>3, <1>4

LEMMA PoolInvariant == PoolSpec => [](PoolTypeOK /\ WithinMaxTotal /\ WithinRAMBudget)
<1>1. PoolInit => PoolTypeOK /\ WithinMaxTotal /\ WithinRAMBudget
  BY PoolInitial
<1>2. (PoolTypeOK /\ WithinMaxTotal /\ WithinRAMBudget) /\ [PoolNext]_poolVars
        => (PoolTypeOK /\ WithinMaxTotal /\ WithinRAMBudget)'
  BY PoolInductive
<1> QED
  BY <1>1, <1>2, PTL DEF PoolSpec

\* The pool's variables keep their types, also while crashing and shutting down.
THEOREM PoolTypeCorrect == PoolSpec => []PoolTypeOK
BY PoolInvariant, PTL

\* The number of VMs in the map and cold boots under way never exceeds MaxTotalVMs,
\* for any number of jobs, shapes and failures (canCreateLocked's hard cap).
THEOREM CapRespected == PoolSpec => []WithinMaxTotal
BY PoolInvariant, PTL

\* The memory committed by admission, for VMs in the map and cold boots under way,
\* stays within the host's minus the reserve, for any shapes and any failures.
THEOREM RAMBudgetRespected == PoolSpec => []WithinRAMBudget
BY PoolInvariant, PTL

-----------------------------------------------------------------------------
(* Whose VM it is.  OneJobPerVM, JobVMTracked, BusyHasOwner and             *)
(* HostAccounted hold together or not at all: that StartRunner taints a VM  *)
(* in the map needs that nobody removed the entry and left the instance,    *)
(* that finishBootWarm offers a clean VM needs that no job holds it.        *)

(* No two jobs hold one VM. *)
OneHolder ==
  \A j, k \in Jobs : binds[j].id # NoId /\ binds[j].id = binds[k].id => j = k

(* A VM a job holds is neither on offer nor in a boot goroutine's hands. *)
HeldNotOffered ==
  \A id \in Ids, j \in Jobs : binds[j].id = id =>
    vms[id].state \notin {"warm", "pool_boot"} /\ boots[id] = "none"

(* A VM still booting is not on offer yet. *)
BootNotWarm ==
  \A id \in Ids : boots[id] # "none" => vms[id].state # "warm" /\ id \notin tainted

(* A VM with a JIT config is on the host, not on offer, and in the map. *)
TaintedKept ==
  /\ \A id \in tainted : id \in host /\ vms[id].state \notin {"warm", "pool_boot"}
  /\ life # "down" => \A id \in tainted : vms[id].state # "none"

(* A VM handed to a job stays in the map as long as it is on the host. *)
HandedOver ==
  \A j \in Jobs : binds[j].pc \in {"start", "bound", "destroy"} /\ binds[j].id \in host
                    => vms[binds[j].id].state # "none"

JobDestroys ==
  \A j \in Jobs : destroy[j] # NoId => binds[j].pc = "destroy" /\ binds[j].id = destroy[j]

BusyOwned ==
  \A id \in Ids : vms[id].state = "busy" =>
    \E j \in Jobs : vms[id].job = j /\ binds[j].id = id /\ binds[j].pc \in {"start", "bound"}

(* cleaner.Destroy of an untracked VM does what it says. *)
NoLeaks == MaxOrphans = 0 \/ ~DestroyMayFail

OnHostKnown ==
  NoLeaks /\ life # "down" =>
    \A id \in host : \/ vms[id].state # "none" \/ boots[id] # "none"
                     \/ \E j \in Jobs : binds[j].id = id

OwnInv ==
  /\ OneHolder /\ HeldNotOffered /\ BootNotWarm /\ TaintedKept
  /\ HandedOver /\ JobDestroys /\ BusyOwned /\ OnHostKnown

LEMMA OwnImplies ==
  ASSUME PoolTypeOK, OwnInv
  PROVE  OneJobPerVM /\ JobVMTracked /\ BusyHasOwner /\ (NoLeaks => HostAccounted)
<1>1. tainted \subseteq Ids /\ host \subseteq Ids
  BY DEF PoolTypeOK
<1>2. OneJobPerVM
  BY <1>1 DEF OwnInv, OneHolder, TaintedKept, OneJobPerVM, InState
<1>3. JobVMTracked
  BY <1>1 DEF OwnInv, TaintedKept, JobVMTracked, Tracked
<1>4. BusyHasOwner
  BY DEF OwnInv, BusyOwned, BusyHasOwner, InState
<1>5. NoLeaks => HostAccounted
  BY <1>1 DEF OwnInv, OnHostKnown, HostAccounted, Orphans, Accounted, Tracked
<1> QED
  BY <1>2, <1>3, <1>4, <1>5

(* Entry by entry: what Enter, beginDestroy, Bind and TryDestroy leave. *)
LEMMA EnterAt ==
  ASSUME PoolTypeOK, NEW id \in Ids, NEW vm, Enter(id, vm)
  PROVE  \A k \in Ids : vms'[k] = IF k = id THEN vm ELSE vms[k]
BY DEF PoolTypeOK, Enter

LEMMA ExceptAt ==
  ASSUME PoolTypeOK, NEW id \in Ids, NEW st, NEW j
  PROVE  /\ [vms[id] EXCEPT !.state = st].state = st
         /\ [vms[id] EXCEPT !.state = st].job = vms[id].job
         /\ [vms[id] EXCEPT !.state = st, !.job = j].state = st
         /\ [vms[id] EXCEPT !.state = st, !.job = j].job = j
<1>1. vms[id] \in VMRec
  BY DEF PoolTypeOK, VMRec
<1> QED
  BY <1>1 DEF VMRec

LEMMA BindAt ==
  ASSUME PoolTypeOK, NEW j \in Jobs, NEW pc, NEW id, Bind(j, pc, id)
  PROVE  /\ \A k \in Jobs : k # j => binds'[k] = binds[k]
         /\ binds'[j].pc = pc /\ binds'[j].id = id
BY DEF PoolTypeOK, Bind

(* The map after beginDestroy: the VM is destroying if it is in the map. *)
Marked(id) ==
  /\ \A k \in Ids : k # id => vms'[k] = vms[k]
  /\ vms'[id].state = IF vms[id].state = "none" THEN "none" ELSE "destroying"

LEMMA MarkedByMark ==
  ASSUME PoolTypeOK, NEW id \in Ids, id \in Tracked, MarkDestroying(id)
  PROVE  Marked(id)
<1>1. \A k \in Ids : vms'[k] = IF k = id THEN [vms[id] EXCEPT !.state = "destroying", !.job = NoJob] ELSE vms[k]
  BY EnterAt DEF MarkDestroying
<1>2. vms[id].state # "none"
  BY DEF Tracked
<1>3. \A k \in Ids : k # id => vms'[k] = vms[k]
  BY <1>1
<1>4. vms'[id].state = "destroying"
  <2>1. [vms[id] EXCEPT !.state = "destroying", !.job = NoJob].state = "destroying"
    BY ExceptAt
  <2> QED
    BY <1>1, <2>1
<1> QED
  BY <1>2, <1>3, <1>4 DEF Marked

LEMMA MarkedByBegin ==
  ASSUME PoolTypeOK, NEW a \in Actors, NEW id \in Ids, beginDestroy(a, id)
  PROVE  /\ Marked(id)
         /\ destroy' = [destroy EXCEPT ![a] = id]
<1>1. CASE id \in Tracked
  BY <1>1, MarkedByMark DEF beginDestroy
<1>2. CASE id \notin Tracked
  BY <1>2 DEF beginDestroy, Marked, Tracked
<1> QED
  BY <1>1, <1>2 DEF beginDestroy

(* The host after TryDestroy. *)
LEMMA TryDestroyAt ==
  ASSUME PoolTypeOK, NEW id \in Ids, TryDestroy(id)
  PROVE  /\ host \ {id} \subseteq host' /\ host' \subseteq host
         /\ tainted' = tainted \cap host'
         /\ NoLeaks => host' = host \ {id}
<1>1. IsFiniteSet(Orphans) /\ Cardinality(Orphans) \in Nat
  <2>1. Orphans \subseteq Ids
    BY DEF Orphans, PoolTypeOK
  <2> QED
    BY <2>1, FS_Subset, FS_CardinalityType, PoolConstants
<1>2. MaxOrphans = 0 => ~(Cardinality(Orphans) < MaxOrphans)
  BY <1>1
<1> QED
  BY <1>2 DEF TryDestroy, NoLeaks


(* A step that leaves the VMs, their holders and the host alone. *)
LEMMA OwnSame ==
  ASSUME PoolTypeOK, OwnInv, UNCHANGED <<vms, host, boots, binds, tainted>>,
         \A j \in Jobs : destroy'[j] = destroy[j],
         life' = life \/ life # "down"
  PROVE  OwnInv'
<1> USE DEF OwnInv
<1>1. OneHolder' /\ HeldNotOffered' /\ BootNotWarm' /\ TaintedKept'
  BY DEF OneHolder, HeldNotOffered, BootNotWarm, TaintedKept
<1>2. HandedOver' /\ JobDestroys' /\ BusyOwned'
  BY DEF HandedOver, JobDestroys, BusyOwned
<1>3. OnHostKnown'
  BY DEF OnHostKnown, NoLeaks
<1> QED
  BY <1>1, <1>2, <1>3

(* beginDestroy by one that is no job, whatever state the VM is in by now. *)
LEMMA OwnBegin ==
  ASSUME PoolTypeOK, OwnInv, UNCHANGED <<life, host, boots, binds, tainted>>,
         NEW a \in Actors \ Jobs, NEW id \in Ids, beginDestroy(a, id)
  PROVE  OwnInv'
<1>1. Marked(id) /\ destroy' = [destroy EXCEPT ![a] = id]
  BY MarkedByBegin
<1>2. \A j \in Jobs : destroy'[j] = destroy[j]
  BY <1>1 DEF Actors, PoolTypeOK
<1>3. \A k \in Ids : vms'[k].state \in {vms[k].state, "destroying"}
                     /\ (vms'[k].state = "none" <=> vms[k].state = "none")
                     /\ (vms'[k].state = "busy" => vms'[k] = vms[k])
  BY <1>1 DEF Marked
<1>4. tainted \subseteq Ids /\ host \subseteq Ids
  BY DEF PoolTypeOK
<1> USE DEF OwnInv
<1>5. OneHolder' /\ HeldNotOffered' /\ BootNotWarm' /\ TaintedKept'
  BY <1>3, <1>4 DEF OneHolder, HeldNotOffered, BootNotWarm, TaintedKept
<1>6. HandedOver' /\ JobDestroys' /\ BusyOwned'
  BY <1>2, <1>3, <1>4 DEF HandedOver, JobDestroys, BusyOwned
<1>7. OnHostKnown'
  BY <1>3, <1>4 DEF OnHostKnown, NoLeaks
<1> QED
  BY <1>5, <1>6, <1>7

LEMMA OperatorOwn ==
  ASSUME PoolTypeOK, OwnInv, OperatorStep
  PROVE  OwnInv'
<1>1. CASE DrainWarm \/ \E id \in Ids : KillVM(id)
  BY <1>1, OwnSame DEF DrainWarm, KillVM
<1>2. CASE \E id \in Ids : DrainOne(id)
  <2>1. PICK id \in Ids : DrainOne(id)
    BY <1>2
  <2> QED
    BY <2>1, OwnBegin, PoolConstants DEF DrainOne, Actors
<1>3. CASE KillSeen
  <2>1. kill.id \in Ids /\ UNCHANGED <<life, host, boots, binds, tainted>>
    BY <1>3 DEF KillSeen, PoolTypeOK
  <2>2. CASE beginDestroy("kill", kill.id)
    BY <2>1, <2>2, OwnBegin, PoolConstants DEF Actors
  <2>3. CASE UNCHANGED <<vms, older, destroy>>
    BY <2>1, <2>3, OwnSame
  <2> QED
    BY <1>3, <2>2, <2>3 DEF KillSeen
<1> QED
  BY <1>1, <1>2, <1>3 DEF OperatorStep

LEMMA ProcessOwn ==
  ASSUME PoolTypeOK, OwnInv, ProcessStep
  PROVE  OwnInv'
<1>1. CASE Stop \/ Shutdown
  BY <1>1, OwnSame DEF Stop, Shutdown
<1>2. CASE \E id \in Ids : ShutdownOne(id)
  <2>1. PICK id \in Ids : ShutdownOne(id)
    BY <1>2
  <2>2. \A j \in Jobs : destroy'[j] = destroy[j]
    BY <2>1, PoolConstants DEF ShutdownOne, PoolTypeOK, Actors
  <2> QED
    BY <2>1, <2>2, OwnSame DEF ShutdownOne
<1>3. CASE Start
  <2>1. /\ UNCHANGED <<vms, boots, binds, destroy>>
        /\ host' \subseteq host /\ tainted' = tainted \cap host'
        /\ life' # "down" => host' = {}
    BY <1>3 DEF Start
  <2>2. TaintedKept' /\ OnHostKnown'
    BY <2>1 DEF OwnInv, TaintedKept, OnHostKnown
  <2>3. OneHolder' /\ HeldNotOffered' /\ BootNotWarm'
    BY <2>1 DEF OwnInv, OneHolder, HeldNotOffered, BootNotWarm
  <2>4. HandedOver' /\ JobDestroys' /\ BusyOwned'
    BY <2>1 DEF OwnInv, HandedOver, JobDestroys, BusyOwned
  <2> QED
    BY <2>2, <2>3, <2>4 DEF OwnInv
<1>4. CASE Exit
  <2>1. /\ life' = "down" /\ UNCHANGED <<host, tainted>>
        /\ \A id \in Ids : vms'[id].state = "none" /\ boots'[id] = "none"
        /\ \A j \in Jobs : destroy'[j] = NoId
    BY <1>4, NoVMType DEF Exit, Actors
  <2>2. \A j \in Jobs : binds'[j].id = NoId /\ binds'[j].pc \in {"idle", "done"}
    <3>1. \A j \in Jobs : binds[j].pc = "idle" => binds[j].id = NoId
      BY DEF PoolTypeOK, BindRec, Holding
    <3> QED
      BY <1>4, <3>1 DEF Exit
  <2>3. TaintedKept' /\ OnHostKnown'
    BY <2>1 DEF OwnInv, TaintedKept, OnHostKnown, PoolTypeOK
  <2>4. OneHolder' /\ HeldNotOffered' /\ BootNotWarm'
    BY <2>1, <2>2, PoolConstants DEF OwnInv, OneHolder, HeldNotOffered, BootNotWarm
  <2>5. HandedOver' /\ JobDestroys' /\ BusyOwned'
    BY <2>1, <2>2 DEF OwnInv, HandedOver, JobDestroys, BusyOwned
  <2> QED
    BY <2>3, <2>4, <2>5 DEF OwnInv
<1> QED
  BY <1>1, <1>2, <1>3, <1>4 DEF ProcessStep


LEMMA ReconcileOwn ==
  ASSUME PoolTypeOK, OwnInv, ReconcileStep
  PROVE  OwnInv'
<1>1. CASE \/ \E ids \in SUBSET Ids : retryDestroys(ids) \/ recycleIdle(ids)
           \/ replenish \/ EndOfPass
           \/ \E s \in Shapes : ShapeDone(s)
  BY <1>1, OwnSame DEF retryDestroys, recycleIdle, replenish, EndOfPass, ShapeDone
<1>2. CASE \E id \in Ids : RetryOne(id)
  <2>1. PICK id \in Ids : RetryOne(id)
    BY <1>2
  <2>2. \A j \in Jobs : destroy'[j] = destroy[j]
    BY <2>1, PoolConstants DEF RetryOne, PoolTypeOK, Actors
  <2> QED
    BY <2>1, <2>2, OwnSame DEF RetryOne
<1>3. CASE \E id \in Ids : RecycleOne(id)
  <2>1. PICK id \in Ids : RecycleOne(id)
    BY <1>3
  <2> QED
    BY <2>1, OwnBegin, PoolConstants DEF RecycleOne, Actors
<1>4. CASE \E s \in Shapes, id \in Ids : reservePoolBoot(s, id)
  <2>1. PICK s \in Shapes, id \in Ids : reservePoolBoot(s, id)
    BY <1>4
  <2>2. /\ UNCHANGED <<life, host, binds, destroy, tainted>>
        /\ Fresh(id)
        /\ Enter(id, [state |-> "pool_boot", job |-> NoJob, shape |-> s])
        /\ boots' = [boots EXCEPT ![id] = "create"]
    BY <2>1 DEF reservePoolBoot, SetBoot
  <2>3. /\ \A k \in Ids : k # id => vms'[k] = vms[k] /\ boots'[k] = boots[k]
        /\ vms'[id].state = "pool_boot" /\ boots'[id] = "create"
    <3>1. \A k \in Ids : vms'[k] = IF k = id THEN [state |-> "pool_boot", job |-> NoJob, shape |-> s]
                                   ELSE vms[k]
      BY <2>2, EnterAt
    <3> QED
      BY <2>2, <3>1 DEF PoolTypeOK
  <2>4. id \notin host /\ id \notin tainted /\ \A j \in Jobs : binds[j].id # id
    BY <2>2 DEF Fresh, OwnInv, TaintedKept
  <2>5. tainted \subseteq Ids /\ host \subseteq Ids
    BY DEF PoolTypeOK
  <2>6. OneHolder' /\ HeldNotOffered' /\ BootNotWarm' /\ TaintedKept'
    BY <2>2, <2>3, <2>4, <2>5
       DEF OwnInv, OneHolder, HeldNotOffered, BootNotWarm, TaintedKept
  <2>7. HandedOver' /\ JobDestroys' /\ BusyOwned'
    BY <2>2, <2>3, <2>4, <2>5 DEF OwnInv, HandedOver, JobDestroys, BusyOwned
  <2>8. OnHostKnown'
    BY <2>2, <2>3, <2>4, <2>5 DEF OwnInv, OnHostKnown, NoLeaks
  <2> QED
    BY <2>6, <2>7, <2>8 DEF OwnInv
<1> QED
  BY <1>1, <1>2, <1>3, <1>4 DEF ReconcileStep

(* The boot goroutine is alone with its VM, but for the entry. *)
LEMMA BootOwn ==
  ASSUME PoolTypeOK, OwnInv, NEW id \in Ids, BootStep(id)
  PROVE  OwnInv'
<1>1. UNCHANGED <<life, binds, destroy>> /\ boots[id] # "none"
  BY DEF BootStep, BootCreate, BootFails, BootWarm, BootCleanup
<1>2. /\ \A j \in Jobs : binds[j].id # id
      /\ vms[id].state # "warm" /\ id \notin tainted
  BY <1>1 DEF OwnInv, HeldNotOffered, BootNotWarm
<1>3. vms[id].state # "busy"
  BY <1>2 DEF OwnInv, BusyOwned
<1>4. tainted \subseteq Ids /\ host \subseteq Ids
  BY DEF PoolTypeOK
<1>5. \A k \in Ids : k # id => boots'[k] = boots[k]
  BY DEF BootStep, BootCreate, BootFails, BootWarm, BootCleanup, SetBoot, PoolTypeOK
<1>6. \A k \in Ids : k # id => vms'[k] = vms[k]
  BY EnterAt DEF BootStep, BootCreate, BootFails, BootWarm, BootCleanup
<1>7. tainted' = tainted /\ host' \subseteq host \cup {id} /\ host \ {id} \subseteq host'
  <2>1. CASE TryDestroy(id)
    BY <1>2, <2>1, TryDestroyAt DEF OwnInv, TaintedKept
  <2>2. CASE UNCHANGED tainted /\ (host' = host \/ host' = host \cup {id})
    BY <2>2
  <2> QED
    BY <2>1, <2>2 DEF BootStep, BootCreate, BootFails, BootWarm, BootCleanup, CreateOK, CreateFails
<1>8. \/ boots'[id] # "none" /\ vms'[id].state \in {vms[id].state, "none"}
      \/ boots'[id] = "none" /\ vms'[id].state = "warm"
      \/ boots'[id] = "none" /\ vms'[id] = vms[id] /\ (NoLeaks => id \notin host')
  <2>1. CASE BootCreate(id)
    BY <2>1 DEF BootCreate, SetBoot, PoolTypeOK
  <2>2. CASE BootFails(id)
    <3>1. vms'[id] = NoVM /\ boots'[id] = "cleanup"
      BY <2>2, EnterAt DEF BootFails, SetBoot, PoolTypeOK
    <3> QED
      BY <3>1, NoVMType
  <2>3. CASE BootWarm(id)
    <3>1. CASE id \in Tracked
      <4>1. vms'[id] = [vms[id] EXCEPT !.state = "warm"] /\ boots'[id] = "none"
        BY <2>3, <3>1, EnterAt DEF BootWarm, SetBoot, PoolTypeOK
      <4> QED
        BY <4>1, ExceptAt
    <3>2. CASE id \notin Tracked
      BY <2>3, <3>2 DEF BootWarm, SetBoot, PoolTypeOK
    <3> QED
      BY <3>1, <3>2
  <2>4. CASE BootCleanup(id)
    <3>1. NoLeaks => host' = host \ {id}
      BY <2>4, TryDestroyAt DEF BootCleanup
    <3> QED
      BY <2>4, <3>1 DEF BootCleanup, SetBoot, PoolTypeOK
  <2> QED
    BY <2>1, <2>2, <2>3, <2>4 DEF BootStep
<1> USE DEF OwnInv
<1>9. OneHolder' /\ HeldNotOffered'
  BY <1>1, <1>2, <1>5, <1>6 DEF OneHolder, HeldNotOffered
<1>10. BootNotWarm' /\ TaintedKept'
  BY <1>1, <1>2, <1>4, <1>5, <1>6, <1>7, <1>8 DEF BootNotWarm, TaintedKept
<1>11. HandedOver' /\ JobDestroys' /\ BusyOwned'
  <2>1. HandedOver'
    <3>1. \A j \in Jobs : binds[j].id \in host' => binds[j].id \in host \cap Ids /\ binds[j].id # id
      BY <1>2, <1>4, <1>7
    <3> QED
      BY <1>1, <1>6, <1>7, <3>1 DEF HandedOver
  <2>2. BusyOwned'
    BY <1>1, <1>3, <1>6, <1>8 DEF BusyOwned
  <2> QED
    BY <1>1, <2>1, <2>2 DEF JobDestroys
<1>12. OnHostKnown'
  <2> SUFFICES ASSUME NoLeaks, life # "down", NEW k \in host'
               PROVE  \/ vms'[k].state # "none" \/ boots'[k] # "none"
                      \/ \E j \in Jobs : binds[j].id = k
    BY <1>1 DEF OnHostKnown, NoLeaks
  <2>1. CASE k = id
    BY <1>8, <2>1
  <2>2. CASE k # id
    BY <1>4, <1>5, <1>6, <1>7, <2>2 DEF OnHostKnown
  <2> QED
    BY <2>1, <2>2
<1> QED
  BY <1>9, <1>10, <1>11, <1>12


(* A job's caller gives up its VM only once it was destroyed or is marked. *)
LEMMA DestroyOwn ==
  ASSUME PoolTypeOK, OwnInv, NEW a \in Actors, DestroyOK(a) \/ DestroyFails(a)
  PROVE  OwnInv'
<1> DEFINE id == destroy[a]
<1>1. id \in Ids /\ tainted \subseteq Ids /\ host \subseteq Ids
  BY DEF PoolTypeOK, DestroyOK, DestroyFails
<1>2. /\ UNCHANGED <<life, boots>>
      /\ \A j \in Jobs : destroy'[j] \in {destroy[j], NoId}
      /\ a \in Jobs => destroy'[a] = NoId
  BY DEF PoolTypeOK, DestroyOK, DestroyFails, EndDestroy, Actors
<1>3. /\ \A j \in Jobs : j # a => binds'[j] = binds[j]
      /\ a \in Jobs => /\ binds'[a].pc = "done" /\ binds'[a].id = NoId
                       /\ binds[a].pc = "destroy" /\ binds[a].id = id
  <2>1. a \in Jobs => binds[a].pc = "destroy" /\ binds[a].id = id
    BY <1>1, PoolConstants DEF OwnInv, JobDestroys
  <2> QED
    BY <2>1 DEF PoolTypeOK, DestroyOK, DestroyFails, EndDestroy
<1>4. \/ host' = host \ {id} /\ tainted' = tainted \ {id} /\ vms'[id].state = "none"
      \/ /\ UNCHANGED <<host, tainted>>
         /\ vms'[id].state = IF vms[id].state = "none" THEN "none" ELSE "destroying"
  <2>1. CASE DestroyOK(a)
    <3>1. vms'[id] = NoVM
      BY <1>1, <2>1, EnterAt DEF DestroyOK
    <3> QED
      BY <2>1, <3>1, NoVMType DEF DestroyOK
  <2>2. CASE DestroyFails(a) /\ id \in Tracked
    <3>1. vms'[id] = [vms[id] EXCEPT !.state = "destroying"]
      BY <1>1, <2>2, EnterAt DEF DestroyFails
    <3>2. vms'[id].state = "destroying"
      BY <1>1, <3>1, ExceptAt
    <3> QED
      BY <2>2, <3>2 DEF DestroyFails, Tracked
  <2>3. CASE DestroyFails(a) /\ id \notin Tracked
    BY <1>1, <2>3 DEF DestroyFails, Tracked
  <2> QED
    BY <2>1, <2>2, <2>3
<1>5. \A k \in Ids : k # id => vms'[k] = vms[k]
  BY <1>1, EnterAt DEF DestroyOK, DestroyFails
<1>6. \A j \in Jobs : binds'[j].id # NoId => j # a /\ binds'[j] = binds[j]
  BY <1>3
<1> HIDE DEF id
<1> USE DEF OwnInv
<1>7. OneHolder' /\ BootNotWarm'
  BY <1>1, <1>2, <1>4, <1>5, <1>6 DEF OneHolder, BootNotWarm
<1>8. HeldNotOffered'
  BY <1>1, <1>2, <1>4, <1>5, <1>6, PoolConstants DEF HeldNotOffered
<1>9. TaintedKept'
  BY <1>1, <1>2, <1>4, <1>5 DEF TaintedKept
<1>10. HandedOver'
  <2> SUFFICES ASSUME NEW j \in Jobs, binds'[j].pc \in {"start", "bound", "destroy"},
                      binds'[j].id \in host'
               PROVE  vms'[binds'[j].id].state # "none"
    BY DEF HandedOver
  <2>1. binds'[j] = binds[j]
    BY <1>3
  <2> QED
    BY <1>1, <1>4, <1>5, <2>1 DEF HandedOver
<1>11. JobDestroys'
  BY <1>2, <1>3 DEF JobDestroys
<1>12. BusyOwned'
  <2> SUFFICES ASSUME NEW k \in Ids, vms'[k].state = "busy"
               PROVE  \E j \in Jobs : /\ vms'[k].job = j /\ binds'[j].id = k
                                      /\ binds'[j].pc \in {"start", "bound"}
    BY DEF BusyOwned
  <2>1. k # id
    BY <1>4
  <2>2. PICK j \in Jobs : vms[k].job = j /\ binds[j].id = k /\ binds[j].pc \in {"start", "bound"}
    BY <1>5, <2>1 DEF BusyOwned
  <2>3. j # a
    BY <1>3, <2>2
  <2> QED
    BY <1>3, <1>5, <2>1, <2>2, <2>3
<1>13. OnHostKnown'
  <2> SUFFICES ASSUME NoLeaks, life # "down", NEW k \in host'
               PROVE  \/ vms'[k].state # "none" \/ boots'[k] # "none"
                      \/ \E j \in Jobs : binds'[j].id = k
    BY <1>2 DEF OnHostKnown, NoLeaks
  <2>1. k \in host /\ k \in Ids
    BY <1>1, <1>4
  <2>2. vms[k].state # "none" => vms'[k].state # "none"
    BY <1>4, <1>5, <2>1
  <2>3. \A j \in Jobs : binds[j].id = k /\ j = a => vms[k].state # "none"
    BY <1>3, <2>1 DEF HandedOver
  <2>4. \A j \in Jobs : binds[j].id = k /\ j # a => binds'[j].id = k
    BY <1>3
  <2> QED
    BY <1>2, <2>1, <2>2, <2>3, <2>4 DEF OnHostKnown
<1> QED
  BY <1>7, <1>8, <1>9, <1>10, <1>11, <1>12, <1>13


(* One job's caller moves on, the VMs stay as they are. *)
LEMMA OwnBind ==
  ASSUME PoolTypeOK, OwnInv, UNCHANGED <<life, vms, boots, destroy>>,
         NEW j \in Jobs, NEW pc, NEW id, Bind(j, pc, id),
         pc \notin {"start", "bound", "destroy"}, binds[j].pc \notin {"start", "bound", "destroy"},
         \/ id = binds[j].id
         \/ id = NoId /\ (NoLeaks => binds[j].id \notin host')
         \/ id \in Ids /\ Fresh(id) /\ binds[j].id = NoId,
         host' \subseteq Ids, host' \subseteq host \cup {id, binds[j].id},
         tainted' = tainted \cap host'
  PROVE  OwnInv'
<1>1. /\ \A k \in Jobs : k # j => binds'[k] = binds[k]
      /\ binds'[j].pc = pc /\ binds'[j].id = id
  BY BindAt
<1>2. id \in Ids /\ Fresh(id) =>
        /\ vms[id].state = "none" /\ boots[id] = "none" /\ id \notin host
        /\ \A k \in Jobs : binds[k].id # id
  BY DEF Fresh
<1>3. tainted \subseteq Ids /\ host \subseteq Ids
  BY DEF PoolTypeOK
<1> USE DEF OwnInv
<1>4. OneHolder'
  BY <1>1, <1>2 DEF OneHolder
<1>5. HeldNotOffered'
  BY <1>1, <1>2, PoolConstants DEF HeldNotOffered
<1>6. BootNotWarm' /\ TaintedKept'
  BY <1>3 DEF BootNotWarm, TaintedKept
<1>7. HandedOver'
  <2> SUFFICES ASSUME NEW k \in Jobs, binds'[k].pc \in {"start", "bound", "destroy"},
                      binds'[k].id \in host'
               PROVE  vms[binds'[k].id].state # "none"
    BY DEF HandedOver
  <2>1. k # j /\ binds'[k] = binds[k]
    BY <1>1
  <2>2. PICK v : v = binds[k].id
    OBVIOUS
  <2>3. binds[k].pc \in Holding /\ v \in Ids /\ v # NoId
    BY <2>1, <2>2, PoolConstants DEF PoolTypeOK, BindRec, Free, Holding
  <2>4. v # binds[j].id
    BY <2>1, <2>2, <2>3 DEF OneHolder
  <2>5. v # id
    BY <1>2, <2>2, <2>3, <2>4
  <2>6. v \in host
    BY <2>1, <2>2, <2>4, <2>5
  <2> QED
    BY <2>1, <2>2, <2>6 DEF HandedOver
<1>8. JobDestroys'
  BY <1>1 DEF JobDestroys
<1>9. BusyOwned'
  BY <1>1 DEF BusyOwned
<1>10. OnHostKnown'
  <2> SUFFICES ASSUME NoLeaks, life # "down", NEW k \in host'
               PROVE  \/ vms[k].state # "none" \/ boots[k] # "none"
                      \/ \E i \in Jobs : binds'[i].id = k
    BY DEF OnHostKnown, NoLeaks
  <2>1. CASE k = id
    BY <1>1, <2>1
  <2>2. CASE k = binds[j].id
    BY <1>1, <1>3, <2>2, PoolConstants
  <2>3. CASE k # id /\ k # binds[j].id
    <3>1. k \in host
      BY <2>3
    <3> QED
      BY <1>1, <2>3, <3>1 DEF OnHostKnown
  <2> QED
    BY <2>1, <2>2, <2>3
<1> QED
  BY <1>4, <1>5, <1>6, <1>7, <1>8, <1>9, <1>10


(* One job's caller goes on with the VM it holds, or takes a free one.  The *)
(* VM is busy for that job, or torn down by now, and in the map if on the   *)
(* host; it is tainted, or marked and destroyed, on the way.                *)
Holds(j, pc, id) ==
  /\ pc \in {"start", "bound", "destroy"} /\ Bind(j, pc, id)
  /\ \/ binds[j].id = id
     \/ binds[j].id = NoId /\ boots[id] = "none" /\ \A i \in Jobs : binds[i].id # id
  /\ id \in host => vms'[id].state # "none"
  /\ vms'[id].state \in {"none", "busy", "destroying"}
  /\ vms'[id].state = "busy" => vms'[id].job = j /\ pc # "destroy"
  /\ \A k \in Ids : k # id => vms'[k] = vms[k]
  /\ tainted' = tainted \/ tainted' = tainted \cup ({id} \cap host)
  /\ \/ destroy' = destroy /\ binds[j].pc # "destroy"
     \/ destroy' = [destroy EXCEPT ![j] = id] /\ pc = "destroy"
  /\ UNCHANGED <<life, host, boots>>

LEMMA OwnHold ==
  ASSUME PoolTypeOK, OwnInv, NEW j \in Jobs, NEW id \in Ids, NEW pc, Holds(j, pc, id)
  PROVE  OwnInv'
<1>1. /\ \A k \in Jobs : k # j => binds'[k] = binds[k]
      /\ binds'[j].pc = pc /\ binds'[j].id = id
  BY BindAt DEF Holds
<1>2. /\ boots[id] = "none"
      /\ \A k \in Jobs : k # j => binds[k].id # id
  BY PoolConstants DEF OwnInv, OneHolder, HeldNotOffered, Holds
<1>3. tainted \subseteq Ids /\ host \subseteq Ids /\ id # NoId
  BY PoolConstants DEF PoolTypeOK
<1>4. \A k \in Jobs : k # j => destroy'[k] = destroy[k]
  BY DEF PoolTypeOK, Actors, Holds
<1> USE DEF OwnInv, Holds
<1>5. OneHolder'
  BY <1>1, <1>2 DEF OneHolder
<1>6. HeldNotOffered'
  BY <1>1, <1>2 DEF HeldNotOffered
<1>7. BootNotWarm' /\ TaintedKept'
  BY <1>2, <1>3 DEF BootNotWarm, TaintedKept
<1>8. HandedOver'
  <2> SUFFICES ASSUME NEW k \in Jobs, k # j, binds[k].pc \in {"start", "bound", "destroy"},
                      binds[k].id \in host
               PROVE  vms'[binds[k].id].state # "none"
    BY <1>1 DEF HandedOver
  <2> QED
    BY <1>2, <1>3 DEF HandedOver
<1>9. JobDestroys'
  <2>1. destroy'[j] # NoId => pc = "destroy" /\ id = destroy'[j]
    BY DEF JobDestroys, PoolTypeOK, Actors
  <2> QED
    BY <1>1, <1>4, <2>1 DEF JobDestroys
<1>10. BusyOwned'
  <2> SUFFICES ASSUME NEW k \in Ids, vms'[k].state = "busy"
               PROVE  \E i \in Jobs : /\ vms'[k].job = i /\ binds'[i].id = k
                                      /\ binds'[i].pc \in {"start", "bound"}
    BY DEF BusyOwned
  <2>1. CASE k = id
    BY <1>1, <2>1
  <2>2. CASE k # id
    <3>1. PICK i \in Jobs : vms[k].job = i /\ binds[i].id = k /\ binds[i].pc \in {"start", "bound"}
      BY <2>2 DEF BusyOwned
    <3>2. i # j
      BY <2>2, <3>1, PoolConstants
    <3> QED
      BY <1>1, <2>2, <3>1, <3>2
  <2> QED
    BY <2>1, <2>2
<1>11. OnHostKnown'
  <2> SUFFICES ASSUME NoLeaks, life # "down", NEW k \in host, k # id
               PROVE  \/ vms[k].state # "none" \/ boots[k] # "none"
                      \/ \E i \in Jobs : binds'[i].id = k
    BY <1>1, <1>3 DEF OnHostKnown, NoLeaks
  <2>1. binds[j].id # k
    BY <1>3, PoolConstants
  <2> QED
    BY <1>1, <2>1 DEF OnHostKnown
<1> QED
  BY <1>5, <1>6, <1>7, <1>8, <1>9, <1>10, <1>11


(* One job's caller gives up a VM that somebody else marked or removed. *)
LEMMA OwnRelease ==
  ASSUME PoolTypeOK, OwnInv, UNCHANGED <<life, vms, host, boots, destroy, tainted>>,
         NEW j \in Jobs, Bind(j, "done", NoId),
         binds[j].pc = "bound", vms[binds[j].id].state # "busy"
  PROVE  OwnInv'
<1>1. /\ \A k \in Jobs : k # j => binds'[k] = binds[k]
      /\ binds'[j].pc = "done" /\ binds'[j].id = NoId
  BY BindAt
<1> USE DEF OwnInv
<1>2. OneHolder' /\ HeldNotOffered'
  BY <1>1, PoolConstants DEF OneHolder, HeldNotOffered
<1>3. BootNotWarm' /\ TaintedKept'
  BY DEF BootNotWarm, TaintedKept
<1>4. HandedOver' /\ JobDestroys'
  BY <1>1 DEF HandedOver, JobDestroys
<1>5. BusyOwned'
  BY <1>1 DEF BusyOwned
<1>6. OnHostKnown'
  <2>1. binds[j].id \in host => vms[binds[j].id].state # "none"
    BY DEF HandedOver
  <2> QED
    BY <1>1, <2>1 DEF OnHostKnown, NoLeaks
<1> QED
  BY <1>2, <1>3, <1>4, <1>5, <1>6

LEMMA JobOwn ==
  ASSUME PoolTypeOK, OwnInv, NEW j \in Jobs, JobStep(j), host' \subseteq Ids
  PROVE  OwnInv'
<1> DEFINE v == binds[j].id
<1>t. (binds[j].pc \in Holding => v \in Ids) /\ (binds[j].pc \in Free => v = NoId)
  BY DEF PoolTypeOK, BindRec, Free, Holding
<1>h. host \subseteq Ids /\ tainted = tainted \cap host
  BY DEF PoolTypeOK, OwnInv, TaintedKept
<1>1. CASE BindCall(j) \/ BindStopped(j) \/ BindNoCapacity(j)
  <2>1. \E pc \in {"pick", "done"} : Bind(j, pc, NoId)
    BY <1>1 DEF BindCall, BindStopped, BindNoCapacity
  <2>2. v = NoId /\ binds[j].pc \notin {"start", "bound", "destroy"}
    BY <1>1, <1>t DEF BindCall, BindStopped, BindNoCapacity, Cold, Free
  <2>3. UNCHANGED <<life, vms, host, boots, destroy, tainted>>
    BY <1>1 DEF BindCall, BindStopped, BindNoCapacity
  <2> QED
    BY <1>h, <2>1, <2>2, <2>3, OwnBind
<1>2. CASE \E id \in Ids : BindCold(j, id)
  <2>1. PICK id \in Ids : BindCold(j, id)
    BY <1>2
  <2>2. Bind(j, "create", id) /\ Fresh(id) /\ binds[j].pc = "pick"
    BY <2>1 DEF BindCold, Cold
  <2>3. v = NoId
    BY <1>t, <2>2 DEF Free
  <2>4. UNCHANGED <<life, vms, host, boots, destroy, tainted>>
    BY <2>1 DEF BindCold
  <2> QED
    BY <1>h, <2>2, <2>3, <2>4, OwnBind
<1>3. CASE ColdCreate(j)
  <2>1. /\ binds[j].pc = "create" /\ v \in Ids
        /\ \E pc \in {"boot", "cleanup"} : Bind(j, pc, v)
        /\ UNCHANGED <<life, vms, boots, destroy, tainted>>
    BY <1>3, <1>t DEF ColdCreate, Holding
  <2>2. host' = host \cup {v} \/ host' = host
    BY <1>3 DEF ColdCreate, CreateOK, CreateFails
  <2>3. host' \subseteq host \cup {v} /\ tainted' = tainted \cap host'
    BY <1>h, <2>1, <2>2
  <2> QED
    BY <2>1, <2>3, OwnBind
<1>4. CASE ColdBootFails(j) \/ ColdCleanup(j)
  <2>1. /\ binds[j].pc \in {"boot", "cleanup", "abandon"} /\ v \in Ids /\ TryDestroy(v)
        /\ Bind(j, "cleanup", v) \/ Bind(j, "done", NoId)
        /\ UNCHANGED <<life, vms, boots, destroy>>
    BY <1>4, <1>t DEF ColdBootFails, ColdCleanup, Holding
  <2>2. /\ host' \subseteq host /\ tainted' = tainted \cap host'
        /\ NoLeaks => v \notin host'
    BY <2>1, TryDestroyAt
  <2> QED
    BY <2>1, <2>2, OwnBind
<1>5. CASE BindWarm(j)
  <2>1. PICK id \in pickWarmLocked(ShapeOf[j]) :
          /\ Enter(id, [vms[id] EXCEPT !.state = "busy", !.job = j])
          /\ Bind(j, "start", id)
    BY <1>5 DEF BindWarm
  <2>2. id \in Ids /\ vms[id].state = "warm"
    BY DEF pickWarmLocked, OfShape, InState
  <2>3. boots[id] = "none" /\ \A i \in Jobs : binds[i].id # id
    BY <2>2 DEF OwnInv, HeldNotOffered, BootNotWarm, PoolTypeOK
  <2>4. /\ \A k \in Ids : k # id => vms'[k] = vms[k]
        /\ vms'[id] = [vms[id] EXCEPT !.state = "busy", !.job = j]
    BY <2>1, <2>2, EnterAt
  <2>5. vms'[id].state = "busy" /\ vms'[id].job = j
    BY <2>2, <2>4, ExceptAt
  <2>6. /\ UNCHANGED <<life, host, boots, destroy, tainted>>
        /\ binds[j].pc = "pick" /\ v = NoId
    BY <1>5, <1>t DEF BindWarm, Free
  <2>7. Holds(j, "start", id)
    BY <2>1, <2>3, <2>4, <2>5, <2>6 DEF Holds
  <2> QED
    BY <2>2, <2>7, OwnHold
<1>6. CASE ColdBooted(j)
  <2>1. binds[j].pc = "boot" /\ v \in Ids /\ UNCHANGED <<life, host, boots, destroy, tainted>>
    BY <1>6, <1>t DEF ColdBooted, Holding
  <2>2. CASE life = "up"
    <3> DEFINE e == [state |-> "busy", job |-> j, shape |-> ShapeOf[j]]
    <3>1. Enter(v, e) /\ Bind(j, "start", v)
      BY <1>6, <2>2 DEF ColdBooted
    <3>2. /\ \A k \in Ids : k # v => vms'[k] = vms[k]
          /\ vms'[v].state = "busy" /\ vms'[v].job = j
      <4>1. \A k \in Ids : vms'[k] = IF k = v THEN e ELSE vms[k]
        BY <2>1, <3>1, EnterAt
      <4> QED
        BY <2>1, <4>1
    <3>3. Holds(j, "start", v)
      BY <2>1, <3>1, <3>2 DEF Holds
    <3> QED
      BY <2>1, <3>3, OwnHold
  <2>3. CASE life # "up"
    <3>1. Bind(j, "abandon", v) /\ UNCHANGED vms
      BY <1>6, <2>3 DEF ColdBooted
    <3> QED
      BY <1>h, <2>1, <3>1, OwnBind
  <2> QED
    BY <2>2, <2>3
<1>7. CASE StartRunner(j)
  <2>1. /\ binds[j].pc = "start" /\ v \in Ids /\ UNCHANGED <<life, host, boots>>
        /\ tainted' = tainted \cup ({v} \cap host)
    BY <1>7, <1>t DEF StartRunner, Holding
  <2>2. /\ v \in host => vms[v].state # "none"
        /\ vms[v].state \in {"none", "busy", "destroying"}
        /\ vms[v].state = "busy" => vms[v].job = j
    BY <2>1, PoolConstants
       DEF OwnInv, OneHolder, HandedOver, HeldNotOffered, BusyOwned, PoolTypeOK, VMStates
  <2>3. CASE Bind(j, "bound", v) /\ UNCHANGED <<vms, older, destroy>>
    <3>1. Holds(j, "bound", v)
      BY <2>1, <2>2, <2>3 DEF Holds
    <3> QED
      BY <2>1, <3>1, OwnHold
  <2>4. CASE beginDestroy(j, v) /\ Bind(j, "destroy", v)
    <3>1. Marked(v) /\ destroy' = [destroy EXCEPT ![j] = v]
      BY <2>1, <2>4, MarkedByBegin DEF Actors
    <3>2. Holds(j, "destroy", v)
      BY <2>1, <2>2, <2>4, <3>1 DEF Marked, Holds
    <3> QED
      BY <2>1, <3>2, OwnHold
  <2> QED
    BY <1>7, <2>3, <2>4 DEF StartRunner
<1>8. CASE JobFinished(j)
  <2>1. binds[j].pc = "bound" /\ v \in Ids /\ UNCHANGED <<life, host, boots, tainted>>
    BY <1>8, <1>t DEF JobFinished, Holding
  <2>2. CASE vms[v].state = "busy"
    <3>1. /\ MarkDestroying(v) /\ Bind(j, "destroy", v) /\ v \in Tracked
          /\ destroy' = [destroy EXCEPT ![j] = v]
      BY <1>8, <2>1, <2>2 DEF JobFinished, Tracked
    <3>2. Marked(v)
      BY <2>1, <3>1, MarkedByMark
    <3>3. Holds(j, "destroy", v)
      BY <2>1, <2>2, <3>1, <3>2 DEF Marked, Holds
    <3> QED
      BY <2>1, <3>3, OwnHold
  <2>3. CASE vms[v].state # "busy"
    <3>1. Bind(j, "done", NoId) /\ UNCHANGED <<vms, destroy>>
      BY <1>8, <2>3 DEF JobFinished
    <3> QED
      BY <2>1, <2>3, <3>1, OwnRelease
  <2> QED
    BY <2>2, <2>3
<1> QED
  BY <1>1, <1>2, <1>3, <1>4, <1>5, <1>6, <1>7, <1>8 DEF JobStep

LEMMA OwnInitial ==
  ASSUME PoolInit
  PROVE  OwnInv
<1>1. /\ life = "down" /\ host = {} /\ tainted = {}
      /\ \A id \in Ids : vms[id].state = "none" /\ boots[id] = "none"
      /\ \A j \in Jobs : binds[j].pc = "idle" /\ binds[j].id = NoId /\ destroy[j] = NoId
  BY NoVMType DEF PoolInit, Actors
<1> QED
  BY <1>1, PoolConstants DEF OwnInv, OneHolder, HeldNotOffered, BootNotWarm, TaintedKept,
     HandedOver, JobDestroys, BusyOwned, OnHostKnown

LEMMA OwnInductive ==
  ASSUME PoolTypeOK, PoolTypeOK', OwnInv, [PoolNext]_poolVars
  PROVE  OwnInv'
<1>1. CASE PoolNext
  <2>1. host' \subseteq Ids
    BY DEF PoolTypeOK
  <2> QED
    BY <1>1, <2>1, JobOwn, BootOwn, DestroyOwn, ReconcileOwn, OperatorOwn, ProcessOwn DEF PoolNext
<1>2. CASE UNCHANGED poolVars
  BY <1>2, OwnSame DEF poolVars
<1> QED
  BY <1>1, <1>2

LEMMA OwnInvariant == PoolSpec => [](PoolTypeOK /\ OwnInv)
<1>1. PoolInit => OwnInv
  BY OwnInitial
<1>2. PoolTypeOK /\ PoolTypeOK' /\ OwnInv /\ [PoolNext]_poolVars => OwnInv'
  BY OwnInductive
<1>3. PoolSpec => []PoolTypeOK
  BY PoolInvariant, PTL
<1> QED
  BY <1>1, <1>2, <1>3, PTL DEF PoolSpec

LEMMA OwnImplied ==
  PoolTypeOK /\ OwnInv => OneJobPerVM /\ JobVMTracked /\ BusyHasOwner /\ (NoLeaks => HostAccounted)
BY OwnImplies

\* "after a job, the guest is destroyed": for any number of jobs and VMs, with
\* boots and destroys that fail, kills, drains, stops and crashes, a guest that was
\* given a JIT config (StartRunner) is never on offer again, and no two Bind
\* callers hold one VM.
THEOREM OneJobPerVMAlways == PoolSpec => []OneJobPerVM
BY OwnInvariant, OwnImplied, PTL

\* The map never loses a guest that holds a JIT config while the agent runs.
THEOREM JobVMAlwaysTracked == PoolSpec => []JobVMTracked
BY OwnInvariant, OwnImplied, PTL

\* A busy VM always has the Bind/JobFinished caller that will end it.
THEOREM BusyAlwaysOwned == PoolSpec => []BusyHasOwner
BY OwnInvariant, OwnImplied, PTL

\* Nothing on the host is unaccounted for, provided cleaner.Destroy of an
\* untracked VM, whose error the code ignores, does what it says (NoLeaks).
THEOREM HostAccountedIfDestroyed ==
  ASSUME NoLeaks
  PROVE  PoolSpec => []HostAccounted
<1>1. PoolTypeOK /\ OwnInv => HostAccounted
  BY OwnImplied
<1> QED
  BY <1>1, OwnInvariant, PTL

=============================================================================
