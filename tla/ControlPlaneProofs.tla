-------------------------- MODULE ControlPlaneProofs --------------------------
(***************************************************************************)
(* Proofs about the job table (AssignmentStore) and the control plane that   *)
(* uses it (ControlPlane), for any jobs, agents, VMs and bounds, failing     *)
(* writes and crashes.                                                       *)
(*                                                                         *)
(* The first half is about the store with the most general caller.  Every    *)
(* method either saves one row and updates the queue (Saves), or is a prune, *)
(* a write, a failed write or a restart.  StepKinds shows this once, with    *)
(* what is true of the saved row; the invariants are then proved by these    *)
(* few kinds of step instead of by method.                                   *)
(*                                                                         *)
(* The second half shows that the control plane implements the store, so     *)
(* that the store's theorems hold for it, that no kill names another job's   *)
(* VM, and that no JIT config is handed out twice.  Handlers act on copies,  *)
(* so the argument is about every copy of a row: in memory, in flight, on    *)
(* disk, with a handler and with the reconciler.  A VM is bound once, and a  *)
(* row that names a VM names the agent and the job it was bound to (Own);    *)
(* whichever copy a kill is built from, its VM is right.                     *)
(***************************************************************************)
EXTENDS ControlPlane, FiniteSetTheorems, TLAPS

RowOK(row) == RowHoldsJIT(row) /\ RowOwner(row)

RowsOK ==
  /\ \A j \in Jobs : RowOK(byID[j]) /\ RowOK(disk[j])
  /\ \A f \in flushing : RowOK(f.row)

(* What a method does to the queue when it saves row for job j. *)
QueueStep(j, row) ==
  \/ pending' = pending /\ (row.status = "minted" => byID[j].status = "minted")
  \/ pending' = enqueuePendingLocked(j)
  \/ pending' = removePendingLocked(j) /\ row.status # "minted"
  \/ /\ row.status # "minted"
     /\ \E i \in DOMAIN pending : pending[i] = j /\ pending' = Without(pending, i)

Keeps(j, row) ==
  byID[j].status \in Claimed /\ row.status \in Claimed => row.agent = byID[j].agent

Saves(j, row) ==
  /\ Save(j, row)
  /\ row \in Row /\ RowOK(row)
  /\ Keeps(j, row)
  /\ QueueStep(j, row)
  /\ clock' \in Nat

Kinds ==
  \/ \E j \in Jobs, row \in Row : Saves(j, row)
  \/ \E mem, rows \in SUBSET Jobs : PruneFinished(mem, rows)
  \/ \E f \in flushing : Persist(f) \/ PersistFails(f)
  \/ Restart

-----------------------------------------------------------------------------

LEMMA NoRowOK == NoRow \in Row /\ RowOK(NoRow) /\ NoRow.status = "none"
BY StoreConstants DEF NoRow, Row, RowOK, RowHoldsJIT, RowOwner, Live, Claimed, Terminal

LEMMA MintedRowOK ==
  ASSUME NEW t \in Nat, t # 0, NEW c \in Nat
  PROVE  /\ MintedRow(t, c) \in Row /\ RowOK(MintedRow(t, c))
         /\ MintedRow(t, c).status = "minted"
BY StoreConstants DEF MintedRow, NoRow, Row, RowOK, RowHoldsJIT, RowOwner, Live, Claimed, Terminal

LEMMA FailedRowOK ==
  ASSUME NEW c \in Nat
  PROVE  /\ FailedRow(c) \in Row /\ RowOK(FailedRow(c))
         /\ FailedRow(c).status = "failed"
BY StoreConstants DEF FailedRow, NoRow, Row, RowOK, RowHoldsJIT, RowOwner, Live, Claimed, Terminal

LEMMA PutSaves ==
  ASSUME TypeOK, NEW j \in Jobs, NEW row \in Row, RowOK(row),
         row.status \notin Claimed, Put(j, row), Tick
  PROVE  Saves(j, row)
<1>1. QueueStep(j, row)
  BY DEF Put, QueueStep
<1>2. clock' \in Nat
  BY DEF Tick, TypeOK
<1> QED
  BY <1>1, <1>2 DEF Put, Saves, Keeps

(* Every method that works on one job saves one acceptable row. *)
LEMMA JobStepSaves ==
  ASSUME TypeOK, RowsOK, NEW j \in Jobs, JobStep(j)
  PROVE  \E row \in Row : Saves(j, row)
<1> DEFINE r == byID[j]
<1>r. r \in Row /\ RowOK(r) /\ clock \in Nat
  BY DEF TypeOK, RowsOK
<1>1. CASE PutMinted(j)
  <2> DEFINE row == MintedRow(clock + 1, clock + 1)
  <2>1. row \in Row /\ RowOK(row) /\ row.status = "minted"
    BY <1>r, MintedRowOK
  <2>2. Put(j, row) /\ Tick
    BY <1>1 DEF PutMinted
  <2>3. Saves(j, row)
    BY <2>1, <2>2, PutSaves DEF Claimed
  <2> QED
    BY <2>1, <2>3
<1>2. CASE PutFailed(j)
  <2> DEFINE row == FailedRow(clock + 1)
  <2>1. row \in Row /\ RowOK(row) /\ row.status = "failed"
    BY <1>r, FailedRowOK
  <2>2. Put(j, row) /\ Tick
    BY <1>2 DEF PutFailed
  <2>3. Saves(j, row)
    BY <2>1, <2>2, PutSaves DEF Claimed
  <2> QED
    BY <2>1, <2>3
<1>3. CASE \E c \in 1 .. clock : PutAgain(j, c)
  <2>1. PICK c \in 1 .. clock : PutAgain(j, c)
    BY <1>3
  <2> DEFINE row == MintedRow(clock + 1, c)
  <2>2. row \in Row /\ RowOK(row) /\ row.status = "minted"
    BY <1>r, MintedRowOK
  <2>3. Put(j, row) /\ Tick
    BY <2>1 DEF PutAgain
  <2>4. Saves(j, row)
    BY <2>2, <2>3, PutSaves DEF Claimed
  <2> QED
    BY <2>2, <2>4
<1>4. CASE SetMeta(j)
  <2>1. Saves(j, r)
    BY <1>4, <1>r DEF SetMeta, Saves, Keeps, QueueStep
  <2> QED
    BY <2>1, <1>r
<1>5. CASE \E a \in Agents, v \in VMs : MarkStarted(j, a, v)
  <2>1. PICK a \in Agents, v \in VMs : MarkStarted(j, a, v)
    BY <1>5
  <2> DEFINE row == [r EXCEPT !.status = "started", !.agent = a, !.vm = v]
  <2>2. row \in Row /\ row.status = "started" /\ row.agent = a /\ row.vm = v /\ row.jit = r.jit
    BY <1>r DEF Row, Live, Claimed
  <2>3. r.status \in Claimed /\ r.agent \in {NoAgent, a}
    BY <2>1 DEF MarkStarted, CanStart, OwnedBy
  <2>4. r.agent = a
    BY <2>3, <1>r DEF RowOK, RowOwner
  <2>5. RowOK(row)
    BY <2>2, <2>3, <1>r, StoreConstants DEF RowOK, RowOwner, RowHoldsJIT, Claimed, Live
  <2>6. Saves(j, row)
    BY <2>1, <2>2, <2>4, <2>5, <1>r DEF MarkStarted, Saves, Keeps, QueueStep
  <2> QED
    BY <2>2, <2>6
<1>6. CASE \E a \in Agents, o \in Outcomes, v \in VMs \cup {NoVM} : MarkFinished(j, a, o, v)
  <2>1. PICK a \in Agents, o \in Outcomes, v \in VMs \cup {NoVM} : MarkFinished(j, a, o, v)
    BY <1>6
  <2> DEFINE row == [r EXCEPT
                !.status  = "finished",
                !.agent   = a,
                !.outcome = IF r.status = "finished" THEN @ ELSE o,
                !.vm      = IF v = NoVM THEN @ ELSE v,
                !.jit     = 0]
  <2>2. row \in Row /\ row.status = "finished" /\ row.jit = 0
    BY <1>r DEF Row, Terminal
  <2>3. RowOK(row)
    BY <2>2 DEF RowOK, RowOwner, RowHoldsJIT, Claimed, Live
  <2>4. Saves(j, row)
    BY <2>1, <2>2, <2>3, <1>r DEF MarkFinished, Saves, Keeps, QueueStep, Claimed
  <2> QED
    BY <2>2, <2>4
<1>7. CASE \E o \in Outcomes : ApplyGitHubOutcome(j, o)
  <2>1. PICK o \in Outcomes : ApplyGitHubOutcome(j, o)
    BY <1>7
  <2> DEFINE row == [r EXCEPT !.status = "finished", !.outcome = o, !.jit = 0]
  <2>2. row \in Row /\ row.status = "finished" /\ row.jit = 0
    BY <1>r DEF Row, Terminal
  <2>3. RowOK(row)
    BY <2>2 DEF RowOK, RowOwner, RowHoldsJIT, Claimed, Live
  <2>4. Saves(j, row)
    BY <2>1, <2>2, <2>3, <1>r DEF ApplyGitHubOutcome, Saves, Keeps, QueueStep, Claimed
  <2> QED
    BY <2>2, <2>4
<1>8. CASE Cancel(j)
  <2> DEFINE row == [r EXCEPT !.status = "finished", !.outcome = "cancelled", !.jit = 0]
  <2>2. row \in Row /\ row.status = "finished" /\ row.jit = 0
    BY <1>r, StoreConstants DEF Row, Terminal
  <2>3. RowOK(row)
    BY <2>2 DEF RowOK, RowOwner, RowHoldsJIT, Claimed, Live
  <2>4. Saves(j, row)
    BY <1>8, <2>2, <2>3, <1>r DEF Cancel, Saves, Keeps, QueueStep, Claimed
  <2> QED
    BY <2>2, <2>4
<1>9. CASE MarkFailed(j)
  <2> DEFINE row == [r EXCEPT !.status = "failed", !.jit = 0]
  <2>2. row \in Row /\ row.status = "failed" /\ row.jit = 0
    BY <1>r DEF Row, Terminal
  <2>3. RowOK(row)
    BY <2>2 DEF RowOK, RowOwner, RowHoldsJIT, Claimed, Live
  <2>4. Saves(j, row)
    BY <1>9, <2>2, <2>3, <1>r DEF MarkFailed, Saves, Keeps, QueueStep, Claimed
  <2> QED
    BY <2>2, <2>4
<1>10. CASE RequeueAssigned(j)
  <2> DEFINE row == [r EXCEPT !.status = "minted", !.agent = NoAgent, !.vm = NoVM]
  <2>2. row \in Row /\ row.status = "minted" /\ row.agent = NoAgent /\ row.jit = r.jit
    BY <1>r DEF Row, Live
  <2>3. r.status = "assigned"
    BY <1>10 DEF RequeueAssigned
  <2>4. RowOK(row)
    BY <2>2, <2>3, <1>r DEF RowOK, RowOwner, RowHoldsJIT, Claimed, Live
  <2>5. Saves(j, row)
    BY <1>10, <2>2, <2>4, <1>r DEF RequeueAssigned, Saves, Keeps, QueueStep, Claimed
  <2> QED
    BY <2>2, <2>5
<1> QED
  BY <1>1, <1>2, <1>3, <1>4, <1>5, <1>6, <1>7, <1>8, <1>9, <1>10 DEF JobStep

(* So does a claim. *)
LEMMA ClaimSaves ==
  ASSUME TypeOK, RowsOK, NEW a \in Agents, NEW cached \in SUBSET Repos, ClaimNext(a, cached)
  PROVE  \E j \in Jobs, row \in Row : Saves(j, row)
<1>1. PICK i \in DOMAIN pending :
        /\ pickPendingLocked(i, cached)
        /\ Save(pending[i], [byID[pending[i]] EXCEPT !.status = "assigned", !.agent = a])
        /\ pending' = Without(pending, i)
        /\ UNCHANGED clock
  BY DEF ClaimNext
<1> DEFINE j == pending[i]
           r == byID[j]
           row == [r EXCEPT !.status = "assigned", !.agent = a]
<1>2. j \in Jobs
  BY DEF TypeOK
<1>3. r \in Row /\ RowOK(r)
  BY <1>2 DEF TypeOK, RowsOK
<1>4. r.status = "minted"
  BY <1>1 DEF pickPendingLocked, Preferred, Claimable
<1>5. row \in Row /\ row.status = "assigned" /\ row.agent = a /\ row.jit = r.jit
  BY <1>3 DEF Row, Live, Claimed
<1>6. RowOK(row)
  BY <1>3, <1>4, <1>5, StoreConstants DEF RowOK, RowOwner, RowHoldsJIT, Claimed, Live
<1>7. QueueStep(j, row)
  BY <1>1, <1>5 DEF QueueStep
<1>8. Saves(j, row)
  BY <1>1, <1>4, <1>5, <1>6, <1>7 DEF Saves, Keeps, Claimed, TypeOK
<1> QED
  BY <1>2, <1>5, <1>8

LEMMA StepKinds ==
  ASSUME TypeOK, RowsOK, Next
  PROVE  Kinds
<1>1. CASE \E j \in Jobs : JobStep(j)
  BY <1>1, JobStepSaves DEF Kinds
<1>2. CASE \E a \in Agents, cached \in SUBSET Repos : ClaimNext(a, cached)
  BY <1>2, ClaimSaves DEF Kinds
<1>3. CASE \E mem, rows \in SUBSET Jobs : PruneFinished(mem, rows)
  BY <1>3 DEF Kinds
<1>4. CASE \E f \in flushing : Persist(f) \/ PersistFails(f)
  BY <1>4 DEF Kinds
<1>5. CASE Restart
  BY <1>5 DEF Kinds
<1> QED
  BY <1>1, <1>2, <1>3, <1>4, <1>5 DEF Next

-----------------------------------------------------------------------------
(* The queue operations. *)

LEMMA WithoutType ==
  ASSUME NEW q \in Seq(Jobs), NEW i \in DOMAIN q
  PROVE  /\ Without(q, i) \in Seq(Jobs)
         /\ DOMAIN Without(q, i) = 1 .. Len(q) - 1
         /\ \A k \in 1 .. Len(q) - 1 :
              Without(q, i)[k] = IF k < i THEN q[k] ELSE q[k + 1]
<1>1. Len(q) \in Nat /\ DOMAIN q = 1 .. Len(q) /\ \A k \in 1 .. Len(q) : q[k] \in Jobs
  OBVIOUS
<1>2. Len(q) - 1 \in Nat
  BY <1>1
<1>3. Without(q, i) \in [1 .. Len(q) - 1 -> Jobs]
  BY <1>1, <1>2 DEF Without
<1>4. Without(q, i) \in Seq(Jobs)
  BY <1>2, <1>3
<1>5. \A k \in 1 .. Len(q) - 1 : Without(q, i)[k] = IF k < i THEN q[k] ELSE q[k + 1]
  BY DEF Without
<1> QED
  BY <1>3, <1>4, <1>5

LEMMA PendingType ==
  ASSUME TypeOK, NEW j \in Jobs, NEW row \in Row, QueueStep(j, row)
  PROVE  pending' \in Seq(Jobs)
<1>1. pending \in Seq(Jobs)
  BY DEF TypeOK
<1>2. CASE pending' = pending
  BY <1>1, <1>2
<1>3. CASE pending' = enqueuePendingLocked(j)
  BY <1>1, <1>3 DEF enqueuePendingLocked
<1>4. CASE pending' = removePendingLocked(j)
  <2>1. CASE InQueue(j)
    <3> DEFINE i == CHOOSE k \in DOMAIN pending : pending[k] = j
    <3>1. i \in DOMAIN pending
      BY <2>1 DEF InQueue
    <3>2. pending' = Without(pending, i)
      BY <1>4, <2>1 DEF removePendingLocked
    <3> QED
      BY <1>1, <3>1, <3>2, WithoutType
  <2>2. CASE ~InQueue(j)
    BY <1>1, <1>4, <2>2 DEF removePendingLocked
  <2> QED
    BY <2>1, <2>2
<1>5. CASE \E i \in DOMAIN pending : pending[i] = j /\ pending' = Without(pending, i)
  BY <1>1, <1>5, WithoutType
<1> QED
  BY <1>2, <1>3, <1>4, <1>5 DEF QueueStep

-----------------------------------------------------------------------------
(* Types and rows. *)

LEMMA SaveRows ==
  ASSUME TypeOK, RowsOK, NEW j \in Jobs, NEW row \in Row, Saves(j, row)
  PROVE  TypeOK' /\ RowsOK'
<1> DEFINE c == [job |-> j, row |-> row]
<1>1. /\ byID' = [byID EXCEPT ![j] = row]
      /\ flushing' = flushing \cup {c}
      /\ disk' = disk
      /\ RowOK(row)
  BY DEF Saves, Save
<1>2. pending' \in Seq(Jobs)
  BY PendingType DEF Saves
<1>3. c \in Copy /\ c.row = row
  BY DEF Copy
<1>4. TypeOK'
  BY <1>1, <1>2, <1>3 DEF TypeOK, Saves
<1>5. RowsOK'
  <2>1. \A k \in Jobs : RowOK(byID'[k]) /\ RowOK(disk'[k])
    BY <1>1 DEF RowsOK, TypeOK
  <2>2. \A f \in flushing' : RowOK(f.row)
    BY <1>1, <1>3 DEF RowsOK
  <2> QED
    BY <2>1, <2>2 DEF RowsOK, RowOK, RowHoldsJIT, RowOwner
<1> QED
  BY <1>4, <1>5

LEMMA UpsertOK ==
  ASSUME NEW row \in Row, RowOK(row)
  PROVE  UpsertAssignment(row) \in Row /\ RowOK(UpsertAssignment(row))
<1> DEFINE u == UpsertAssignment(row)
<1>1. /\ u \in Row /\ u.status = row.status /\ u.agent = row.agent /\ u.vm = row.vm
      /\ u.jit = IF row.status \in Terminal THEN 0 ELSE row.jit
  BY DEF UpsertAssignment, Row
<1>2. RowHoldsJIT(u)
  BY <1>1 DEF RowOK, RowHoldsJIT, Live, Claimed, Terminal
<1>3. RowOwner(u)
  BY <1>1 DEF RowOK, RowOwner
<1> QED
  BY <1>1, <1>2, <1>3 DEF RowOK

LEMMA OtherRows ==
  ASSUME TypeOK, RowsOK,
         \/ \E mem, rows \in SUBSET Jobs : PruneFinished(mem, rows)
         \/ \E f \in flushing : Persist(f) \/ PersistFails(f)
         \/ Restart
  PROVE  TypeOK' /\ RowsOK'
<1>1. CASE \E mem, rows \in SUBSET Jobs : PruneFinished(mem, rows)
  <2>1. PICK mem \in SUBSET Jobs, rows \in SUBSET Jobs : PruneFinished(mem, rows)
    BY <1>1
  <2>2. TypeOK'
    BY <2>1, NoRowOK DEF TypeOK, PruneFinished
  <2>3. \A j \in Jobs : RowOK(byID'[j]) /\ RowOK(disk'[j])
    BY <2>1, NoRowOK DEF RowsOK, PruneFinished
  <2>4. flushing' = flushing
    BY <2>1 DEF PruneFinished
  <2> QED
    BY <2>2, <2>3, <2>4 DEF RowsOK, RowOK, RowHoldsJIT, RowOwner
<1>2. CASE \E f \in flushing : Persist(f)
  <2>1. PICK f \in flushing : Persist(f)
    BY <1>2
  <2>2. f.job \in Jobs /\ f.row \in Row /\ RowOK(f.row)
    BY DEF TypeOK, Copy, RowsOK
  <2>3. UpsertAssignment(f.row) \in Row /\ RowOK(UpsertAssignment(f.row))
    BY <2>2, UpsertOK
  <2>4. /\ disk' = [disk EXCEPT ![f.job] = UpsertAssignment(f.row)]
        /\ flushing' = flushing \ {f}
        /\ byID' = byID /\ pending' = pending /\ clock' = clock
    BY <2>1 DEF Persist
  <2>5. TypeOK'
    BY <2>2, <2>3, <2>4 DEF TypeOK
  <2>6. \A j \in Jobs : RowOK(byID'[j]) /\ RowOK(disk'[j])
    BY <2>3, <2>4 DEF RowsOK, TypeOK
  <2> QED
    BY <2>4, <2>5, <2>6 DEF RowsOK, RowOK, RowHoldsJIT, RowOwner
<1>3. CASE \E f \in flushing : PersistFails(f)
  BY <1>3 DEF PersistFails, TypeOK, RowsOK, RowOK, RowHoldsJIT, RowOwner
<1>4. CASE Restart
  <2>1. PICK n \in 0 .. Cardinality(Jobs) : \E q \in [1 .. n -> Jobs] : pending' = q
    BY <1>4 DEF Restart
  <2>2. pending' \in Seq(Jobs)
    BY <2>1
  <2>3. byID' = disk /\ disk' = disk /\ flushing' = {} /\ clock' = clock
    BY <1>4 DEF Restart
  <2>4. TypeOK'
    BY <2>2, <2>3 DEF TypeOK
  <2> QED
    BY <2>3, <2>4 DEF RowsOK, RowOK, RowHoldsJIT, RowOwner
<1> QED
  BY <1>1, <1>2, <1>3, <1>4

LEMMA InitRows ==
  ASSUME Init
  PROVE  TypeOK /\ RowsOK
BY NoRowOK DEF Init, TypeOK, RowsOK

LEMMA NextRows ==
  ASSUME TypeOK, RowsOK, [Next]_storeVars
  PROVE  TypeOK' /\ RowsOK'
<1>1. CASE Next
  <2>1. Kinds
    BY <1>1, StepKinds
  <2> QED
    BY <2>1, SaveRows, OtherRows DEF Kinds
<1>2. CASE UNCHANGED storeVars
  BY <1>2 DEF storeVars, TypeOK, RowsOK, RowOK, RowHoldsJIT, RowOwner
<1> QED
  BY <1>1, <1>2

LEMMA RowsInvariant == Spec => [](TypeOK /\ RowsOK)
<1>1. Init => TypeOK /\ RowsOK
  BY InitRows
<1>2. (TypeOK /\ RowsOK) /\ [Next]_storeVars => (TypeOK /\ RowsOK)'
  BY NextRows
<1> QED
  BY <1>1, <1>2, PTL DEF Spec

\* The store's variables keep their types, whatever methods are called.
THEOREM StoreTypeCorrect == Spec => []TypeOK
BY RowsInvariant, PTL

\* The JIT secret is kept in memory, in copies in flight and on disk exactly as long
\* as the job can still run, for every interleaving of methods, writes and restarts.
THEOREM JITKeptWhileLive == Spec => []JITIffLive
<1>1. RowsOK => JITIffLive
  BY DEF RowsOK, RowOK, JITIffLive
<1> QED
  BY <1>1, RowsInvariant, PTL

\* A claimed job names its agent, a started one its VM, a claimable one nobody.
THEOREM OwnerKeptWhileClaimed == Spec => []OwnerIffClaimed
<1>1. RowsOK => OwnerIffClaimed
  BY DEF RowsOK, RowOK, OwnerIffClaimed
<1> QED
  BY <1>1, RowsInvariant, PTL

-----------------------------------------------------------------------------
(* The queue. *)

In(q, j)  == \E i \in DOMAIN q : q[i] = j
NoDup(q)  == \A i, k \in DOMAIN q : q[i] = q[k] => i = k

LEMMA WithoutElements ==
  ASSUME NEW q \in Seq(Jobs), NoDup(q), NEW i \in DOMAIN q
  PROVE  /\ NoDup(Without(q, i))
         /\ \A j \in Jobs : In(q, j) /\ j # q[i] => In(Without(q, i), j)
<1> DEFINE w == Without(q, i)
<1>1. /\ w \in Seq(Jobs) /\ DOMAIN w = 1 .. Len(q) - 1
      /\ \A k \in 1 .. Len(q) - 1 : w[k] = IF k < i THEN q[k] ELSE q[k + 1]
  BY WithoutType
<1>2. Len(q) \in Nat /\ DOMAIN q = 1 .. Len(q) /\ i \in 1 .. Len(q)
  OBVIOUS
<1>3. NoDup(w)
  <2> SUFFICES ASSUME NEW k \in 1 .. Len(q) - 1, NEW m \in 1 .. Len(q) - 1, w[k] = w[m]
               PROVE  k = m
    BY <1>1 DEF NoDup
  <2> DEFINE K == IF k < i THEN k ELSE k + 1
             M == IF m < i THEN m ELSE m + 1
  <2>1. K \in DOMAIN q /\ M \in DOMAIN q
    BY <1>2
  <2>2. w[k] = q[K] /\ w[m] = q[M]
    BY <1>1
  <2>3. K = M
    BY <2>1, <2>2 DEF NoDup
  <2> QED
    BY <2>3, <1>2
<1>4. ASSUME NEW j \in Jobs, In(q, j), j # q[i]
      PROVE  In(w, j)
  <2>1. PICK k \in DOMAIN q : q[k] = j
    BY <1>4 DEF In
  <2>2. k # i /\ k \in 1 .. Len(q)
    BY <2>1, <1>2, <1>4
  <2> DEFINE m == IF k < i THEN k ELSE k - 1
  <2>3. m \in 1 .. Len(q) - 1
    BY <2>2, <1>2
  <2>4. w[m] = j
    BY <1>1, <1>2, <2>1, <2>2, <2>3
  <2> QED
    BY <1>1, <2>3, <2>4 DEF In
<1> QED
  BY <1>3, <1>4

LEMMA AppendElements ==
  ASSUME NEW q \in Seq(Jobs), NoDup(q), NEW j \in Jobs, ~In(q, j)
  PROVE  /\ NoDup(Append(q, j))
         /\ In(Append(q, j), j)
         /\ \A k \in Jobs : In(q, k) => In(Append(q, j), k)
<1> DEFINE a == Append(q, j)
<1>1. /\ Len(q) \in Nat /\ DOMAIN q = 1 .. Len(q)
      /\ a \in Seq(Jobs) /\ DOMAIN a = 1 .. Len(q) + 1
      /\ a[Len(q) + 1] = j /\ \A i \in 1 .. Len(q) : a[i] = q[i]
  OBVIOUS
<1>2. NoDup(a)
  BY <1>1 DEF NoDup, In
<1>3. In(a, j)
  BY <1>1 DEF In
<1>4. \A k \in Jobs : In(q, k) => In(a, k)
  BY <1>1 DEF In
<1> QED
  BY <1>2, <1>3, <1>4

(* The queue part of a save: no duplicates, nobody else leaves, and the job *)
(* itself is in the queue if it is minted now.                              *)
LEMMA QueueStepElements ==
  ASSUME TypeOK, NoDup(pending), NEW j \in Jobs, NEW row \in Row, QueueStep(j, row),
         byID[j].status = "minted" => In(pending, j)
  PROVE  /\ NoDup(pending')
         /\ \A k \in Jobs : k # j /\ In(pending, k) => In(pending', k)
         /\ row.status = "minted" => In(pending', j)
<1>1. pending \in Seq(Jobs)
  BY DEF TypeOK
<1>2. CASE pending' = pending /\ (row.status = "minted" => byID[j].status = "minted")
  BY <1>2
<1>3. CASE pending' = enqueuePendingLocked(j)
  <2>1. CASE In(pending, j)
    BY <1>3, <2>1 DEF enqueuePendingLocked, InQueue, In
  <2>2. CASE ~In(pending, j)
    <3>1. pending' = Append(pending, j)
      BY <1>3, <2>2 DEF enqueuePendingLocked, InQueue, In
    <3> QED
      BY <1>1, <2>2, <3>1, AppendElements
  <2> QED
    BY <2>1, <2>2
<1>4. CASE pending' = removePendingLocked(j) /\ row.status # "minted"
  <2>1. CASE InQueue(j)
    <3> DEFINE i == CHOOSE k \in DOMAIN pending : pending[k] = j
    <3>1. i \in DOMAIN pending /\ pending[i] = j
      BY <2>1 DEF InQueue
    <3>2. pending' = Without(pending, i)
      BY <1>4, <2>1 DEF removePendingLocked
    <3> HIDE DEF i
    <3> QED
      BY <1>1, <1>4, <3>1, <3>2, WithoutElements
  <2>2. CASE ~InQueue(j)
    BY <1>4, <2>2 DEF removePendingLocked
  <2> QED
    BY <2>1, <2>2
<1>5. CASE /\ row.status # "minted"
           /\ \E i \in DOMAIN pending : pending[i] = j /\ pending' = Without(pending, i)
  BY <1>1, <1>5, WithoutElements
<1> QED
  BY <1>2, <1>3, <1>4, <1>5 DEF QueueStep

QueueInv == NoDup(pending) /\ \A j \in Jobs : byID[j].status = "minted" => In(pending, j)

LEMMA NextQueue ==
  ASSUME TypeOK, RowsOK, QueueInv, [Next]_storeVars
  PROVE  QueueInv'
<1>1. ASSUME NEW j \in Jobs, NEW row \in Row, Saves(j, row)
      PROVE  QueueInv'
  <2>1. byID' = [byID EXCEPT ![j] = row] /\ QueueStep(j, row)
    BY <1>1 DEF Saves, Save
  <2>2. /\ NoDup(pending')
        /\ \A k \in Jobs : k # j /\ In(pending, k) => In(pending', k)
        /\ row.status = "minted" => In(pending', j)
    BY <2>1, QueueStepElements DEF QueueInv
  <2>3. \A k \in Jobs : byID'[k].status = "minted" => In(pending', k)
    BY <2>1, <2>2 DEF QueueInv, TypeOK
  <2> QED
    BY <2>2, <2>3 DEF QueueInv, NoDup, In
<1>2. CASE \E mem, rows \in SUBSET Jobs : PruneFinished(mem, rows)
  <2>1. PICK mem \in SUBSET Jobs, rows \in SUBSET Jobs : PruneFinished(mem, rows)
    BY <1>2
  <2>2. /\ byID' = [j \in Jobs |-> IF j \in mem THEN NoRow ELSE byID[j]]
        /\ pending' = pending
    BY <2>1 DEF PruneFinished
  <2>3. \A j \in Jobs : byID'[j].status = "minted" => byID[j].status = "minted"
    BY <2>2, NoRowOK
  <2> QED
    BY <2>2, <2>3 DEF QueueInv, NoDup, In
<1>3. CASE \E f \in flushing : Persist(f) \/ PersistFails(f)
  BY <1>3 DEF Persist, PersistFails, QueueInv, NoDup, In
<1>4. CASE Restart
  <2>1. PICK n \in 0 .. Cardinality(Jobs) :
          \E q \in [1 .. n -> Jobs] : IsReload(q, disk) /\ pending' = q
    BY <1>4 DEF Restart
  <2>2. IsReload(pending', disk) /\ byID' = disk /\ DOMAIN pending' = 1 .. n /\ n \in Nat
    BY <1>4, <2>1 DEF Restart
  <2>3. \A j \in Jobs : byID'[j].status = "minted" => In(pending', j)
    BY <2>2 DEF IsReload, In
  <2>4. \A i, k \in 1 .. n : pending'[i] = pending'[k] => i = k
    <3> SUFFICES ASSUME NEW i \in 1 .. n, NEW k \in 1 .. n, i # k
                 PROVE  pending'[i] # pending'[k]
      OBVIOUS
    <3>1. i < k \/ k < i
      BY <2>2
    <3> QED
      BY <2>2, <3>1 DEF IsReload
  <2> QED
    BY <2>2, <2>3, <2>4 DEF QueueInv, NoDup, In
<1>5. CASE UNCHANGED storeVars
  BY <1>5 DEF storeVars, QueueInv, NoDup, In
<1>6. CASE Next
  <2>1. Kinds
    BY <1>6, StepKinds
  <2> QED
    BY <2>1, <1>1, <1>2, <1>3, <1>4 DEF Kinds
<1> QED
  BY <1>5, <1>6

LEMMA QueueInvariant == Spec => []QueueInv
<1>1. Init => QueueInv
  BY NoRowOK DEF Init, QueueInv, NoDup
<1>2. TypeOK /\ RowsOK /\ QueueInv /\ [Next]_storeVars => QueueInv'
  BY NextQueue
<1> QED
  BY <1>1, <1>2, RowsInvariant, PTL DEF Spec

\* No minted job is lost: it is in the FIFO until an agent claims it or it ends.
THEOREM MintedJobsQueued == Spec => []QueueCoversMinted
<1>1. QueueInv => QueueCoversMinted
  BY DEF QueueInv, In, QueueCoversMinted, InQueue
<1> QED
  BY <1>1, QueueInvariant, PTL

\* No job is queued twice, so one mint is claimed at most once from the queue.
THEOREM JobsQueuedOnce == Spec => []QueueNoDup
<1>1. QueueInv => QueueNoDup
  BY DEF QueueInv, NoDup, QueueNoDup
<1> QED
  BY <1>1, QueueInvariant, PTL

\* While the process runs a claimed job changes hands only through the queue.
THEOREM ClaimsKeepTheirAgent == Spec => HandoverThroughQueue
<1> DEFINE Handover ==
      ~Restart =>
        \A j \in Jobs :
          byID[j].status \in Claimed /\ byID'[j].status \in Claimed
            => byID'[j].agent = byID[j].agent
<1>1. TypeOK /\ RowsOK /\ [Next]_storeVars => [Handover]_storeVars
  <2> SUFFICES ASSUME TypeOK, RowsOK, Next
               PROVE  Handover
    BY Zenon
  <2>1. Kinds
    BY StepKinds
  <2>2. CASE \E j \in Jobs, row \in Row : Saves(j, row)
    BY <2>2 DEF Saves, Save, Keeps, TypeOK
  <2>3. CASE \E mem, rows \in SUBSET Jobs : PruneFinished(mem, rows)
    BY <2>3, NoRowOK DEF PruneFinished, Claimed
  <2>4. CASE \E f \in flushing : Persist(f) \/ PersistFails(f)
    BY <2>4 DEF Persist, PersistFails
  <2> QED
    BY <2>1, <2>2, <2>3, <2>4 DEF Kinds
<1> QED
  BY <1>1, RowsInvariant, PTL DEF Spec, HandoverThroughQueue

-----------------------------------------------------------------------------
(* The order of the queue. *)

(* No two elements of the first queue come in the other order in the second. *)
SameOrder(q, p) ==
  \A i, k \in DOMAIN q :
    i < k => ~ \E m, n \in DOMAIN p : m < n /\ p[m] = q[k] /\ p[n] = q[i]

LEMMA WithoutOrder ==
  ASSUME NEW q \in Seq(Jobs), NoDup(q), NEW x \in DOMAIN q
  PROVE  SameOrder(q, Without(q, x))
<1> DEFINE w == Without(q, x)
           place(k) == IF k < x THEN k ELSE k + 1
<1>1. /\ DOMAIN w = 1 .. Len(q) - 1
      /\ \A k \in 1 .. Len(q) - 1 : w[k] = q[place(k)]
  BY WithoutType
<1>2. Len(q) \in Nat /\ DOMAIN q = 1 .. Len(q) /\ x \in 1 .. Len(q)
  OBVIOUS
<1>3. \A k \in 1 .. Len(q) - 1 : place(k) \in DOMAIN q
  BY <1>2
<1>4. \A m, n \in 1 .. Len(q) - 1 : m < n => place(m) < place(n)
  BY <1>2
<1> HIDE DEF w, place
<1>5. SUFFICES ASSUME NEW i \in DOMAIN q, NEW k \in DOMAIN q, i < k,
                      NEW m \in DOMAIN w, NEW n \in DOMAIN w, m < n, w[m] = q[k], w[n] = q[i]
               PROVE  FALSE
  BY DEF SameOrder, w
<1>6. place(m) = k /\ place(n) = i
  BY <1>1, <1>3, <1>5 DEF NoDup
<1> QED
  BY <1>1, <1>2, <1>4, <1>5, <1>6

LEMMA AppendOrder ==
  ASSUME NEW q \in Seq(Jobs), NoDup(q), NEW j \in Jobs, ~In(q, j)
  PROVE  SameOrder(q, Append(q, j))
<1> DEFINE a == Append(q, j)
<1>1. /\ Len(q) \in Nat /\ DOMAIN q = 1 .. Len(q) /\ DOMAIN a = 1 .. Len(q) + 1
      /\ a[Len(q) + 1] = j /\ \A i \in 1 .. Len(q) : a[i] = q[i]
  OBVIOUS
<1> HIDE DEF a
<1>2. SUFFICES ASSUME NEW i \in DOMAIN q, NEW k \in DOMAIN q, i < k,
                      NEW m \in DOMAIN a, NEW n \in DOMAIN a, m < n, a[m] = q[k], a[n] = q[i]
               PROVE  FALSE
  BY DEF SameOrder, a
<1>3. n # Len(q) + 1 /\ m # Len(q) + 1
  BY <1>1, <1>2 DEF In
<1>4. m \in DOMAIN q /\ n \in DOMAIN q /\ a[m] = q[m] /\ a[n] = q[n]
  BY <1>1, <1>3
<1>5. m = k /\ n = i
  BY <1>2, <1>4 DEF NoDup
<1> QED
  BY <1>1, <1>2, <1>5

LEMMA SameQueueOrder ==
  ASSUME NEW q \in Seq(Jobs), NoDup(q)
  PROVE  SameOrder(q, q)
<1>1. SUFFICES ASSUME NEW i \in DOMAIN q, NEW k \in DOMAIN q, i < k,
                      NEW m \in DOMAIN q, NEW n \in DOMAIN q, m < n, q[m] = q[k], q[n] = q[i]
               PROVE  FALSE
  BY DEF SameOrder
<1>2. m = k /\ n = i
  BY <1>1 DEF NoDup
<1>3. i \in Nat /\ k \in Nat
  OBVIOUS
<1> QED
  BY <1>1, <1>2, <1>3

LEMMA QueueStepOrder ==
  ASSUME TypeOK, NoDup(pending), NEW j \in Jobs, NEW row \in Row, QueueStep(j, row)
  PROVE  SameOrder(pending, pending')
<1>1. pending \in Seq(Jobs)
  BY DEF TypeOK
<1>2. CASE pending' = pending
  BY <1>1, <1>2, SameQueueOrder
<1>3. CASE pending' = enqueuePendingLocked(j)
  <2>1. CASE InQueue(j)
    BY <1>2, <1>3, <2>1 DEF enqueuePendingLocked
  <2>2. CASE ~InQueue(j)
    <3>1. pending' = Append(pending, j) /\ ~In(pending, j)
      BY <1>3, <2>2 DEF enqueuePendingLocked, InQueue, In
    <3> QED
      BY <1>1, <3>1, AppendOrder
  <2> QED
    BY <2>1, <2>2
<1>4. CASE pending' = removePendingLocked(j)
  <2>1. CASE InQueue(j)
    <3> DEFINE i == CHOOSE k \in DOMAIN pending : pending[k] = j
    <3>1. i \in DOMAIN pending
      BY <2>1 DEF InQueue
    <3>2. pending' = Without(pending, i)
      BY <1>4, <2>1 DEF removePendingLocked
    <3> HIDE DEF i
    <3> QED
      BY <1>1, <3>1, <3>2, WithoutOrder
  <2>2. CASE ~InQueue(j)
    BY <1>2, <1>4, <2>2 DEF removePendingLocked
  <2> QED
    BY <2>1, <2>2
<1>5. CASE \E i \in DOMAIN pending : pending[i] = j /\ pending' = Without(pending, i)
  BY <1>1, <1>5, WithoutOrder
<1> QED
  BY <1>2, <1>3, <1>4, <1>5 DEF QueueStep

\* No overtaking: a method takes one job out of the queue or adds one at its end, so of two
\* queued jobs the one queued earlier stays ahead; this needs that no job is queued twice.
THEOREM QueueKeepsOrder == Spec => QueueOrderStable
<1>1. TypeOK /\ RowsOK /\ QueueInv /\ [Next]_storeVars
      => [~Restart => SameOrder(pending, pending')]_storeVars
  <2> SUFFICES ASSUME TypeOK, RowsOK, QueueInv, Next, ~Restart
               PROVE  SameOrder(pending, pending')
    BY Zenon
  <2>1. Kinds
    BY StepKinds
  <2>2. ASSUME NEW j \in Jobs, NEW row \in Row, Saves(j, row)
        PROVE  SameOrder(pending, pending')
    BY <2>2, QueueStepOrder DEF Saves, QueueInv
  <2>3. CASE pending' = pending
    BY <2>3, SameQueueOrder DEF TypeOK, QueueInv
  <2>4. CASE \E mem, rows \in SUBSET Jobs : PruneFinished(mem, rows)
    BY <2>3, <2>4 DEF PruneFinished
  <2>5. CASE \E f \in flushing : Persist(f) \/ PersistFails(f)
    BY <2>3, <2>5 DEF Persist, PersistFails
  <2> QED
    BY <2>1, <2>2, <2>4, <2>5 DEF Kinds
<1> QED
  BY <1>1, RowsInvariant, QueueInvariant, PTL DEF Spec, QueueOrderStable, SameOrder

-----------------------------------------------------------------------------
(* The control plane. *)

Own(j, row) == row.vm # NoVM => bound[row.vm] = <<row.agent, j>>

(* Remint puts the creation time of a copy back: it is one of the past. *)
Dated(row) ==
  row.created <= clock /\ row.jit <= clock /\ (row.status # "none" => row.created # 0)

Good(j, row) == Own(j, row) /\ Dated(row)

StoreGood ==
  /\ \A j \in Jobs : Good(j, byID[j]) /\ Good(j, disk[j])
  /\ \A f \in flushing : Good(f.job, f.row)

(* What the copies of running handlers are good for. *)
CallGood(c) ==
  /\ c.op \in {"complete", "cancel"} => Good(c.job, c.row) /\ RowOK(c.row)
  /\ c.op = "remint" =>
       /\ c.row.created \in 1..clock
       /\ c.agent # NoAgent /\ c.row.vm # NoVM => bound[c.row.vm] = <<c.agent, c.job>>
  /\ c.op = "claimed" => c.agent \in Agents /\ c.row.jit \in 1..clock

TodoGood(x) ==
  Good(x.job, x.row) /\ RowOK(x.row) /\ (recon.phase = "stuck" => x.row.status \in Claimed)

RunGood(a, r) ==
  /\ r.st = "claimed" <=> r.vm = NoVM
  /\ r.vm # NoVM => bound[r.vm] = <<a, r.job>>

CallsInv == calls \subseteq Call /\ \A c \in calls : CallGood(c)

ReconInv ==
  /\ recon \in [phase : {"idle", "stuck", "stale"}, todo : SUBSET Copy]
  /\ \A x \in recon.todo : TodoGood(x)

RunsInv ==
  /\ runs \in [Agents -> SUBSET Run]
  /\ \A a \in Agents : \A r \in runs[a] : RunGood(a, r)

CmdInv ==
  /\ cmdq \in [Agents -> SUBSET [vm : VMs, job : Jobs \cup {NoJob}]]
  /\ KillsHitOwnJob

RestInv ==
  /\ bound \in [VMs -> (Agents \X Jobs) \cup {<<>>}]
  /\ stimuli \in 0..MaxStimuli
  /\ handed \subseteq 1..MaxClock
  /\ verdict \subseteq Jobs
  /\ clock <= MaxClock

CPInv ==
  TypeOK /\ RowsOK /\ StoreGood /\ CallsInv /\ ReconInv /\ RunsInv /\ CmdInv /\ RestInv

-----------------------------------------------------------------------------
(* What a handler does to the job table: nothing, or one method of the      *)
(* store, which saves a good row.                                            *)

Stays == UNCHANGED storeVars

(* A row has a new JIT config or none, or keeps its own and is not minted again. *)
JITKept(j, row) ==
  \/ row.jit = 0
  \/ row.jit = clock + 1 /\ clock' = clock + 1
  \/ row.jit = byID[j].jit /\ (row.status = "minted" => byID[j].status = "minted")

SavesGood ==
  \E j \in Jobs, row \in Row :
    /\ Save(j, row)
    /\ Own(j, row) /\ JITKept(j, row)
    /\ clock' \in {clock, clock + 1} /\ clock' <= MaxClock
    /\ row.created <= clock' /\ row.jit <= clock' /\ (row.status # "none" => row.created # 0)

Method == Next /\ SavesGood

(* A pair is not the empty tuple: a VM that is bound has its agent and job. *)
LEMMA OwnerOfVM ==
  ASSUME RestInv, NEW j, NEW row, row.vm \in VMs \cup {NoVM}, Own(j, row), row.vm # NoVM
  PROVE  row.agent \in Agents
BY DEF RestInv, Own

LEMMA PutMethods ==
  ASSUME CPInv, NEW j \in Jobs, NEW c,
         PutMinted(j) \/ PutFailed(j) \/ (c \in 1..clock /\ PutAgain(j, c))
  PROVE  Method
<1>1. Next
  BY DEF Next, JobStep
<1>2. clock \in Nat /\ MaxClock \in Nat
  BY StoreConstants DEF CPInv, TypeOK
<1>3. Tick
  BY DEF PutMinted, PutFailed, PutAgain
<1>4. PICK row : /\ Save(j, row)
                 /\ \/ row \in {MintedRow(clock + 1, clock + 1), FailedRow(clock + 1)}
                    \/ c \in 1..clock /\ row = MintedRow(clock + 1, c)
  BY DEF PutMinted, PutFailed, PutAgain, Put
<1>5. /\ row \in Row /\ row.vm = NoVM
      /\ row.created \in 1..(clock + 1) /\ row.jit \in 0..(clock + 1)
  <2>1. row \in Row
    BY <1>2, <1>4, MintedRowOK, FailedRowOK
  <2>2. /\ row.vm = NoVM /\ row.jit \in {clock + 1, 0}
        /\ row.created = clock + 1 \/ (row.created = c /\ c \in 1..clock)
    BY <1>4 DEF MintedRow, FailedRow, NoRow
  <2> QED BY <1>2, <2>1, <2>2
<1>6. row.jit \in {clock + 1, 0}
  BY <1>4 DEF MintedRow, FailedRow, NoRow
<1> QED BY <1>1, <1>2, <1>3, <1>4, <1>5, <1>6 DEF Method, SavesGood, Own, JITKept, Tick

(* The other methods save a row made from the one in memory. *)
LEMMA UpdateMethods ==
  ASSUME CPInv, NEW j \in Jobs, NEW row \in Row, Next, Save(j, row), UNCHANGED clock,
         row.created = byID[j].created, row.jit \in {byID[j].jit, 0},
         row.status = "minted" => byID[j].status = "minted",
         Exists(j), Own(j, row)
  PROVE  Method
<1>1. Good(j, byID[j]) /\ byID[j] \in Row /\ clock \in Nat /\ clock <= MaxClock
  BY DEF CPInv, StoreGood, TypeOK, RestInv
<1>2. byID[j].created \in Nat /\ byID[j].jit \in Nat /\ MaxClock \in Nat
  BY <1>1, StoreConstants DEF Row
<1>3. row.created <= clock /\ row.jit <= clock /\ row.created # 0
  BY <1>1, <1>2 DEF Good, Dated, Exists
<1> QED BY <1>1, <1>3 DEF Method, SavesGood, JITKept

LEMMA SameOwner ==
  ASSUME CPInv, NEW j \in Jobs, NEW row, row.vm = byID[j].vm, row.agent = byID[j].agent
  PROVE  Own(j, row)
BY DEF CPInv, StoreGood, Good, Own

LEMMA SetMetaMethod ==
  ASSUME CPInv, NEW j \in Jobs, SetMeta(j)
  PROVE  Method
<1>1. Next
  BY DEF Next, JobStep
<1>2. byID[j] \in Row
  BY DEF CPInv, TypeOK
<1> QED BY <1>1, <1>2, SameOwner, UpdateMethods DEF SetMeta

LEMMA TerminalMethods ==
  ASSUME CPInv, NEW j \in Jobs, NEW o \in Outcomes,
         ApplyGitHubOutcome(j, o) \/ Cancel(j) \/ MarkFailed(j)
  PROVE  Method
<1>1. Next
  BY DEF Next, JobStep
<1>2. byID[j] \in Row
  BY DEF CPInv, TypeOK
<1>3. Exists(j)
  BY DEF ApplyGitHubOutcome, Cancel, MarkFailed, CanCancel, Exists, Live, Claimed
<1>4. PICK row : /\ Save(j, row) /\ UNCHANGED clock
                 /\ row \in {[byID[j] EXCEPT !.status = "finished", !.outcome = o, !.jit = 0],
                             [byID[j] EXCEPT !.status = "finished", !.outcome = "cancelled",
                                             !.jit = 0],
                             [byID[j] EXCEPT !.status = "failed", !.jit = 0]}
  BY DEF ApplyGitHubOutcome, Cancel, MarkFailed
<1>5. /\ row \in Row /\ row.created = byID[j].created /\ row.jit = 0
      /\ row.vm = byID[j].vm /\ row.agent = byID[j].agent /\ row.status # "minted"
  <2>1. CASE row = [byID[j] EXCEPT !.status = "finished", !.outcome = o, !.jit = 0]
    BY <1>2, <2>1 DEF Row, Terminal
  <2>2. CASE row = [byID[j] EXCEPT !.status = "finished", !.outcome = "cancelled", !.jit = 0]
    BY <1>2, <2>2, StoreConstants DEF Row, Terminal
  <2>3. CASE row = [byID[j] EXCEPT !.status = "failed", !.jit = 0]
    BY <1>2, <2>3 DEF Row, Terminal
  <2> QED BY <1>4, <2>1, <2>2, <2>3
<1> QED BY <1>1, <1>3, <1>4, <1>5, SameOwner, UpdateMethods

LEMMA MarkStartedMethod ==
  ASSUME CPInv, NEW j \in Jobs, NEW a \in Agents, NEW v \in VMs, MarkStarted(j, a, v),
         bound[v] = <<a, j>>
  PROVE  Method
<1>1. Next
  BY DEF Next, JobStep
<1>2. byID[j] \in Row
  BY DEF CPInv, TypeOK
<1> DEFINE row == [byID[j] EXCEPT !.status = "started", !.agent = a, !.vm = v]
<1>3. /\ row \in Row /\ row.created = byID[j].created /\ row.jit = byID[j].jit
      /\ row.vm = v /\ row.agent = a /\ row.status # "minted"
  BY <1>2 DEF Row, Live, Claimed
<1>4. Exists(j) /\ Save(j, row) /\ UNCHANGED clock
  BY DEF MarkStarted, CanStart, Exists, Claimed
<1> HIDE DEF row
<1>5. Own(j, row)
  BY <1>3 DEF Own
<1> QED BY <1>1, <1>3, <1>4, <1>5, UpdateMethods

LEMMA MarkFinishedMethod ==
  ASSUME CPInv, NEW j \in Jobs, NEW a \in Agents, NEW o \in Outcomes, NEW v \in VMs \cup {NoVM},
         MarkFinished(j, a, o, v), v # NoVM => bound[v] = <<a, j>>
  PROVE  Method
<1>1. Next
  BY DEF Next, JobStep
<1>2. byID[j] \in Row /\ Own(j, byID[j]) /\ RestInv
  BY DEF CPInv, TypeOK, StoreGood, Good
<1> DEFINE row == [byID[j] EXCEPT
                     !.status  = "finished",
                     !.agent   = a,
                     !.outcome = IF byID[j].status = "finished" THEN @ ELSE o,
                     !.vm      = IF v = NoVM THEN @ ELSE v,
                     !.jit     = 0]
<1>3. /\ row \in Row /\ row.created = byID[j].created /\ row.jit = 0
      /\ row.vm = (IF v = NoVM THEN byID[j].vm ELSE v) /\ row.agent = a
      /\ row.status # "minted"
  BY <1>2 DEF Row, Terminal
<1>4. Exists(j) /\ Save(j, row) /\ UNCHANGED clock /\ byID[j].agent \in {NoAgent, a}
  BY DEF MarkFinished, CanFinish, OwnedBy, Exists, Claimed
<1> HIDE DEF row
<1>5. Own(j, row)
  <2>1. byID[j].vm # NoVM => byID[j].agent = a
    BY <1>2, <1>4, OwnerOfVM, StoreConstants DEF Row
  <2> QED BY <1>2, <1>3, <2>1 DEF Own
<1> QED BY <1>1, <1>3, <1>4, <1>5, UpdateMethods

LEMMA ClaimMethod ==
  ASSUME CPInv, NEW a \in Agents, NEW cached \in SUBSET Repos, ClaimNext(a, cached)
  PROVE  Method /\ \E j \in Jobs : /\ byID'[j].status = "assigned"
                                   /\ \A k \in Jobs \ {j} : byID'[k] = byID[k]
<1>1. Next
  BY DEF Next
<1>2. PICK i \in DOMAIN pending :
        /\ byID[pending[i]].status = "minted"
        /\ Save(pending[i], [byID[pending[i]] EXCEPT !.status = "assigned", !.agent = a])
        /\ UNCHANGED clock
  BY DEF ClaimNext, pickPendingLocked, Preferred, Claimable
<1> DEFINE j == pending[i]
           row == [byID[j] EXCEPT !.status = "assigned", !.agent = a]
<1>3. j \in Jobs
  BY DEF CPInv, TypeOK
<1> HIDE DEF j
<1>4. /\ row \in Row /\ row.created = byID[j].created /\ row.jit = byID[j].jit
      /\ row.vm = byID[j].vm /\ row.status = "assigned"
  BY <1>3 DEF CPInv, TypeOK, Row, Live, Claimed
<1>5. byID[j].vm = NoVM
  <2>1. Own(j, byID[j]) /\ byID[j] \in Row /\ RowOK(byID[j]) /\ RestInv
    BY <1>3 DEF CPInv, TypeOK, StoreGood, Good, RowsOK
  <2>2. byID[j].agent = NoAgent
    BY <1>2, <2>1 DEF j, RowOK, RowOwner
  <2> QED BY <2>1, <2>2, OwnerOfVM, StoreConstants DEF Row
<1> HIDE DEF row
<1>6. Save(j, row) /\ byID' = [byID EXCEPT ![j] = row] /\ Exists(j)
  BY <1>2 DEF j, row, Save, Exists
<1>7. Method
  BY <1>1, <1>2, <1>3, <1>4, <1>5, <1>6, UpdateMethods DEF Own
<1> QED BY <1>3, <1>4, <1>6, <1>7 DEF CPInv, TypeOK

(* The steps of the store itself. *)
StoreOnly ==
  \/ \E mem, rows \in SUBSET Jobs : PruneFinished(mem, rows)
  \/ \E f \in flushing : Persist(f) \/ PersistFails(f)
  \/ Restart /\ calls' = {}

StoreStep == Stays \/ Method \/ StoreOnly

LEMMA StoreStepIsNext ==
  ASSUME StoreStep
  PROVE  [Next]_storeVars
BY DEF StoreStep, Stays, Method, StoreOnly, Next

-----------------------------------------------------------------------------
(* What is good stays good: a VM is bound once, the clock only grows. *)

BoundGrows ==
  bound' \in [VMs -> (Agents \X Jobs) \cup {<<>>}]
  /\ \A v \in VMs : bound[v] # <<>> => bound'[v] = bound[v]

LEMMA ClockGrows ==
  ASSUME CPInv, StoreStep
  PROVE  clock' \in {clock, clock + 1} /\ clock' <= MaxClock /\ clock \in Nat
<1>1. clock <= MaxClock /\ clock \in Nat
  BY DEF CPInv, RestInv, TypeOK
<1> QED BY <1>1 DEF StoreStep, Stays, Method, SavesGood, StoreOnly, PruneFinished, Persist,
                    PersistFails, Restart, storeVars

LEMMA PairStays ==
  ASSUME CPInv, BoundGrows, NEW v \in VMs, NEW a, NEW j, bound[v] = <<a, j>>
  PROVE  bound'[v] = <<a, j>>
BY DEF BoundGrows

(* A row that is not primed, in the next state. *)
GoodLater(j, row) ==
  /\ row.vm # NoVM => bound'[row.vm] = <<row.agent, j>>
  /\ row.created <= clock' /\ row.jit <= clock' /\ (row.status # "none" => row.created # 0)

LEMMA GoodStays ==
  ASSUME CPInv, StoreStep, BoundGrows, NEW j, NEW row \in Row, Good(j, row)
  PROVE  GoodLater(j, row)
<1>1. clock' \in {clock, clock + 1} /\ clock \in Nat
  BY ClockGrows
<1>2. row.vm \in VMs \cup {NoVM} /\ row.created \in Nat /\ row.jit \in Nat
  BY DEF Row
<1>3. row.created <= clock' /\ row.jit <= clock' /\ (row.status # "none" => row.created # 0)
  BY <1>1, <1>2 DEF Good, Dated
<1>4. row.vm # NoVM => bound'[row.vm] = <<row.agent, j>>
  BY <1>2, PairStays DEF Good, Own
<1> QED BY <1>3, <1>4 DEF GoodLater

LEMMA NoRowGood ==
  ASSUME NEW j, clock' \in Nat
  PROVE  GoodLater(j, NoRow)
BY DEF GoodLater, NoRow

LEMMA StoreKept ==
  ASSUME CPInv, StoreStep, BoundGrows
  PROVE  TypeOK' /\ RowsOK' /\ StoreGood' /\ clock' <= MaxClock
<1>1. TypeOK' /\ RowsOK'
  BY StoreStepIsNext, NextRows DEF CPInv
<1>2. clock' <= MaxClock /\ clock' \in Nat
  BY ClockGrows
<1>3. /\ \A j \in Jobs : /\ byID[j] \in Row /\ GoodLater(j, byID[j])
                         /\ disk[j] \in Row /\ GoodLater(j, disk[j])
      /\ \A f \in flushing : f.row \in Row /\ f.job \in Jobs /\ GoodLater(f.job, f.row)
  <2>1. /\ \A j \in Jobs : byID[j] \in Row /\ disk[j] \in Row
        /\ \A f \in flushing : f.row \in Row /\ f.job \in Jobs
    BY DEF CPInv, TypeOK, Copy
  <2> QED BY <2>1, GoodStays DEF CPInv, StoreGood
<1> SUFFICES StoreGood'
  BY <1>1, <1>2
<1>4. CASE Stays
  BY <1>3, <1>4 DEF Stays, storeVars, StoreGood, Good, Own, Dated, GoodLater
<1>5. CASE Method
  <2>1. PICK j \in Jobs, row \in Row :
          /\ Save(j, row) /\ Own(j, row)
          /\ row.created <= clock' /\ row.jit <= clock' /\ (row.status # "none" => row.created # 0)
    BY <1>5 DEF Method, SavesGood
  <2>2. GoodLater(j, row)
    <3>1. row.vm # NoVM => bound'[row.vm] = <<row.agent, j>>
      BY <2>1, PairStays DEF Own, Row
    <3> QED BY <2>1, <3>1 DEF GoodLater
  <2>3. /\ \A k \in Jobs : byID'[k] = (IF k = j THEN row ELSE byID[k]) /\ disk'[k] = disk[k]
        /\ \A f \in flushing' : f \in flushing \/ (f.job = j /\ f.row = row)
    BY <2>1 DEF Save, CPInv, TypeOK
  <2> QED BY <1>3, <2>2, <2>3 DEF StoreGood, Good, Own, Dated, GoodLater
<1>6. CASE \E mem, rows \in SUBSET Jobs : PruneFinished(mem, rows)
  <2>1. /\ \A j \in Jobs : byID'[j] \in {byID[j], NoRow} /\ disk'[j] \in {disk[j], NoRow}
        /\ flushing' = flushing
    BY <1>6 DEF PruneFinished
  <2> QED BY <1>2, <1>3, <2>1, NoRowGood DEF StoreGood, Good, Own, Dated, GoodLater
<1>7. ASSUME NEW f \in flushing, Persist(f) \/ PersistFails(f) PROVE StoreGood'
  <2> DEFINE u == UpsertAssignment(f.row)
  <2>1. /\ u.vm = f.row.vm /\ u.agent = f.row.agent /\ u.status = f.row.status
        /\ u.created = f.row.created /\ u.jit \in {f.row.jit, 0}
    BY <1>3 DEF UpsertAssignment, Row
  <2> HIDE DEF u
  <2>2. GoodLater(f.job, u)
    BY <1>2, <1>3, <2>1 DEF GoodLater
  <2>3. /\ byID' = byID /\ flushing' \subseteq flushing
        /\ disk' = disk \/ disk' = [disk EXCEPT ![f.job] = u]
    BY <1>7 DEF Persist, PersistFails, u
  <2> QED BY <1>3, <2>2, <2>3 DEF CPInv, TypeOK, StoreGood, Good, Own, Dated, GoodLater
<1>8. CASE Restart
  BY <1>3, <1>8 DEF Restart, StoreGood, Good, Own, Dated, GoodLater
<1> QED BY <1>4, <1>5, <1>6, <1>7, <1>8 DEF StoreStep, StoreOnly

LEMMA CallStays ==
  ASSUME CPInv, StoreStep, BoundGrows, NEW c \in Call, CallGood(c)
  PROVE  CallGood(c)'
<1>1. c.row \in Row /\ c.row.vm \in VMs \cup {NoVM} /\ c.row.jit \in Nat /\ c.row.created \in Nat
  BY DEF Call, Row
<1>2. clock' \in {clock, clock + 1} /\ clock \in Nat
  BY ClockGrows
<1>3. c.op \in {"complete", "cancel"} => GoodLater(c.job, c.row) /\ RowOK(c.row)
  BY <1>1, GoodStays DEF CallGood
<1>4. c.op = "remint" => c.row.created \in 1..clock'
  BY <1>1, <1>2 DEF CallGood
<1>5. c.op = "remint" /\ c.agent # NoAgent /\ c.row.vm # NoVM => bound'[c.row.vm] = <<c.agent, c.job>>
  BY <1>1, PairStays DEF CallGood
<1>6. c.op = "claimed" => c.agent \in Agents /\ c.row.jit \in 1..clock'
  BY <1>1, <1>2 DEF CallGood
<1> QED BY <1>3, <1>4, <1>5, <1>6 DEF CallGood, RowOK, RowHoldsJIT, RowOwner, Good, GoodLater, Own, Dated

LEMMA CallsKept ==
  ASSUME CPInv, StoreStep, BoundGrows, NEW c, calls' \subseteq calls \cup {c},
         c \in calls' /\ c \notin calls => c \in Call /\ CallGood(c)'
  PROVE  CallsInv'
BY CallStays DEF CPInv, CallsInv

LEMMA TodoStays ==
  ASSUME CPInv, StoreStep, BoundGrows, NEW x \in recon.todo
  PROVE  x \in Copy /\ GoodLater(x.job, x.row) /\ RowOK(x.row)
<1>1. x \in Copy /\ x.row \in Row /\ Good(x.job, x.row) /\ RowOK(x.row)
  BY DEF CPInv, ReconInv, TodoGood, Copy
<1> QED BY <1>1, GoodStays

LEMMA ReconKept ==
  ASSUME CPInv, StoreStep, BoundGrows,
         recon' \in [phase : {"idle", "stuck", "stale"}, todo : SUBSET recon.todo],
         recon'.phase = recon.phase \/ recon'.todo = {}
  PROVE  ReconInv'
<1>1. recon'.todo \subseteq recon.todo /\ recon' \in [phase : {"idle", "stuck", "stale"}, todo : SUBSET Copy]
  BY TodoStays
<1>2. \A x \in recon'.todo : recon'.phase = "stuck" => x.row.status \in Claimed
  BY <1>1 DEF CPInv, ReconInv, TodoGood
<1>3. \A x \in recon'.todo : TodoGood(x)'
  BY <1>1, <1>2, TodoStays DEF TodoGood, RowOK, RowHoldsJIT, RowOwner, Good, GoodLater, Own, Dated
<1> QED BY <1>1, <1>3 DEF ReconInv

LEMMA RunStays ==
  ASSUME CPInv, BoundGrows, NEW a \in Agents, NEW r \in Run, RunGood(a, r)
  PROVE  RunGood(a, r)'
BY PairStays DEF RunGood, Run

LEMMA RunsKept ==
  ASSUME CPInv, BoundGrows, runs' \in [Agents -> SUBSET Run],
         \A a \in Agents : \A r \in runs'[a] : r \in runs[a] \/ RunGood(a, r)'
  PROVE  RunsInv'
BY RunStays DEF CPInv, RunsInv

LEMMA CmdKept ==
  ASSUME CPInv, BoundGrows, cmdq' \in [Agents -> SUBSET [vm : VMs, job : Jobs \cup {NoJob}]],
         \A a \in Agents : cmdq'[a] \subseteq cmdq[a]
  PROVE  CmdInv'
<1>1. \A a \in Agents : \A k \in cmdq[a] : k.job # NoJob => k.vm \in VMs /\ bound[k.vm] = <<a, k.job>>
  BY DEF CPInv, CmdInv, KillsHitOwnJob
<1> QED BY <1>1, PairStays DEF CmdInv, KillsHitOwnJob

(* enqueueKill: a kill built from a good copy names its own job's VM. *)
LEMMA KillGood ==
  ASSUME CPInv, NEW a \in Agents \cup {NoAgent}, NEW v \in VMs \cup {NoVM},
         NEW j \in Jobs \cup {NoJob}, Kill(a, v, j), UNCHANGED bound,
         a # NoAgent /\ v # NoVM /\ j # NoJob => bound[v] = <<a, j>>
  PROVE  CmdInv'
<1>1. cmdq \in [Agents -> SUBSET [vm : VMs, job : Jobs \cup {NoJob}]] /\ KillsHitOwnJob
  BY DEF CPInv, CmdInv
<1>2. CASE a = NoAgent \/ v = NoVM
  BY <1>1, <1>2 DEF Kill, CmdInv, KillsHitOwnJob
<1>3. CASE ~(a = NoAgent \/ v = NoVM)
  <2> DEFINE k == [vm |-> v, job |-> j]
  <2>1. cmdq' = [cmdq EXCEPT ![a] = @ \cup {k}]
    BY <1>3 DEF Kill
  <2>2. k \in [vm : VMs, job : Jobs \cup {NoJob}] /\ (k.job # NoJob => bound[k.vm] = <<a, k.job>>)
    BY <1>3
  <2> HIDE DEF k
  <2>3. \A b \in Agents : \A x \in cmdq'[b] : x \in cmdq[b] \/ (x = k /\ b = a)
    BY <1>1, <2>1
  <2> QED BY <1>1, <1>3, <2>1, <2>2, <2>3 DEF CmdInv, KillsHitOwnJob
<1> QED BY <1>2, <1>3

LEMMA BoundSame ==
  ASSUME CPInv, UNCHANGED bound
  PROVE  BoundGrows
BY DEF CPInv, RestInv, BoundGrows

LEMMA Assemble ==
  ASSUME CPInv, StoreStep, BoundGrows, CallsInv', ReconInv', RunsInv', CmdInv',
         stimuli' \in 0..MaxStimuli, handed' \subseteq 1..MaxClock, verdict' \subseteq Jobs
  PROVE  CPInv'
BY StoreKept DEF CPInv, RestInv, BoundGrows

(* Most steps leave most of the handlers' bookkeeping alone. *)
LEMMA ReconSame ==
  ASSUME CPInv, StoreStep, BoundGrows, UNCHANGED recon
  PROVE  ReconInv'
BY ReconKept DEF CPInv, ReconInv

LEMMA RunsSame ==
  ASSUME CPInv, BoundGrows, UNCHANGED runs
  PROVE  RunsInv'
BY RunsKept DEF CPInv, RunsInv

LEMMA CmdSame ==
  ASSUME CPInv, BoundGrows, UNCHANGED cmdq
  PROVE  CmdInv'
BY CmdKept DEF CPInv, CmdInv

LEMMA CallsFewer ==
  ASSUME CPInv, StoreStep, BoundGrows, calls' \subseteq calls
  PROVE  CallsInv'
BY CallStays DEF CPInv, CallsInv

Preserves == StoreStep /\ CPInv'

-----------------------------------------------------------------------------
(* Webhooks and the dashboard's requests, up to the copy of the row. *)

LEMMA CopyGood ==
  ASSUME CPInv, NEW j \in Jobs
  PROVE  byID[j] \in Row /\ Good(j, byID[j]) /\ RowOK(byID[j])
BY DEF CPInv, TypeOK, StoreGood, RowsOK

LEMMA CallBegins ==
  ASSUME CPInv, NEW c \in Call, CallGood(c), calls' = calls \cup {c}, UNCHANGED storeVars,
         UNCHANGED <<recon, cmdq, runs, bound, handed, verdict>>, stimuli' \in 0..MaxStimuli
  PROVE  Preserves
<1>1. StoreStep /\ BoundGrows
  BY BoundSame DEF StoreStep, Stays
<1>2. CallGood(c)'
  BY <1>1, CallStays
<1>3. CallsInv'
  BY <1>1, <1>2, CallsKept
<1>4. handed' \subseteq 1..MaxClock /\ verdict' \subseteq Jobs
  BY DEF CPInv, RestInv
<1> QED BY <1>1, <1>3, <1>4, ReconSame, RunsSame, CmdSame, Assemble DEF Preserves

LEMMA StimulusType ==
  ASSUME CPInv, Stimulus
  PROVE  stimuli' \in 0..MaxStimuli
BY ControlConstants DEF CPInv, RestInv, Stimulus

LEMMA RequestStep ==
  ASSUME CPInv, NEW j \in Jobs, Webhook(j) \/ CancelRequest(j)
  PROVE  Preserves
<1>1. byID[j] \in Row /\ Good(j, byID[j]) /\ RowOK(byID[j]) /\ NoRow \in Row
  BY CopyGood, NoRowOK
<1>2. stimuli' \in 0..MaxStimuli
  BY StimulusType DEF Webhook, WebhookQueued, WebhookInProgress, WebhookCompleted, CancelRequest
<1>3. CASE WebhookQueued(j)
  <2> DEFINE c == Handler("mint", j, NoAgent, NoRow)
  <2>1. c \in Call /\ CallGood(c)
    BY <1>1 DEF Handler, Call, CallGood
  <2> HIDE DEF c
  <2>2. calls' = calls \cup {c}
    BY <1>3 DEF WebhookQueued, Begin, c
  <2> QED BY <1>2, <1>3, <2>1, <2>2, CallBegins DEF WebhookQueued
<1>4. CASE WebhookInProgress(j)
  <2> DEFINE c == Handler("remint", j, NoAgent, byID[j])
  <2>1. byID[j].created \in 1..clock
    <3>1. clock \in Nat /\ byID[j].created \in Nat
      BY <1>1 DEF Row, CPInv, TypeOK
    <3>2. byID[j].created <= clock /\ byID[j].created # 0
      BY <1>1, <1>4 DEF WebhookInProgress, Exists, Good, Dated
    <3> QED BY <3>1, <3>2
  <2>2. c \in Call /\ CallGood(c)
    BY <1>1, <2>1 DEF Handler, Call, CallGood
  <2> HIDE DEF c
  <2>3. calls' = calls \cup {c}
    BY <1>4 DEF WebhookInProgress, Begin, c
  <2> QED BY <1>2, <1>4, <2>2, <2>3, CallBegins DEF WebhookInProgress
<1>5. CASE WebhookCompleted(j) \/ CancelRequest(j)
  <2>1. PICK op \in {"complete", "cancel"} :
          /\ calls' = calls \cup {Handler(op, j, NoAgent, byID[j])}
          /\ UNCHANGED <<storeVars, recon, cmdq, runs, bound, handed, verdict>>
    BY <1>5 DEF WebhookCompleted, CancelRequest, Begin
  <2> DEFINE c == Handler(op, j, NoAgent, byID[j])
  <2>2. c \in Call /\ CallGood(c)
    BY <1>1 DEF Handler, Call, CallGood
  <2> HIDE DEF c
  <2>3. calls' = calls \cup {c}
    BY <2>1 DEF c
  <2> QED BY <1>2, <2>1, <2>2, <2>3, CallBegins
<1> QED BY <1>3, <1>4, <1>5 DEF Webhook

-----------------------------------------------------------------------------
(* Handlers that go on after their call to GitHub. *)

LEMMA CancelStep ==
  ASSUME CPInv, NEW j \in Jobs, CancelOrConflict(j)
  PROVE  StoreStep
BY TerminalMethods, StoreConstants DEF CancelOrConflict, StoreStep, Stays

LEMMA FailStep ==
  ASSUME CPInv, NEW j \in Jobs, FailOrUnknown(j)
  PROVE  StoreStep
BY TerminalMethods, StoreConstants DEF FailOrUnknown, StoreStep, Stays

(* MarkFinished by the agent and with the VM of a good copy. *)
LEMMA FinishStep ==
  ASSUME CPInv, NEW j \in Jobs, NEW row \in Row, Own(j, row), RowOK(row),
         row.status \in Claimed, NEW o \in Outcomes, MarkFinished(j, row.agent, o, row.vm)
  PROVE  StoreStep
<1>1. row.agent \in Agents /\ row.vm \in VMs \cup {NoVM}
  BY DEF RowOK, RowOwner, Row
<1> QED BY <1>1, MarkFinishedMethod DEF Own, StoreStep

(* The job, agent and row of a handler are typed. *)
LEMMA CallFacts ==
  ASSUME CPInv, NEW c \in calls
  PROVE  /\ CallGood(c)
         /\ c.job \in Jobs /\ c.agent \in Agents \cup {NoAgent} /\ c.row \in Row
         /\ c.row.agent \in Agents \cup {NoAgent} /\ c.row.vm \in VMs \cup {NoVM}
BY DEF CPInv, CallsInv, Call, Row

LEMMA CallEnds ==
  ASSUME CPInv, StoreStep, calls' \subseteq calls, CmdInv', UNCHANGED <<recon, runs, bound, stimuli, handed>>,
         verdict' \subseteq Jobs
  PROVE  Preserves
<1>1. BoundGrows
  BY BoundSame
<1>2. stimuli' \in 0..MaxStimuli /\ handed' \subseteq 1..MaxClock
  BY DEF CPInv, RestInv
<1> QED BY <1>1, <1>2, CallsFewer, ReconSame, RunsSame, Assemble DEF Preserves

LEMMA PutStep ==
  ASSUME CPInv, NEW c \in calls, HandleWorkflowJob(c) \/ Remint(c)
  PROVE  Preserves
<1>1. Method
  <2>1. CASE HandleWorkflowJob(c)
    <3>1. PutMinted(c.job) \/ PutFailed(c.job)
      BY <2>1 DEF HandleWorkflowJob
    <3> QED BY <3>1, CallFacts, PutMethods
  <2>2. CASE Remint(c)
    <3>1. PutAgain(c.job, c.row.created) /\ c.row.created \in 1..clock
      BY <2>2, CallFacts DEF Remint, CallGood
    <3> QED BY <3>1, CallFacts, PutMethods
  <2> QED BY <2>1, <2>2
<1>2. /\ StoreStep
      /\ calls' \subseteq calls /\ UNCHANGED <<recon, cmdq, runs, bound, stimuli, handed>>
      /\ verdict' \subseteq Jobs
  BY <1>1 DEF HandleWorkflowJob, Remint, End, StoreStep, CPInv, RestInv
<1> QED BY <1>2, BoundSame, CmdSame, CallEnds

LEMMA FinishFromGitHubStep ==
  ASSUME CPInv, NEW c \in calls, finishFromGitHub(c)
  PROVE  Preserves
<1>1. CallGood(c) /\ c.job \in Jobs /\ c.row \in Row
      /\ c.row.agent \in Agents \cup {NoAgent} /\ c.row.vm \in VMs \cup {NoVM}
  BY CallFacts
<1>2. Good(c.job, c.row) /\ RowOK(c.row) /\ Conclusion \in Outcomes
  BY <1>1, ControlConstants DEF finishFromGitHub, CallGood
<1>3. /\ calls' \subseteq calls /\ UNCHANGED <<recon, runs, bound, stimuli, handed>>
      /\ verdict' \subseteq Jobs
  BY <1>1 DEF finishFromGitHub, End, CPInv, RestInv
<1>4. StoreStep
  <2>1. ASSUME ApplyGitHubOutcome(c.job, Conclusion) PROVE StoreStep
    BY <1>1, <1>2, <2>1, TerminalMethods DEF StoreStep
  <2>2. ASSUME CancelOrConflict(c.job) \/ FailOrUnknown(c.job) PROVE StoreStep
    BY <1>1, <2>2, CancelStep, FailStep
  <2>3. ASSUME c.row.status \in Claimed, MarkFinished(c.job, c.row.agent, Conclusion, c.row.vm)
        PROVE  StoreStep
    BY <1>1, <1>2, <2>3, FinishStep DEF Good
  <2>4. ASSUME UNCHANGED storeVars PROVE StoreStep
    BY <2>4 DEF StoreStep, Stays
  <2> QED BY <2>1, <2>2, <2>3, <2>4 DEF finishFromGitHub
<1>5. CmdInv'
  <2>1. CASE UNCHANGED cmdq
    BY <1>3, <2>1, BoundSame, CmdSame
  <2>2. CASE Kill(c.row.agent, c.row.vm, c.job)
    BY <1>1, <1>2, <1>3, <2>2, KillGood DEF Good, Own
  <2> QED BY <2>1, <2>2 DEF finishFromGitHub
<1> QED BY <1>3, <1>4, <1>5, CallEnds

LEMMA HandleJobCancelStep ==
  ASSUME CPInv, NEW c \in calls, handleJobCancel(c)
  PROVE  Preserves
<1>1. CallGood(c) /\ c.job \in Jobs /\ c.row \in Row
      /\ c.row.agent \in Agents \cup {NoAgent} /\ c.row.vm \in VMs \cup {NoVM}
  BY CallFacts
<1>2. Good(c.job, c.row)
  BY <1>1 DEF handleJobCancel, CallGood
<1>3. /\ calls' \subseteq calls /\ UNCHANGED <<recon, runs, bound, stimuli, handed>>
      /\ verdict' \subseteq Jobs
  BY DEF handleJobCancel, End, CPInv, RestInv
<1>4. StoreStep
  BY <1>1, TerminalMethods, StoreConstants DEF handleJobCancel, StoreStep, Stays
<1>5. CmdInv'
  <2>1. CASE UNCHANGED cmdq
    BY <1>3, <2>1, BoundSame, CmdSame
  <2>2. CASE Kill(c.row.agent, c.row.vm, c.job)
    BY <1>1, <1>2, <1>3, <2>2, KillGood DEF Good, Own
  <2> QED BY <2>1, <2>2 DEF handleJobCancel
<1> QED BY <1>3, <1>4, <1>5, CallEnds

LEMMA SetCacheStatsStep ==
  ASSUME CPInv, NEW c \in calls, SetCacheStats(c)
  PROVE  Preserves
<1>1. StoreStep
  BY CallFacts, SetMetaMethod DEF SetCacheStats, StoreStep, Stays
<1>2. /\ calls' \subseteq calls /\ UNCHANGED <<recon, cmdq, runs, bound, stimuli, handed>>
      /\ verdict' \subseteq Jobs
  BY DEF SetCacheStats, End, CPInv, RestInv
<1> QED BY <1>1, <1>2, BoundSame, CmdSame, CallEnds

-----------------------------------------------------------------------------
(* Agent requests. *)

LEMMA RunFacts ==
  ASSUME CPInv, NEW a \in Agents, NEW r \in runs[a]
  PROVE  r \in Run /\ r.job \in Jobs /\ r.vm \in VMs \cup {NoVM} /\ RunGood(a, r)
BY DEF CPInv, RunsInv, Run

(* FinishReport of the worker of the job and the VM it was bound to. *)
LEMMA FinishReportStep ==
  ASSUME CPInv, NEW a \in Agents, NEW j \in Jobs, NEW o \in Outcomes, NEW v \in VMs \cup {NoVM},
         v # NoVM => bound[v] = <<a, j>>, NEW others \in SUBSET calls, UNCHANGED bound,
         FinishReport(j, a, o, v, others)
  PROVE  StoreStep /\ CallsInv'
<1>1. StoreStep
  BY MarkFinishedMethod DEF FinishReport, StoreStep, Stays
<1> DEFINE c == Handler("stats", j, a, NoRow)
<1>2. c \in Call
  BY NoRowOK DEF Handler, Call
<1>3. CallGood(c)'
  BY DEF Handler, CallGood
<1>4. calls' \subseteq calls \cup {c}
  BY DEF FinishReport
<1> HIDE DEF c
<1> QED BY <1>1, <1>2, <1>3, <1>4, BoundSame, CallsKept

LEMMA RemintFailsStep ==
  ASSUME CPInv, NEW c \in calls, RemintFails(c)
  PROVE  Preserves
<1>1. UNCHANGED <<recon, cmdq, runs, bound, stimuli, handed, verdict>>
  BY DEF RemintFails
<1>2. StoreStep /\ CallsInv'
  <2>1. CASE c.agent = NoAgent
    <3>1. StoreStep /\ calls' \subseteq calls
      BY <2>1 DEF RemintFails, End, StoreStep, Stays
    <3> QED BY <1>1, <3>1, BoundSame, CallsFewer
  <2>2. CASE c.agent # NoAgent
    <3>1. FinishReport(c.job, c.agent, "error", c.row.vm, calls \ {c})
      BY <2>2 DEF RemintFails
    <3>2. c.row.vm # NoVM => bound[c.row.vm] = <<c.agent, c.job>>
      BY <2>2, CallFacts DEF RemintFails, CallGood
    <3>3. "error" \in Outcomes
      BY ControlConstants
    <3>4. c.agent \in Agents /\ c.job \in Jobs /\ c.row.vm \in VMs \cup {NoVM}
      BY <2>2, CallFacts
    <3>5. calls \ {c} \in SUBSET calls /\ UNCHANGED bound
      BY <1>1
    <3> QED BY <3>1, <3>2, <3>3, <3>4, <3>5, FinishReportStep, Zenon
  <2> QED BY <2>1, <2>2
<1>3. stimuli' \in 0..MaxStimuli /\ handed' \subseteq 1..MaxClock /\ verdict' \subseteq Jobs
  BY <1>1 DEF CPInv, RestInv
<1> QED BY <1>1, <1>2, <1>3, BoundSame, ReconSame, RunsSame, CmdSame, Assemble DEF Preserves

(* A claim's handler remembers the row with the secret it will hand out. *)
LEMMA ClaimStep ==
  ASSUME CPInv, NEW a \in Agents, NEW cached \in SUBSET Repos, handleJobClaim(a, cached)
  PROVE  Preserves
<1>1. Method /\ UNCHANGED <<recon, cmdq, runs, bound, stimuli, handed, verdict>>
  BY ClaimMethod DEF handleJobClaim
<1>2. StoreStep /\ BoundGrows
  BY <1>1, BoundSame DEF StoreStep
<1>3. PICK j0 \in Jobs : byID'[j0].status = "assigned" /\ \A k \in Jobs \ {j0} : byID'[k] = byID[k]
  BY ClaimMethod DEF handleJobClaim
<1>4. PICK j \in Jobs : byID'[j] # byID[j] /\ calls' = calls \cup {Handler("claimed", j, a, byID'[j])}
  BY DEF handleJobClaim, Begin
<1>5. PICK row : row = byID'[j]
  OBVIOUS
<1>6. row.status = "assigned" /\ row \in Row /\ RowOK(row) /\ row.jit <= clock'
  <2>1. TypeOK' /\ RowsOK' /\ StoreGood'
    BY <1>2, StoreKept
  <2>2. row \in Row /\ row.status = "assigned"
    BY <1>3, <1>4, <1>5, <2>1 DEF TypeOK
  <2>3. RowOK(row)
    BY <1>5, <2>1 DEF RowsOK, RowOK, RowHoldsJIT, RowOwner
  <2>4. row.jit <= clock'
    BY <1>5, <2>1 DEF StoreGood, Good, Dated
  <2> QED BY <2>2, <2>3, <2>4
<1> DEFINE c == Handler("claimed", j, a, row)
<1>7. c \in Call
  BY <1>6 DEF Handler, Call
<1>8. CallGood(c)'
  <2>1. row.jit \in Nat /\ row.jit # 0 /\ clock' \in Nat
    <3>1. clock' \in Nat
      BY <1>2, ClockGrows
    <3>2. row.jit \in Nat
      BY <1>6 DEF Row
    <3>3. row.jit # 0
      BY <1>6 DEF RowOK, RowHoldsJIT, Live, Claimed
    <3> QED BY <3>1, <3>2, <3>3
  <2>2. row.jit \in 1..clock'
    BY <1>6, <2>1
  <2> QED BY <2>2 DEF Handler, CallGood
<1>9. calls' = calls \cup {c}
  BY <1>4, <1>5
<1> HIDE DEF c
<1>10. CallsInv'
  BY <1>2, <1>7, <1>8, <1>9, CallsKept
<1>11. stimuli' \in 0..MaxStimuli /\ handed' \subseteq 1..MaxClock /\ verdict' \subseteq Jobs
  BY <1>1 DEF CPInv, RestInv
<1> QED BY <1>1, <1>2, <1>10, <1>11, ReconSame, RunsSame, CmdSame, Assemble DEF Preserves

LEMMA ClaimReplyStep ==
  ASSUME CPInv, NEW c \in calls, ClaimReply(c)
  PROVE  Preserves
<1>1. StoreStep /\ UNCHANGED <<recon, cmdq, bound, stimuli, verdict>> /\ calls' \subseteq calls
  BY DEF ClaimReply, End, StoreStep, Stays
<1>2. c.job \in Jobs /\ c.agent \in Agents /\ c.row.jit \in 1..clock
  BY CallFacts DEF ClaimReply, CallGood
<1> DEFINE r == [job |-> c.job, vm |-> NoVM, st |-> "claimed", killed |-> FALSE]
<1>3. r \in Run /\ \A a : RunGood(a, r)'
  BY <1>2 DEF Run, RunGood
<1>4. UNCHANGED runs \/ runs' = [runs EXCEPT ![c.agent] = @ \cup {r}]
  BY DEF ClaimReply
<1> HIDE DEF r
<1>5. RunsInv'
  <2>1. runs \in [Agents -> SUBSET Run]
    BY DEF CPInv, RunsInv
  <2> QED BY <1>1, <1>2, <1>3, <1>4, <2>1, BoundSame, RunsKept
<1>6. handed' \subseteq 1..MaxClock /\ stimuli' \in 0..MaxStimuli /\ verdict' \subseteq Jobs
  <2>1. handed \subseteq 1..MaxClock /\ clock <= MaxClock /\ clock \in Nat /\ MaxClock \in Nat
    BY StoreConstants DEF CPInv, RestInv, TypeOK
  <2>2. handed' \subseteq handed \cup {c.row.jit}
    BY DEF ClaimReply
  <2> QED BY <1>1, <1>2, <2>1, <2>2 DEF CPInv, RestInv
<1> QED BY <1>1, <1>5, <1>6, BoundSame, CallsFewer, ReconSame, CmdSame, Assemble DEF Preserves

LEMMA ContinueStep ==
  ASSUME CPInv, NEW c \in calls, Continue(c)
  PROVE  Preserves
BY PutStep, RemintFailsStep, FinishFromGitHubStep, HandleJobCancelStep, ClaimReplyStep,
   SetCacheStatsStep DEF Continue

(* The pool binds a VM that was never bound; from then on it is this job's. *)
LEMMA BindStep ==
  ASSUME CPInv, NEW a \in Agents, NEW r \in runs[a], NEW v \in VMs, BindVM(a, r, v)
  PROVE  Preserves
<1>1. r \in Run /\ r.job \in Jobs
  BY RunFacts
<1>2. StoreStep /\ UNCHANGED <<calls, recon, cmdq, stimuli, handed, verdict>>
  BY DEF BindVM, StoreStep, Stays
<1>3. bound' = [bound EXCEPT ![v] = <<a, r.job>>] /\ bound[v] = <<>>
      /\ bound \in [VMs -> (Agents \X Jobs) \cup {<<>>}]
  BY DEF BindVM, CPInv, RestInv
<1>4. BoundGrows
  BY <1>1, <1>3 DEF BoundGrows
<1> DEFINE next == [r EXCEPT !.vm = v, !.st = "bound"]
<1>5. next \in Run /\ next.vm = v /\ next.st = "bound" /\ next.job = r.job
  BY <1>1 DEF Run
<1>6. runs' = [runs EXCEPT ![a] = (@ \ {r}) \cup {next}]
  BY DEF BindVM, Advance
<1> HIDE DEF next
<1>7. RunGood(a, next)'
  BY <1>3, <1>5, StoreConstants DEF RunGood
<1>8. RunsInv'
  <2>1. runs \in [Agents -> SUBSET Run]
    BY DEF CPInv, RunsInv
  <2>2. runs' \in [Agents -> SUBSET Run]
    BY <1>5, <1>6, <2>1
  <2>3. \A b \in Agents : \A x \in runs'[b] : x \in runs[b] \/ (b = a /\ x = next)
    BY <1>6, <2>1
  <2> QED BY <1>4, <1>7, <2>2, <2>3, RunsKept
<1>9. stimuli' \in 0..MaxStimuli /\ handed' \subseteq 1..MaxClock /\ verdict' \subseteq Jobs
  BY <1>2 DEF CPInv, RestInv
<1> QED BY <1>2, <1>4, <1>8, <1>9, CallsFewer, ReconSame, CmdSame, Assemble DEF Preserves

LEMMA StartedStep ==
  ASSUME CPInv, NEW a \in Agents, NEW r \in runs[a], handleJobStarted(a, r)
  PROVE  Preserves
<1>1. r \in Run /\ r.job \in Jobs /\ r.vm \in VMs /\ bound[r.vm] = <<a, r.job>>
  BY RunFacts DEF handleJobStarted, RunGood
<1>2. UNCHANGED <<calls, recon, cmdq, bound, stimuli, handed, verdict>>
  BY DEF handleJobStarted
<1>3. StoreStep
  BY <1>1, MarkStartedMethod DEF handleJobStarted, StoreStep, Stays
<1> DEFINE next == [r EXCEPT !.st = "running"]
<1>4. next \in Run /\ next.vm = r.vm /\ next.job = r.job /\ next.st = "running"
  BY <1>1 DEF Run
<1>5. runs' = [runs EXCEPT ![a] = (@ \ {r}) \cup {next}]
  BY DEF handleJobStarted, Advance
<1> HIDE DEF next
<1>6. RunGood(a, next)'
  BY <1>1, <1>2, <1>4, StoreConstants DEF RunGood
<1>7. RunsInv'
  <2>1. runs \in [Agents -> SUBSET Run]
    BY DEF CPInv, RunsInv
  <2>2. runs' \in [Agents -> SUBSET Run]
    BY <1>4, <1>5, <2>1
  <2>3. \A b \in Agents : \A x \in runs'[b] : x \in runs[b] \/ (b = a /\ x = next)
    BY <1>5, <2>1
  <2> QED BY <1>2, <1>6, <2>2, <2>3, BoundSame, RunsKept
<1>8. stimuli' \in 0..MaxStimuli /\ handed' \subseteq 1..MaxClock /\ verdict' \subseteq Jobs
  BY <1>2 DEF CPInv, RestInv
<1> QED BY <1>2, <1>3, <1>7, <1>8, BoundSame, CallsFewer, ReconSame, CmdSame, Assemble DEF Preserves

(* The row a report is to be reminted from gets the VM of the run. *)
LEMMA FinishedStep ==
  ASSUME CPInv, NEW a \in Agents, NEW r \in runs[a], handleJobFinished(a, r)
  PROVE  Preserves
<1>1. r \in Run /\ r.job \in Jobs /\ r.vm \in VMs \cup {NoVM}
      /\ (r.vm # NoVM => bound[r.vm] = <<a, r.job>>)
  BY RunFacts DEF RunGood
<1>2. UNCHANGED <<recon, cmdq, bound, stimuli, handed, verdict>>
  BY DEF handleJobFinished
<1>3. BoundGrows
  BY <1>2, BoundSame
<1>4. StoreStep /\ CallsInv'
  <2>1. CASE \E o \in RunOutcome(r) : FinishReport(r.job, a, o, r.vm, calls)
    <3>1. PICK o \in Outcomes : FinishReport(r.job, a, o, r.vm, calls)
      BY <2>1, ControlConstants DEF RunOutcome
    <3>2. calls \in SUBSET calls /\ UNCHANGED bound
      BY <1>2
    <3> QED BY <1>1, <3>1, <3>2, FinishReportStep, Zenon
  <2>2. CASE /\ byID[r.job].status \in Live
             /\ Begin(Handler("remint", r.job, a, [byID[r.job] EXCEPT !.vm = r.vm]))
             /\ UNCHANGED storeVars
    <3> DEFINE row == [byID[r.job] EXCEPT !.vm = r.vm]
               c == Handler("remint", r.job, a, row)
    <3>1. byID[r.job] \in Row /\ Good(r.job, byID[r.job])
      BY <1>1, CopyGood
    <3>2. row \in Row /\ row.vm = r.vm /\ row.created = byID[r.job].created
      BY <1>1, <3>1 DEF Row
    <3>3. row.created \in 1..clock
      <4>1. clock \in Nat /\ row.created \in Nat
        BY <3>1, <3>2 DEF CPInv, TypeOK, Row
      <4>2. row.created <= clock /\ row.created # 0
        BY <2>2, <3>1, <3>2 DEF Good, Dated, Live, Claimed
      <4> QED BY <4>1, <4>2
    <3> HIDE DEF row
    <3>4. c \in Call /\ CallGood(c)
      BY <1>1, <3>2, <3>3 DEF Handler, Call, CallGood
    <3>5. calls' = calls \cup {c} /\ StoreStep
      BY <2>2 DEF Begin, row, StoreStep, Stays
    <3> HIDE DEF c
    <3> QED BY <1>3, <3>4, <3>5, CallStays, CallsKept
  <2>3. CASE UNCHANGED <<storeVars, calls>>
    <3>1. StoreStep
      BY <2>3 DEF StoreStep, Stays
    <3> QED BY <1>3, <2>3, <3>1, CallsFewer
  <2> QED BY <2>1, <2>2, <2>3 DEF handleJobFinished
<1>5. RunsInv'
  <2>1. runs \in [Agents -> SUBSET Run]
    BY DEF CPInv, RunsInv
  <2>2. runs' = [runs EXCEPT ![a] = @ \ {r}]
    BY DEF handleJobFinished, Drop
  <2> QED BY <1>3, <2>1, <2>2, RunsKept
<1>6. stimuli' \in 0..MaxStimuli /\ handed' \subseteq 1..MaxClock /\ verdict' \subseteq Jobs
  BY <1>2 DEF CPInv, RestInv
<1> QED BY <1>2, <1>3, <1>4, <1>5, <1>6, ReconSame, CmdSame, Assemble DEF Preserves

LEMMA RegisterStep ==
  ASSUME CPInv, NEW a \in Agents, handleAgentRegister(a)
  PROVE  Preserves
<1>1. StoreStep /\ UNCHANGED <<calls, recon, bound, stimuli, handed, verdict>>
  BY DEF handleAgentRegister, StoreStep, Stays
<1>2. BoundGrows
  BY <1>1, BoundSame
<1>3. cmdq' = [cmdq EXCEPT ![a] = {}]
  BY DEF handleAgentRegister
<1>4. CmdInv'
  <2>1. cmdq \in [Agents -> SUBSET [vm : VMs, job : Jobs \cup {NoJob}]]
    BY DEF CPInv, CmdInv
  <2> QED BY <1>2, <1>3, <2>1, CmdKept
<1>5. RunsInv'
  <2>0. runs \in [Agents -> SUBSET Run]
    BY DEF CPInv, RunsInv
  <2>1. CASE UNCHANGED runs
    BY <1>2, <2>1, RunsSame
  <2>2. CASE ~UNCHANGED runs
    <3> DEFINE Told(r) == IF \E k \in cmdq[a] : k.vm = r.vm THEN [r EXCEPT !.killed = TRUE] ELSE r
    <3>1. runs' = [runs EXCEPT ![a] = {Told(r) : r \in @}]
      BY <2>2 DEF handleAgentRegister
    <3>2. \A r \in Run : /\ Told(r) \in Run /\ Told(r).vm = r.vm /\ Told(r).st = r.st
                         /\ Told(r).job = r.job
      BY DEF Run
    <3> HIDE DEF Told
    <3>3. runs' \in [Agents -> SUBSET Run]
      BY <2>0, <3>1, <3>2
    <3>4. ASSUME NEW b \in Agents, NEW x \in runs'[b]
          PROVE  x \in runs[b] \/ RunGood(b, x)'
      <4>1. CASE x \in runs[b]
        BY <4>1
      <4>2. CASE x \notin runs[b]
        <5>1. PICK r \in runs[a] : b = a /\ x = Told(r)
          BY <2>0, <3>1, <4>2
        <5>2. x.vm = r.vm /\ x.st = r.st /\ x.job = r.job /\ RunGood(a, r)
          BY <3>2, <5>1, RunFacts
        <5> QED BY <1>1, <5>1, <5>2 DEF RunGood
      <4> QED BY <4>1, <4>2
    <3> QED BY <1>2, <3>3, <3>4, RunsKept
  <2> QED BY <2>1, <2>2
<1>6. stimuli' \in 0..MaxStimuli /\ handed' \subseteq 1..MaxClock /\ verdict' \subseteq Jobs
  BY <1>1 DEF CPInv, RestInv
<1> QED BY <1>1, <1>2, <1>4, <1>5, <1>6, CallsFewer, ReconSame, Assemble DEF Preserves

LEMMA CrashStep ==
  ASSUME CPInv, NEW a \in Agents, AgentCrash(a)
  PROVE  Preserves
<1>1. StoreStep /\ UNCHANGED <<calls, recon, cmdq, bound, stimuli, handed, verdict>>
  BY DEF AgentCrash, StoreStep, Stays
<1>2. BoundGrows
  BY <1>1, BoundSame
<1>3. RunsInv'
  <2>1. runs \in [Agents -> SUBSET Run] /\ runs' = [runs EXCEPT ![a] = {}]
    BY DEF AgentCrash, CPInv, RunsInv
  <2> QED BY <1>2, <2>1, RunsKept
<1>4. stimuli' \in 0..MaxStimuli /\ handed' \subseteq 1..MaxClock /\ verdict' \subseteq Jobs
  BY <1>1 DEF CPInv, RestInv
<1> QED BY <1>1, <1>2, <1>3, <1>4, CallsFewer, ReconSame, CmdSame, Assemble DEF Preserves

LEMMA AgentPreserves ==
  ASSUME CPInv, NEW a \in Agents, AgentStep(a)
  PROVE  Preserves
BY ClaimStep, BindStep, StartedStep, FinishedStep, RegisterStep, CrashStep DEF AgentStep

-----------------------------------------------------------------------------
(* Kills, the reconciler, writes and restarts. *)

(* What findVM knows of a VM is the agent and the job it was bound to. *)
LEMMA FindVMGood ==
  ASSUME CPInv, NEW v \in VMs, NEW who \in findVM(v)
  PROVE  /\ who[1] \in Agents \cup {NoAgent} /\ who[2] \in Jobs \cup {NoJob}
         /\ who[2] # NoJob => bound[v] = <<who[1], who[2]>>
<1>1. bound[v] \in (Agents \X Jobs) \cup {<<>>}
  BY DEF CPInv, RestInv
<1>2. CASE bound[v] = <<>> /\ \E a \in Agents : who = <<a, NoJob>>
  BY <1>2
<1>3. CASE bound[v] # <<>> /\ who \in {bound[v], <<bound[v][1], NoJob>>}
  BY <1>1, <1>3
<1>4. ASSUME NEW j \in Jobs, byID[j].vm = v, byID[j].status \in Claimed, who = <<byID[j].agent, j>>
      PROVE  /\ who[1] \in Agents \cup {NoAgent} /\ who[2] \in Jobs \cup {NoJob}
             /\ who[2] # NoJob => bound[v] = <<who[1], who[2]>>
  <2>1. byID[j] \in Row /\ Own(j, byID[j])
    BY CopyGood DEF Good
  <2> QED BY <1>4, <2>1, StoreConstants DEF Own, Row
<1> QED BY <1>2, <1>3, <1>4 DEF findVM

LEMMA VMKillStep ==
  ASSUME CPInv, NEW v \in VMs, handleVMKill(v)
  PROVE  Preserves
<1>1. PICK who \in findVM(v) :
        /\ IF who[2] = NoJob THEN UNCHANGED storeVars ELSE CancelOrConflict(who[2])
        /\ Kill(who[1], v, who[2])
  BY DEF handleVMKill
<1>2. UNCHANGED <<calls, recon, runs, bound, handed, verdict>> /\ stimuli' \in 0..MaxStimuli
  BY StimulusType DEF handleVMKill
<1>3. StoreStep
  <2>1. CASE who[2] = NoJob
    BY <1>1, <2>1 DEF StoreStep, Stays
  <2>2. CASE who[2] # NoJob
    BY <1>1, <2>2, FindVMGood, CancelStep
  <2> QED BY <2>1, <2>2
<1>4. CmdInv'
  BY <1>1, <1>2, FindVMGood, KillGood
<1>5. handed' \subseteq 1..MaxClock /\ verdict' \subseteq Jobs
  BY <1>2 DEF CPInv, RestInv
<1> QED BY <1>2, <1>3, <1>4, <1>5, BoundSame, CallsFewer, ReconSame, RunsSame, Assemble DEF Preserves

LEMMA ReconEnds ==
  ASSUME CPInv, StoreStep, ReconInv', CmdInv',
         UNCHANGED <<calls, runs, bound, stimuli, handed, verdict>>
  PROVE  Preserves
<1>1. stimuli' \in 0..MaxStimuli /\ handed' \subseteq 1..MaxClock /\ verdict' \subseteq Jobs
  BY DEF CPInv, RestInv
<1> QED BY <1>1, BoundSame, CallsFewer, RunsSame, Assemble DEF Preserves

LEMMA ListStep ==
  ASSUME CPInv, NEW old \in SUBSET Jobs, ListStuck(old) \/ ListStaleMinted(old)
  PROVE  Preserves
<1>1. StoreStep /\ UNCHANGED <<calls, cmdq, runs, bound, stimuli, handed, verdict>>
      /\ UNCHANGED storeVars
  BY DEF ListStuck, ListStaleMinted, StoreStep, Stays
<1>2. PICK phase \in {"stuck", "stale"} :
        /\ recon' = [phase |-> phase, todo |-> Snapshots(old)]
        /\ phase = "stuck" => \A j \in old : byID[j].status \in Claimed
  BY DEF ListStuck, ListStaleMinted
<1>3. \A x \in Snapshots(old) : /\ x \in Copy /\ Good(x.job, x.row) /\ RowOK(x.row)
                                /\ phase = "stuck" => x.row.status \in Claimed
  BY <1>2, CopyGood DEF Snapshots, Copy
<1>4. UNCHANGED <<bound, clock>>
  BY <1>1 DEF storeVars
<1>5. ReconInv'
  <2>1. recon' \in [phase : {"idle", "stuck", "stale"}, todo : SUBSET Copy]
    BY <1>2, <1>3
  <2>2. ASSUME NEW x \in recon'.todo PROVE TodoGood(x)'
    <3>1. Good(x.job, x.row) /\ RowOK(x.row) /\ (recon'.phase = "stuck" => x.row.status \in Claimed)
      BY <1>2, <1>3, <2>2
    <3> QED BY <1>4, <3>1 DEF TodoGood, Good, Own, Dated, RowOK, RowHoldsJIT, RowOwner
  <2> QED BY <2>1, <2>2 DEF ReconInv
<1> QED BY <1>1, <1>5, BoundSame, CmdSame, ReconEnds

LEMMA TodoTaken ==
  ASSUME CPInv, StoreStep, BoundGrows, NEW x \in recon.todo,
         recon' = [recon EXCEPT !.todo = @ \ {x}]
  PROVE  ReconInv'
<1>1. recon \in [phase : {"idle", "stuck", "stale"}, todo : SUBSET Copy]
  BY DEF CPInv, ReconInv
<1> QED BY <1>1, ReconKept

LEMMA FinishStuckStep ==
  ASSUME CPInv, NEW x \in recon.todo, FinishStuck(x)
  PROVE  Preserves
<1>1. /\ x.job \in Jobs /\ x.row \in Row /\ Good(x.job, x.row) /\ RowOK(x.row)
      /\ x.row.status \in Claimed
  BY DEF FinishStuck, CPInv, ReconInv, TodoGood, Copy
<1>2. UNCHANGED <<calls, runs, bound, stimuli, handed, verdict>>
  BY DEF FinishStuck
<1>3. StoreStep
  <2>1. "stuck" \in Outcomes
    BY ControlConstants
  <2>2. CASE MarkFinished(x.job, x.row.agent, "stuck", x.row.vm)
    BY <1>1, <2>1, <2>2, FinishStep DEF Good
  <2>3. CASE UNCHANGED storeVars
    BY <2>3 DEF StoreStep, Stays
  <2> QED BY <2>2, <2>3 DEF FinishStuck, FinishOrConflict
<1>4. CmdInv'
  <2>1. x.row.agent \in Agents \cup {NoAgent} /\ x.row.vm \in VMs \cup {NoVM}
    BY <1>1 DEF Row
  <2> QED BY <1>1, <1>2, <2>1, KillGood DEF FinishStuck, Good, Own
<1>5. ReconInv'
  BY <1>2, <1>3, BoundSame, TodoTaken DEF FinishStuck
<1> QED BY <1>2, <1>3, <1>4, <1>5, ReconEnds

LEMMA FailStaleStep ==
  ASSUME CPInv, NEW x \in recon.todo, FailStale(x)
  PROVE  Preserves
<1>1. UNCHANGED <<calls, cmdq, runs, bound, stimuli, handed, verdict>>
  BY DEF FailStale
<1>2. StoreStep
  BY FailStep DEF FailStale, CPInv, ReconInv, Copy
<1>3. ReconInv'
  BY <1>1, <1>2, BoundSame, TodoTaken DEF FailStale
<1> QED BY <1>1, <1>2, <1>3, BoundSame, CmdSame, ReconEnds

LEMMA EndOfPassStep ==
  ASSUME CPInv, NEW mem \in SUBSET Jobs, NEW rows \in SUBSET Jobs, EndOfPass(mem, rows)
  PROVE  Preserves
<1>1. StoreStep /\ UNCHANGED <<calls, cmdq, runs, bound, stimuli, handed, verdict>>
  BY DEF EndOfPass, StoreStep, StoreOnly
<1>2. recon' = [phase |-> "idle", todo |-> {}]
  BY DEF EndOfPass
<1>3. ReconInv'
  BY <1>2 DEF ReconInv
<1> QED BY <1>1, <1>3, BoundSame, CmdSame, ReconEnds

LEMMA ReconcilePreserves ==
  ASSUME CPInv, ReconcileOnce
  PROVE  Preserves
BY ListStep, FinishStuckStep, FailStaleStep, EndOfPassStep DEF ReconcileOnce

LEMMA FlushStep ==
  ASSUME CPInv, Flush
  PROVE  Preserves
<1>1. StoreStep /\ UNCHANGED ctlVars
  BY DEF Flush, StoreStep, StoreOnly
<1>2. UNCHANGED <<calls, recon, cmdq, runs, bound, stimuli, handed, verdict>>
  BY <1>1 DEF ctlVars
<1> QED BY <1>1, <1>2, BoundSame, ReconSame, CmdSame, ReconEnds

LEMMA RestartStep ==
  ASSUME CPInv, ControlRestart
  PROVE  Preserves
<1>1. StoreStep /\ UNCHANGED <<runs, bound, stimuli, handed, verdict>> /\ calls' = {}
      /\ recon' = [phase |-> "idle", todo |-> {}] /\ cmdq' = [a \in Agents |-> {}]
  BY DEF ControlRestart, StoreStep, StoreOnly
<1>2. BoundGrows
  BY <1>1, BoundSame
<1>3. ReconInv' /\ CmdInv' /\ CallsInv'
  BY <1>1 DEF ReconInv, CmdInv, KillsHitOwnJob, CallsInv
<1>4. stimuli' \in 0..MaxStimuli /\ handed' \subseteq 1..MaxClock /\ verdict' \subseteq Jobs
  BY <1>1 DEF CPInv, RestInv
<1> QED BY <1>1, <1>2, <1>3, <1>4, RunsSame, Assemble DEF Preserves

-----------------------------------------------------------------------------

LEMMA InvInit == CPInit => CPInv /\ Init
<1> SUFFICES ASSUME CPInit PROVE CPInv /\ Init
  OBVIOUS
<1>1. Init
  BY DEF CPInit
<1>2. TypeOK /\ RowsOK
  BY <1>1, InitRows
<1>3. StoreGood
  <2>1. \A j \in Jobs : byID[j] = NoRow /\ disk[j] = NoRow
    BY <1>1 DEF Init
  <2>2. flushing = {} /\ clock = 0
    BY <1>1 DEF Init
  <2>3. NoRow.status = "none" /\ NoRow.vm = NoVM /\ NoRow.created = 0 /\ NoRow.jit = 0
    BY DEF NoRow
  <2>4. \A j \in Jobs : Good(j, NoRow)
    BY <2>2, <2>3 DEF Good, Own, Dated
  <2> QED BY <2>1, <2>2, <2>4 DEF StoreGood
<1>4. CallsInv /\ ReconInv /\ RunsInv /\ CmdInv
  BY DEF CPInit, CallsInv, ReconInv, RunsInv, CmdInv, KillsHitOwnJob
<1>5. RestInv
  <2>1. clock <= MaxClock /\ stimuli \in 0..MaxStimuli
    <3>1. clock = 0 /\ stimuli = 0
      BY <1>1 DEF CPInit, Init
    <3>2. MaxClock \in Nat /\ MaxStimuli \in Nat
      BY StoreConstants, ControlConstants
    <3> QED BY <3>1, <3>2
  <2>2. handed \subseteq 1..MaxClock /\ verdict \subseteq Jobs
    BY DEF CPInit
  <2>3. bound \in [VMs -> (Agents \X Jobs) \cup {<<>>}]
    BY DEF CPInit
  <2> QED BY <2>1, <2>2, <2>3 DEF RestInv
<1> QED BY <1>1, <1>2, <1>3, <1>4, <1>5 DEF CPInv

LEMMA InvStep ==
  ASSUME CPInv, [CPNext]_vars
  PROVE  Preserves
<1>1. CASE UNCHANGED vars
  <2>1. UNCHANGED <<calls, recon, cmdq, runs, bound, stimuli, handed, verdict>> /\ StoreStep
    BY <1>1 DEF vars, ctlVars, StoreStep, Stays
  <2> QED BY <2>1, BoundSame, ReconSame, CmdSame, ReconEnds
<1>2. CASE CPNext
  BY <1>2, RequestStep, VMKillStep, ContinueStep, AgentPreserves, ReconcilePreserves, FlushStep,
     RestartStep DEF CPNext
<1> QED BY <1>1, <1>2

LEMMA CPInvariant == CPSpec => []CPInv
<1>1. CPInv /\ [CPNext]_vars => CPInv'
  BY InvStep DEF Preserves
<1> QED BY <1>1, InvInit, PTL DEF CPSpec

\* The handlers' bookkeeping keeps its types, whatever order requests, reports, passes
\* of the reconciler, writes and crashes come in.
THEOREM ControlTypeCorrect == CPSpec => []CPTypeOK
<1>1. CPInv => CPTypeOK
  BY DEF CPInv, CPTypeOK, CallsInv, ReconInv, RunsInv, CmdInv, RestInv
<1> QED BY <1>1, CPInvariant, PTL

\* Every update a handler makes, on whatever copy of a row it acts, is an update the job
\* table allows: the control plane implements the store.
THEOREM ControlImplementsStore == CPSpec => StoreSpec
<1>1. CPInv /\ [CPNext]_vars => [Next]_storeVars
  BY InvStep, StoreStepIsNext DEF Preserves
<1>2. CPInit => Init
  BY InvInit
<1> QED BY <1>1, <1>2, CPInvariant, PTL DEF CPSpec, StoreSpec, Spec

\* A kill in an agent's queue names the VM and agent its job was bound to, for copies of
\* any age and any number of restarts: it never destroys another job's VM.
THEOREM KillsOwnJob == CPSpec => []KillsHitOwnJob
<1>1. CPInv => KillsHitOwnJob
  BY DEF CPInv, CmdInv
<1> QED BY <1>1, CPInvariant, PTL

\* What holds for the store holds for the program that uses it: a claimed job has an
\* owner, and passes to another agent only through the queue.
THEOREM ControlKeepsOwners == CPSpec => []OwnerIffClaimed /\ HandoverThroughQueue
BY ControlImplementsStore, OwnerKeptWhileClaimed, ClaimsKeepTheirAgent, PTL DEF StoreSpec

-----------------------------------------------------------------------------
(* A JIT config is handed out once. *)

(* Claims whose answer is under way. *)
Claims == {c \in calls : c.op = "claimed"}

(* The rows there are, by job and JIT config. *)
JITCopies ==
  {<<j, byID[j].jit>> : j \in Jobs} \cup {<<j, disk[j].jit>> : j \in Jobs}
  \cup {<<f.job, f.row.jit>> : f \in flushing} \cup {<<c.job, c.row.jit>> : c \in Claims}

OneJobPerJIT == \A p, q \in JITCopies : p[2] = q[2] /\ p[2] # 0 => p[1] = q[1]

(* An agent has it, or an answer with it is under way. *)
Taken(t) == t \in handed \/ \E c \in Claims : c.row.jit = t

(* A config that is taken is in no minted row in memory or in flight; the table may *)
(* hold the minted row until the claimed one is written, and no answer goes out      *)
(* before that.                                                                      *)
OnDiskUntilWritten ==
  \A j \in Jobs : disk[j].status = "minted" =>
    /\ disk[j].jit \notin handed
    /\ \A c \in Claims : c.row.jit = disk[j].jit => [job |-> c.job, row |-> c.row] \in flushing

NotTaken ==
  /\ \A j \in Jobs : byID[j].status = "minted" => ~Taken(byID[j].jit)
  /\ \A f \in flushing : f.row.status = "minted" => ~Taken(f.row.jit)

JITInv == handed \subseteq 1..clock /\ OneJobPerJIT /\ NotTaken /\ OnDiskUntilWritten

(* The writes of one row reach SQLite in the order of its updates. *)
WritesInOrder == \A f, g \in flushing : f.job = g.job => f = g

LEMMA GoodJIT ==
  ASSUME clock \in Nat, NEW j, NEW row \in Row, Good(j, row)
  PROVE  row.jit \in 0..clock
<1>1. row.jit \in Nat
  BY DEF Row
<1>2. row.jit <= clock
  BY DEF Good, Dated
<1> QED BY <1>1, <1>2

LEMMA CopyFacts ==
  ASSUME CPInv
  PROVE  /\ clock \in Nat
         /\ \A p \in JITCopies : p[2] \in 0..clock
         /\ \A c \in Claims : c.job \in Jobs /\ c.row.jit \in 1..clock
<1>1. clock \in Nat
  BY DEF CPInv, TypeOK
<1>2. \A c \in Claims : c.job \in Jobs /\ c.row.jit \in 1..clock
  BY DEF Claims, CPInv, CallsInv, CallGood, Call
<1>3. \A j \in Jobs : byID[j].jit \in 0..clock /\ disk[j].jit \in 0..clock
  <2>1. \A j \in Jobs : byID[j] \in Row /\ disk[j] \in Row
    BY DEF CPInv, TypeOK
  <2>2. \A j \in Jobs : Good(j, byID[j]) /\ Good(j, disk[j])
    BY DEF CPInv, StoreGood
  <2> QED BY <1>1, <2>1, <2>2, GoodJIT
<1>4. \A f \in flushing : f.row.jit \in 0..clock
  <2>1. \A f \in flushing : f.row \in Row
    BY DEF CPInv, TypeOK, Copy
  <2>2. \A f \in flushing : Good(f.job, f.row)
    BY DEF CPInv, StoreGood
  <2> QED BY <1>1, <2>1, <2>2, GoodJIT
<1>5. \A p \in JITCopies : p[2] \in 0..clock
  BY <1>1, <1>2, <1>3, <1>4 DEF JITCopies
<1> QED BY <1>1, <1>2, <1>5

(* New copies are of a job's own config, of a new one or of none. *)
LEMMA CopiesStay ==
  ASSUME CPInv, OneJobPerJIT, NEW j \in Jobs,
         \A p \in JITCopies' : p \in JITCopies \/ p = <<j, clock + 1>> \/ p[2] = 0
  PROVE  OneJobPerJIT'
<1>1. clock \in Nat /\ \A p \in JITCopies : p[2] \in 0..clock
  BY CopyFacts
<1>2. SUFFICES ASSUME NEW p \in JITCopies', NEW q \in JITCopies', p[2] = q[2], p[2] # 0
               PROVE  p[1] = q[1]
  BY DEF OneJobPerJIT
<1>3. CASE p \in JITCopies /\ q \in JITCopies
  BY <1>2, <1>3 DEF OneJobPerJIT
<1>4. CASE p = <<j, clock + 1>> \/ q = <<j, clock + 1>>
  BY <1>1, <1>2, <1>4
<1> QED BY <1>2, <1>3, <1>4

LEMMA TakenPast ==
  ASSUME CPInv, JITInv, NEW t, Taken(t)
  PROVE  t \in 1..clock
BY CopyFacts DEF JITInv, Taken

(* A step that hands nothing out and begins no claim. *)
NoHandout == UNCHANGED handed /\ Claims' \subseteq Claims

LEMMA SaveJIT ==
  ASSUME CPInv, JITInv, NoHandout, NEW j \in Jobs, NEW row \in Row, Save(j, row),
         JITKept(j, row), clock' \in {clock, clock + 1}
  PROVE  JITInv'
<1>1. /\ \A k \in Jobs : byID'[k] = (IF k = j THEN row ELSE byID[k])
      /\ flushing' = flushing \cup {[job |-> j, row |-> row]} /\ disk' = disk
  BY DEF Save, CPInv, TypeOK
<1>2. clock \in Nat
  BY CopyFacts
<1>3. handed' \subseteq 1..clock'
  BY <1>2 DEF NoHandout, JITInv
<1>4. OneJobPerJIT'
  <2>1. <<j, byID[j].jit>> \in JITCopies
    BY DEF JITCopies
  <2>2. \A p \in JITCopies' : p \in JITCopies \/ p = <<j, row.jit>>
    BY <1>1 DEF JITCopies, NoHandout
  <2>3. \A p \in JITCopies' : p \in JITCopies \/ p = <<j, clock + 1>> \/ p[2] = 0
    BY <2>1, <2>2 DEF JITKept
  <2> QED BY <2>3, CopiesStay DEF JITInv
<1>5. \A t : Taken(t)' => Taken(t)
  BY DEF Taken, NoHandout
<1>6. row.status = "minted" => ~Taken(row.jit)
  BY <1>2, TakenPast DEF JITKept, JITInv, NotTaken
<1>7. NotTaken'
  BY <1>1, <1>5, <1>6 DEF JITInv, NotTaken
<1>8. OnDiskUntilWritten'
  BY <1>1 DEF JITInv, OnDiskUntilWritten, NoHandout
<1> QED BY <1>3, <1>4, <1>7, <1>8 DEF JITInv

LEMMA PruneJIT ==
  ASSUME CPInv, JITInv, NoHandout, NEW mem, NEW rows, PruneFinished(mem, rows)
  PROVE  JITInv'
<1>1. /\ \A k \in Jobs : byID'[k] \in {byID[k], NoRow} /\ disk'[k] \in {disk[k], NoRow}
      /\ UNCHANGED <<flushing, clock, handed>>
  BY DEF PruneFinished, NoHandout
<1>2. NoRow.jit = 0 /\ NoRow.status = "none"
  BY DEF NoRow
<1>3. OneJobPerJIT'
  <2>1. \A p \in JITCopies' : p \in JITCopies \/ p[2] = 0
    BY <1>1, <1>2 DEF JITCopies, NoHandout
  <2> QED BY <2>1 DEF JITInv, OneJobPerJIT
<1>4. \A t : Taken(t)' => Taken(t)
  BY DEF Taken, NoHandout
<1>5. NotTaken'
  BY <1>1, <1>2, <1>4 DEF JITInv, NotTaken
<1>6. OnDiskUntilWritten'
  BY <1>1, <1>2 DEF JITInv, OnDiskUntilWritten, NoHandout
<1> QED BY <1>1, <1>3, <1>5, <1>6 DEF JITInv

LEMMA PersistJIT ==
  ASSUME CPInv, JITInv, NoHandout, NEW f \in flushing, Persist(f)
  PROVE  JITInv'
<1> DEFINE u == UpsertAssignment(f.row)
<1>1. f.job \in Jobs /\ f.row \in Row
  BY DEF CPInv, TypeOK, Copy
<1>2. u.status = f.row.status /\ u.jit \in {f.row.jit, 0}
      /\ (u.status = "minted" => u.jit = f.row.jit)
  BY <1>1 DEF UpsertAssignment, Row, Terminal
<1>3. /\ \A k \in Jobs : disk'[k] = (IF k = f.job THEN u ELSE disk[k])
      /\ flushing' = flushing \ {f} /\ UNCHANGED <<byID, clock, handed>>
  BY DEF Persist, CPInv, TypeOK, NoHandout
<1> HIDE DEF u
<1>4. OneJobPerJIT'
  <2>1. <<f.job, f.row.jit>> \in JITCopies
    BY DEF JITCopies
  <2>2. \A p \in JITCopies' : p \in JITCopies \/ p[2] = 0
    BY <1>2, <1>3, <2>1 DEF JITCopies, NoHandout
  <2> QED BY <2>2 DEF JITInv, OneJobPerJIT
<1>5. \A t : Taken(t)' => Taken(t)
  BY DEF Taken, NoHandout
<1>6. NotTaken'
  BY <1>3, <1>5 DEF JITInv, NotTaken
<1>7. OnDiskUntilWritten'
  <2>1. SUFFICES ASSUME NEW k \in Jobs, disk'[k].status = "minted"
                 PROVE  /\ disk'[k].jit \notin handed
                        /\ \A c \in Claims : c.row.jit = disk'[k].jit
                             => [job |-> c.job, row |-> c.row] \in flushing'
    BY <1>3 DEF OnDiskUntilWritten, NoHandout
  <2>2. CASE k = f.job
    <3>1. ~Taken(disk'[k].jit)
      BY <1>2, <1>3, <2>1, <2>2 DEF JITInv, NotTaken
    <3> QED BY <3>1 DEF Taken
  <2>3. CASE k # f.job
    <3>1. disk'[k] = disk[k]
      BY <1>3, <2>3
    <3>2. ASSUME NEW c \in Claims, c.row.jit = disk[k].jit PROVE c.job = k
      <4>1. <<c.job, c.row.jit>> \in JITCopies /\ <<k, disk[k].jit>> \in JITCopies
        BY DEF JITCopies
      <4>2. c.row.jit # 0
        BY CopyFacts
      <4> QED BY <3>2, <4>1, <4>2 DEF JITInv, OneJobPerJIT
    <3> QED BY <1>3, <2>1, <2>3, <3>1, <3>2 DEF JITInv, OnDiskUntilWritten
  <2> QED BY <2>2, <2>3
<1> QED BY <1>3, <1>4, <1>6, <1>7 DEF JITInv

(* The claims under way are gone with the process. *)
LEMMA RestartJIT ==
  ASSUME CPInv, JITInv, NoHandout, Restart, calls' = {}
  PROVE  JITInv'
<1>1. byID' = disk /\ flushing' = {} /\ UNCHANGED <<disk, clock, handed>> /\ Claims' = {}
  BY DEF Restart, NoHandout, Claims
<1>2. JITCopies' \subseteq JITCopies
  BY <1>1 DEF JITCopies
<1>3. OneJobPerJIT'
  BY <1>2 DEF JITInv, OneJobPerJIT
<1>4. NotTaken' /\ OnDiskUntilWritten'
  BY <1>1 DEF JITInv, NotTaken, Taken, OnDiskUntilWritten
<1> QED BY <1>1, <1>3, <1>4 DEF JITInv

LEMMA StayJIT ==
  ASSUME CPInv, JITInv, NoHandout, Stays
  PROVE  JITInv'
<1>1. UNCHANGED <<byID, flushing, disk, clock, handed>>
  BY DEF Stays, storeVars, NoHandout
<1>2. JITCopies' \subseteq JITCopies /\ \A t : Taken(t)' => Taken(t)
  BY <1>1 DEF JITCopies, NoHandout, Taken
<1>3. OneJobPerJIT' /\ NotTaken'
  BY <1>1, <1>2 DEF JITInv, OneJobPerJIT, NotTaken
<1>4. OnDiskUntilWritten'
  BY <1>1 DEF JITInv, OnDiskUntilWritten, NoHandout
<1> QED BY <1>1, <1>3, <1>4 DEF JITInv

(* The answer waited for the write: the minted row is gone from the table. *)
LEMMA ReplyJIT ==
  ASSUME CPInv, JITInv, NEW c \in calls, ClaimReply(c)
  PROVE  JITInv'
<1>1. /\ c \in Claims /\ Claims' \subseteq Claims
      /\ [job |-> c.job, row |-> c.row] \notin flushing
      /\ handed' \subseteq handed \cup {c.row.jit}
      /\ UNCHANGED <<byID, flushing, disk, clock>>
  BY DEF ClaimReply, Claims, End, storeVars
<1>2. handed' \subseteq 1..clock
  BY <1>1, CopyFacts DEF JITInv
<1>3. JITCopies' \subseteq JITCopies /\ \A t : Taken(t)' => Taken(t)
  BY <1>1 DEF JITCopies, Taken
<1>4. OneJobPerJIT' /\ NotTaken'
  BY <1>1, <1>3 DEF JITInv, OneJobPerJIT, NotTaken
<1>5. OnDiskUntilWritten'
  BY <1>1 DEF JITInv, OnDiskUntilWritten
<1> QED BY <1>1, <1>2, <1>4, <1>5 DEF JITInv

TakenNext(t) == t \in handed' \/ \E c \in Claims' : c.row.jit = t

(* A claim takes the config of a minted row that has only this copy to write. *)
LEMMA ClaimJIT ==
  ASSUME CPInv, JITInv, WritesInOrder', NEW a \in Agents, NEW cached \in SUBSET Repos,
         handleJobClaim(a, cached)
  PROVE  JITInv'
<1>1. PICK i \in DOMAIN pending :
        /\ byID[pending[i]].status = "minted"
        /\ Save(pending[i], [byID[pending[i]] EXCEPT !.status = "assigned", !.agent = a])
        /\ UNCHANGED clock
  BY DEF handleJobClaim, ClaimNext, pickPendingLocked, Preferred, Claimable
<1> DEFINE j == pending[i]
           row == [byID[j] EXCEPT !.status = "assigned", !.agent = a]
<1>2. j \in Jobs
  BY DEF CPInv, TypeOK
<1>3. byID[j] \in Row /\ byID[j].status = "minted" /\ RowOK(byID[j])
  BY <1>1, <1>2 DEF CPInv, TypeOK, RowsOK
<1>4. byID[j].jit # 0 /\ row.jit = byID[j].jit /\ row.status = "assigned"
  BY <1>3 DEF Row, RowOK, RowHoldsJIT, Live
<1>5. /\ \A k \in Jobs : byID'[k] = (IF k = j THEN row ELSE byID[k])
      /\ flushing' = flushing \cup {[job |-> j, row |-> row]}
      /\ UNCHANGED <<disk, clock, handed>>
  BY <1>1, <1>2 DEF Save, CPInv, TypeOK, handleJobClaim
<1> DEFINE c == Handler("claimed", j, a, row)
<1>6. calls' = calls \cup {c}
  BY <1>5 DEF handleJobClaim, Begin
<1>7. c.job = j /\ c.row = row /\ c.op = "claimed"
  BY DEF Handler
<1> HIDE DEF c, row, j
<1>8. Claims' = Claims \cup {c}
  BY <1>6, <1>7 DEF Claims
<1>9. <<j, row.jit>> \in JITCopies
  BY <1>2, <1>4 DEF JITCopies
<1>10. OneJobPerJIT'
  <2>1. JITCopies' \subseteq JITCopies
    BY <1>5, <1>7, <1>8, <1>9 DEF JITCopies
  <2> QED BY <2>1 DEF JITInv, OneJobPerJIT
<1>11. \A t : TakenNext(t) => Taken(t) \/ t = row.jit
  BY <1>5, <1>7, <1>8 DEF Taken, TakenNext
<1>12. ASSUME NEW k \in Jobs, byID'[k].status = "minted" PROVE ~TakenNext(byID'[k].jit)
  <2>1. k # j /\ byID'[k] = byID[k]
    BY <1>4, <1>5, <1>12
  <2>2. <<k, byID[k].jit>> \in JITCopies
    BY DEF JITCopies
  <2>3. byID[k].jit # row.jit
    BY <1>4, <1>9, <2>1, <2>2 DEF JITInv, OneJobPerJIT
  <2>4. ~Taken(byID[k].jit)
    BY <1>12, <2>1 DEF JITInv, NotTaken
  <2> QED BY <1>11, <2>1, <2>3, <2>4
<1>13. ASSUME NEW f \in flushing', f.row.status = "minted" PROVE ~TakenNext(f.row.jit)
  <2> DEFINE new == [job |-> j, row |-> row]
  <2>1. new \in flushing' /\ new.job = j /\ new.row = row
    BY <1>5
  <2> HIDE DEF new
  <2>2. f \in flushing /\ f # new
    BY <1>4, <1>5, <1>13, <2>1 DEF new
  <2>3. f.job # j
    BY <2>1, <2>2 DEF WritesInOrder
  <2>4. <<f.job, f.row.jit>> \in JITCopies
    BY <2>2 DEF JITCopies
  <2>5. f.row.jit # row.jit
    BY <1>4, <1>9, <2>3, <2>4 DEF JITInv, OneJobPerJIT
  <2>6. ~Taken(f.row.jit)
    BY <1>13, <2>2 DEF JITInv, NotTaken
  <2> QED BY <1>11, <2>5, <2>6
<1>14. NotTaken'
  BY <1>12, <1>13 DEF NotTaken, Taken, TakenNext
<1>15. OnDiskUntilWritten'
  BY <1>5, <1>7, <1>8 DEF JITInv, OnDiskUntilWritten
<1> QED BY <1>5, <1>10, <1>14, <1>15 DEF JITInv

(* Only a claim begins one, and only its answer hands a config out. *)
LEMMA HandoutSteps ==
  ASSUME CPInv, [CPNext]_vars
  PROVE  \/ NoHandout
         \/ \E a \in Agents, cached \in SUBSET Repos : handleJobClaim(a, cached)
         \/ \E c \in calls : ClaimReply(c)
<1>1. ASSUME NEW j, Webhook(j) \/ CancelRequest(j) PROVE NoHandout
  BY <1>1 DEF Webhook, WebhookQueued, WebhookInProgress, WebhookCompleted, CancelRequest, Begin,
     Handler, NoHandout, Claims
<1>2. ASSUME NEW v, handleVMKill(v) PROVE NoHandout
  BY <1>2 DEF handleVMKill, NoHandout, Claims
<1>3. ASSUME NEW j, NEW a, NEW o, NEW v, NEW others, FinishReport(j, a, o, v, others)
      PROVE  \A x \in calls' : x \in others \/ x.op # "claimed"
  BY <1>3 DEF FinishReport, Handler
<1>4. ASSUME NEW c \in calls, Continue(c), ~ClaimReply(c) PROVE NoHandout
  <2>1. CASE RemintFails(c)
    BY <1>3, <2>1 DEF RemintFails, End, NoHandout, Claims
  <2>2. CASE ~RemintFails(c)
    BY <1>4, <2>2 DEF Continue, HandleWorkflowJob, Remint, finishFromGitHub, handleJobCancel,
       SetCacheStats, End, NoHandout, Claims
  <2> QED BY <2>1, <2>2
<1>5. ASSUME NEW a, NEW r, handleJobFinished(a, r) PROVE NoHandout
  <2>1. UNCHANGED handed /\ \A x \in calls' : x \in calls \/ x.op # "claimed"
    BY <1>3, <1>5 DEF handleJobFinished, Begin, Handler
  <2> QED BY <2>1 DEF NoHandout, Claims
<1>6. ASSUME NEW a \in Agents, AgentStep(a),
             ~\E cached \in SUBSET Repos : handleJobClaim(a, cached)
      PROVE  NoHandout
  <2>1. CASE handleAgentRegister(a) \/ AgentCrash(a)
    BY <2>1 DEF handleAgentRegister, AgentCrash, NoHandout, Claims
  <2>2. ASSUME NEW r, NEW v, BindVM(a, r, v) \/ handleJobStarted(a, r) PROVE NoHandout
    BY <2>2 DEF BindVM, handleJobStarted, NoHandout, Claims
  <2>3. ASSUME NEW r, handleJobStarted(a, r) PROVE NoHandout
    BY <2>3 DEF handleJobStarted, NoHandout, Claims
  <2> QED BY <1>5, <1>6, <2>1, <2>2, <2>3 DEF AgentStep
<1>7. CASE ReconcileOnce
  BY <1>7 DEF ReconcileOnce, ListStuck, ListStaleMinted, FinishStuck, FailStale, EndOfPass,
     NoHandout, Claims
<1>8. CASE Flush \/ ControlRestart \/ UNCHANGED vars
  BY <1>8 DEF Flush, ControlRestart, vars, ctlVars, NoHandout, Claims
<1> QED BY <1>1, <1>2, <1>4, <1>6, <1>7, <1>8 DEF CPNext

LEMMA JITStep ==
  ASSUME ~PersistMayFail, CPInv, JITInv, WritesInOrder', [CPNext]_vars
  PROVE  JITInv'
<1>1. CASE NoHandout
  <2>1. StoreStep
    BY InvStep DEF Preserves
  <2>2. CASE Stays
    BY <1>1, <2>2, StayJIT
  <2>3. CASE Method
    BY <1>1, <2>3, SaveJIT DEF Method, SavesGood
  <2>4. CASE \E mem, rows \in SUBSET Jobs : PruneFinished(mem, rows)
    BY <1>1, <2>4, PruneJIT
  <2>5. CASE \E f \in flushing : Persist(f) \/ PersistFails(f)
    BY <1>1, <2>5, PersistJIT DEF PersistFails
  <2>6. CASE Restart /\ calls' = {}
    BY <1>1, <2>6, RestartJIT
  <2> QED BY <2>1, <2>2, <2>3, <2>4, <2>5, <2>6 DEF StoreStep, StoreOnly
<1> QED BY <1>1, HandoutSteps, ClaimJIT, ReplyJIT

\* A JIT config is single-use: an agent that has received it is the only one, also across
\* restarts of the control plane, if no write fails and the writes of one row reach SQLite
\* in the order of its updates.
THEOREM JITHandedOutOnce ==
  ASSUME ~PersistMayFail
  PROVE  CPSpec /\ []WritesInOrder => []JITHandedOnce
<1>1. CPInit => JITInv
  <2> SUFFICES ASSUME CPInit PROVE JITInv
    OBVIOUS
  <2>1. /\ \A j \in Jobs : byID[j] = NoRow /\ disk[j] = NoRow
        /\ flushing = {} /\ handed = {} /\ Claims = {}
    BY DEF CPInit, Init, Claims
  <2>2. NoRow.jit = 0 /\ NoRow.status = "none"
    BY DEF NoRow
  <2>3. OneJobPerJIT
    BY <2>1, <2>2 DEF OneJobPerJIT, JITCopies
  <2> QED BY <2>1, <2>2, <2>3 DEF JITInv, NotTaken, OnDiskUntilWritten
<1>2. CPInv /\ JITInv /\ WritesInOrder' /\ [CPNext]_vars => JITInv'
  BY JITStep
<1>3. JITInv => JITHandedOnce
  BY DEF JITInv, NotTaken, Taken, JITHandedOnce
<1> QED BY <1>1, <1>2, <1>3, CPInvariant, PTL DEF CPSpec

\* With one write at a time they do.
LEMMA OneWriterInOrder ==
  ASSUME MaxFlush \in {0, 1}
  PROVE  CPSpec => []WritesInOrder
<1> DEFINE One == flushing = {} \/ \E f : flushing = {f}
<1>1. CPInit => One
  BY DEF CPInit, Init
<1>2. CPInv /\ One /\ [CPNext]_vars => One'
  <2> SUFFICES ASSUME CPInv, One, [CPNext]_vars PROVE One'
    OBVIOUS
  <2>1. StoreStep
    BY InvStep DEF Preserves
  <2>2. ASSUME NEW j, NEW row, Save(j, row) PROVE One'
    <3>1. Cardinality(flushing) < MaxFlush /\ flushing' = flushing \cup {[job |-> j, row |-> row]}
      BY <2>2 DEF Save
    <3>2. ASSUME NEW f, flushing = {f} PROVE FALSE
      <4>1. Cardinality(flushing) = 1
        BY <3>2, FS_Singleton
      <4> QED BY <3>1, <4>1
    <3>3. flushing = {}
      BY <3>2
    <3> QED BY <3>1, <3>3
  <2>3. CASE flushing' \subseteq flushing
    BY <2>3
  <2>4. CASE Method
    BY <2>2, <2>4 DEF Method, SavesGood
  <2>5. CASE Stays \/ StoreOnly
    BY <2>3, <2>5 DEF Stays, storeVars, StoreOnly, PruneFinished, Persist, PersistFails, Restart
  <2> QED BY <2>1, <2>4, <2>5 DEF StoreStep
<1>3. One => WritesInOrder
  BY DEF WritesInOrder
<1> HIDE DEF One
<1> QED BY <1>1, <1>2, <1>3, CPInvariant, PTL DEF CPSpec

\* So a control plane whose writes succeed and wait for each other hands every config out once.
THEOREM JITHandedOnceByOneWriter ==
  ASSUME ~PersistMayFail, MaxFlush \in {0, 1}
  PROVE  CPSpec => []JITHandedOnce
BY JITHandedOutOnce, OneWriterInOrder, PTL
=============================================================================
