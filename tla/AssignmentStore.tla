--------------------------- MODULE AssignmentStore ---------------------------
(***************************************************************************)
(* The control plane's job table (internal/control/assignment.go): the     *)
(* in-memory rows and the FIFO of claimable jobs, both guarded by s.mu,    *)
(* and the SQLite copy behind it (persist.go, internal/store).             *)
(*                                                                         *)
(* Every method mutates memory under the lock, copies the row, RELEASES    *)
(* the lock and only then writes the copy to SQLite (flushPersist).  The   *)
(* copies between the unlock and the write are the variable "flushing":    *)
(* they belong to different goroutines, so they reach the disk in any      *)
(* order, they may fail, and a crash loses them.                           *)
(*                                                                         *)
(* The next-state relation is the most general caller: any method, with    *)
(* any argument, at any time.  ControlPlane.tla supplies the real callers. *)
(***************************************************************************)
EXTENDS Integers, Sequences, FiniteSets

CONSTANTS
  Jobs,            \* GitHub job ids
  Agents,          \* host agent ids
  VMs,             \* microVM ids agents report
  Repos,           \* repository names
  RepoOf,          \* the repository of each job
  Outcomes,        \* outcomes a job can finish with, "cancelled" among them
  NoAgent,         \* AssignedAgentID = ""
  NoVM,            \* VMID = ""
  PersistMayFail,  \* may Persist return an error?
  MaxClock,        \* bound: rows created and JIT configs minted
  MaxFlush         \* bound: goroutines between unlock and Persist

ASSUME StoreConstants ==
  /\ NoAgent \notin Agents
  /\ NoVM \notin VMs
  /\ RepoOf \in [Jobs -> Repos]
  /\ "cancelled" \in Outcomes
  /\ "" \notin Outcomes
  /\ PersistMayFail \in BOOLEAN
  /\ MaxClock \in Nat
  /\ MaxFlush \in Nat

VARIABLES
  byID,      \* job -> row; NoRow when the map has no entry
  pending,   \* FIFO of job ids awaiting a claim
  flushing,  \* row copies on their way to SQLite
  disk,      \* the assignments table
  clock      \* the last creation time, also the id of the last JIT config

storeVars == <<byID, pending, flushing, disk, clock>>

-----------------------------------------------------------------------------
(* Rows.  Runner name, labels, timings, error text and cache counters are  *)
(* left out.  EncodedJITConfig is the id of the GitHub call that minted it, *)
(* 0 when it is empty.                                                     *)

Claimed  == {"assigned", "started"}
Live     == {"minted"} \cup Claimed
Terminal == {"finished", "failed"}

Row == [status  : {"none"} \cup Live \cup Terminal,
        agent   : Agents \cup {NoAgent},
        vm      : VMs \cup {NoVM},
        outcome : Outcomes \cup {""},
        jit     : Nat,
        created : Nat]

NoRow == [status |-> "none", agent |-> NoAgent, vm |-> NoVM,
          outcome |-> "", jit |-> 0, created |-> 0]

(* The rows HandleWorkflowJob and Remint build: minted, or failed to mint. *)
MintedRow(jit, c) ==
  [NoRow EXCEPT !.status = "minted", !.jit = jit, !.created = c]
FailedRow(c) ==
  [NoRow EXCEPT !.status = "failed", !.created = c]

Exists(j)  == byID[j].status # "none"
InQueue(j) == \E i \in DOMAIN pending : pending[i] = j

(* Mutants: no scan for an entry the job already has; requeue at the back.  *)
enqueueBlindly(j) == Append(pending, j)
enqueueLast(j) == Append(SelectSeq(pending, LAMBDA x : x # j), j)

(* enqueuePendingLocked: append unless already queued. *)
enqueuePendingLocked(j) ==
  IF InQueue(j) THEN pending ELSE Append(pending, j)

Without(q, i) ==
  [k \in 1 .. Len(q) - 1 |-> IF k < i THEN q[k] ELSE q[k + 1]]

(* removePendingLocked: the queue holds a job at most once (QueueNoDup). *)
removePendingLocked(j) ==
  IF InQueue(j)
  THEN Without(pending, CHOOSE i \in DOMAIN pending : pending[i] = j)
  ELSE pending

(* The copy a method takes before it releases s.mu; flushPersist writes it. *)
Save(j, row) ==
  /\ Cardinality(flushing) < MaxFlush
  /\ byID' = [byID EXCEPT ![j] = row]
  /\ flushing' = flushing \cup {[job |-> j, row |-> row]}
  /\ UNCHANGED disk

-----------------------------------------------------------------------------
(* The methods. *)

(* Put replaces whatever row the job had; a job that was minted already is *)
(* taken to be in the queue already.                                       *)
Put(j, row) ==
  /\ Save(j, row)
  /\ pending' = IF row.status = "minted" /\ byID[j].status # "minted"
                THEN enqueuePendingLocked(j)
                ELSE pending

(* HandleWorkflowJob puts a new row, with its own creation time; Remint    *)
(* puts a copy back, with a new JIT config and the creation time it had.   *)
Tick == clock < MaxClock /\ clock' = clock + 1

PutMinted(j) == Tick /\ Put(j, MintedRow(clock + 1, clock + 1))
PutFailed(j) == Tick /\ Put(j, FailedRow(clock + 1))
(* Mutant: the VM of the earlier run stays in the row. *)
PutAgainKeepVM(j, c) ==
  Tick /\ Put(j, [MintedRow(clock + 1, c) EXCEPT !.vm = byID[j].vm])

PutAgain(j, c) == Tick /\ Put(j, MintedRow(clock + 1, c))

(* pickPendingLocked: the oldest minted job of a repository the agent has  *)
(* cached, else the oldest minted job.                                     *)
Claimable(i) == byID[pending[i]].status = "minted"
Preferred(i, cached) == Claimable(i) /\ RepoOf[pending[i]] \in cached

pickPendingLocked(i, cached) ==
  IF \E k \in DOMAIN pending : Preferred(k, cached)
  THEN Preferred(i, cached) /\ \A k \in 1 .. i - 1 : ~Preferred(k, cached)
  ELSE Claimable(i) /\ \A k \in 1 .. i - 1 : ~Claimable(k)

ClaimNext(a, cached) ==
  \E i \in DOMAIN pending :
    /\ pickPendingLocked(i, cached)
    /\ Save(pending[i], [byID[pending[i]] EXCEPT !.status = "assigned", !.agent = a])
    /\ pending' = Without(pending, i)
    /\ UNCHANGED clock

(* SetIdentity, SetCacheStats: fields no property is about, but the whole  *)
(* row is copied and written again.                                        *)
SetMeta(j) ==
  /\ Exists(j)
  /\ Save(j, byID[j])
  /\ UNCHANGED <<pending, clock>>

(* Mutant: no owner check. *)
OwnedByAnyone(j, a) == TRUE

OwnedBy(j, a) == byID[j].agent \in {NoAgent, a}

CanStart(j, a) == OwnedBy(j, a) /\ byID[j].status \in Claimed

MarkStarted(j, a, v) ==
  /\ CanStart(j, a)
  /\ Save(j, [byID[j] EXCEPT !.status = "started", !.agent = a, !.vm = v])
  /\ UNCHANGED <<pending, clock>>

CanFinish(j, a) == OwnedBy(j, a) /\ byID[j].status \in Claimed \cup {"finished"}

(* First terminal outcome wins; the secret is dropped. *)
MarkFinished(j, a, o, v) ==
  /\ CanFinish(j, a)
  /\ Save(j, [byID[j] EXCEPT
                !.status  = "finished",
                !.agent   = a,
                !.outcome = IF byID[j].status = "finished" THEN @ ELSE o,
                !.vm      = IF v = NoVM THEN @ ELSE v,
                !.jit     = 0])
  /\ UNCHANGED <<pending, clock>>

(* From any status; the queue is not touched. *)
ApplyGitHubOutcome(j, o) ==
  /\ Exists(j)
  /\ Save(j, [byID[j] EXCEPT !.status = "finished", !.outcome = o, !.jit = 0])
  /\ UNCHANGED <<pending, clock>>

CanCancel(j) == byID[j].status \in Live

Cancel(j) ==
  /\ CanCancel(j)
  /\ Save(j, [byID[j] EXCEPT !.status = "finished", !.outcome = "cancelled", !.jit = 0])
  /\ pending' = removePendingLocked(j)
  /\ UNCHANGED clock

(* Mutant: the secret stays. *)
MarkFailedKeepJIT(j) ==
  /\ Exists(j)
  /\ Save(j, [byID[j] EXCEPT !.status = "failed"])
  /\ pending' = removePendingLocked(j)
  /\ UNCHANGED clock

(* From any status, terminal ones included. *)
MarkFailed(j) ==
  /\ Exists(j)
  /\ Save(j, [byID[j] EXCEPT !.status = "failed", !.jit = 0])
  /\ pending' = removePendingLocked(j)
  /\ UNCHANGED clock

(* Mutant: the job does not go back to the queue. *)
RequeueNowhere(j) ==
  /\ byID[j].status = "assigned"
  /\ Save(j, [byID[j] EXCEPT !.status = "minted", !.agent = NoAgent, !.vm = NoVM])
  /\ UNCHANGED <<pending, clock>>

RequeueAssigned(j) ==
  /\ byID[j].status = "assigned"
  /\ Save(j, [byID[j] EXCEPT !.status = "minted", !.agent = NoAgent, !.vm = NoVM])
  /\ pending' = enqueuePendingLocked(j)
  /\ UNCHANGED clock

(* Terminal rows past retention go, from memory and, by a query of its own *)
(* with its own clock, from disk.  The queue is not touched.               *)
PruneFinished(mem, rows) ==
  /\ \A j \in mem : byID[j].status \in Terminal
  /\ \A j \in rows : disk[j].status \in Terminal
  /\ byID' = [j \in Jobs |-> IF j \in mem THEN NoRow ELSE byID[j]]
  /\ disk' = [j \in Jobs |-> IF j \in rows THEN NoRow ELSE disk[j]]
  /\ UNCHANGED <<pending, flushing, clock>>

-----------------------------------------------------------------------------
(* Durability. *)

(* UpsertAssignment drops the secret of a terminal row. *)
UpsertAssignment(row) ==
  [row EXCEPT !.jit = IF row.status \in Terminal THEN 0 ELSE @]

Persist(f) ==
  /\ disk' = [disk EXCEPT ![f.job] = UpsertAssignment(f.row)]
  /\ flushing' = flushing \ {f}
  /\ UNCHANGED <<byID, pending, clock>>

(* flushPersist logs the error: memory keeps the row, the disk does not. *)
PersistFails(f) ==
  /\ PersistMayFail
  /\ flushing' = flushing \ {f}
  /\ UNCHANGED <<byID, pending, disk, clock>>

(* loadLocked: rebuild the map, and the queue from the minted rows in      *)
(* creation order.                                                         *)
IsReload(q, rows) ==
  LET minted == {j \in Jobs : rows[j].status = "minted"} IN
  /\ {q[i] : i \in DOMAIN q} = minted
  /\ \A i, k \in DOMAIN q :
       i < k => /\ q[i] # q[k]
                /\ rows[q[i]].created <= rows[q[k]].created

(* The process dies and a new one loads the table before it serves. *)
Restart ==
  /\ byID' = disk
  /\ \E n \in 0 .. Cardinality(Jobs) : \E q \in [1 .. n -> Jobs] :
       /\ IsReload(q, disk)
       /\ pending' = q
  /\ flushing' = {}
  /\ UNCHANGED <<disk, clock>>

-----------------------------------------------------------------------------

Init ==
  /\ byID = [j \in Jobs |-> NoRow]
  /\ pending = <<>>
  /\ flushing = {}
  /\ disk = [j \in Jobs |-> NoRow]
  /\ clock = 0

JobStep(j) ==
  \/ PutMinted(j)
  \/ PutFailed(j)
  \/ \E c \in 1 .. clock : PutAgain(j, c)
  \/ SetMeta(j)
  \/ \E a \in Agents, v \in VMs : MarkStarted(j, a, v)
  \/ \E a \in Agents, o \in Outcomes, v \in VMs \cup {NoVM} :
       MarkFinished(j, a, o, v)
  \/ \E o \in Outcomes : ApplyGitHubOutcome(j, o)
  \/ Cancel(j)
  \/ MarkFailed(j)
  \/ RequeueAssigned(j)

Next ==
  \/ \E j \in Jobs : JobStep(j)
  \/ \E a \in Agents, cached \in SUBSET Repos : ClaimNext(a, cached)
  \/ \E mem, rows \in SUBSET Jobs : PruneFinished(mem, rows)
  \/ \E f \in flushing : Persist(f) \/ PersistFails(f)
  \/ Restart

Spec == Init /\ [][Next]_storeVars

-----------------------------------------------------------------------------
(* Properties. *)

Copy == [job : Jobs, row : Row]

\* The store's variables have the types of the Go fields they model.
TypeOK ==
  /\ byID \in [Jobs -> Row]
  /\ pending \in Seq(Jobs)
  /\ flushing \in SUBSET Copy
  /\ disk \in [Jobs -> Row]
  /\ clock \in Nat

\* No minted job is lost: a job waiting for an agent is in the FIFO, whatever
\* order Put, Requeue, prune, ApplyGitHubOutcome (which leaves its queue entry
\* behind) and restarts came in.  Put relies on it: it does not enqueue a job
\* whose row is already minted.
QueueCoversMinted == \A j \in Jobs : byID[j].status = "minted" => InQueue(j)

\* A job is queued at most once, so it cannot be handed to two agents by two
\* queue entries (enqueuePendingLocked's scan).
QueueNoDup ==
  \A i, k \in DOMAIN pending : pending[i] = pending[k] => i = k

RowHoldsJIT(row) == row.jit # 0 <=> row.status \in Live

\* The JIT secret is held exactly while the job can still be run: in memory, in
\* every copy on its way to SQLite and in the table.  A finished or failed job
\* never keeps it ("Assignment store clears JIT on finish/fail/stuck"), and a
\* job that is claimed, also after a restart, always comes with it.
JITIffLive ==
  /\ \A j \in Jobs : RowHoldsJIT(byID[j]) /\ RowHoldsJIT(disk[j])
  /\ \A f \in flushing : RowHoldsJIT(f.row)

RowOwner(row) ==
  /\ row.status \in Claimed => row.agent # NoAgent
  /\ row.status = "minted" => row.agent = NoAgent
  /\ row.status = "started" => row.vm # NoVM

\* A job in an agent's hands names the agent, a started one names the VM to
\* kill, and a claimable one has no owner left from an earlier claim that would
\* make the owner check reject the next agent; also for what a restart reloads.
OwnerIffClaimed ==
  /\ \A j \in Jobs : RowOwner(byID[j]) /\ RowOwner(disk[j])
  /\ \A f \in flushing : RowOwner(f.row)

\* A job never moves from one agent to another except through the queue: while
\* the process runs no report, late or duplicated, takes a claimed job over.
HandoverThroughQueue ==
  [][~Restart =>
       \A j \in Jobs :
         byID[j].status \in Claimed /\ byID'[j].status \in Claimed
           => byID'[j].agent = byID[j].agent]_storeVars

\* No overtaking: of two queued jobs the one queued earlier stays ahead until one
\* of them leaves the queue (a restart re-sorts by creation time instead).
QueueOrderStable ==
  [][~Restart =>
       \A i, k \in DOMAIN pending :
         i < k =>
           ~ \E m, n \in DOMAIN pending' :
               m < n /\ pending'[m] = pending[k] /\ pending'[n] = pending[i]]_storeVars

\* "expected JIT cleared in DB after finish" (persist_test.go): once no write is in
\* flight, the table holds no secret of a job that is over.
JITPersistedOnlyWhileLive ==
  flushing = {} =>
    \A j \in Jobs : disk[j].jit # 0 => byID[j].status \notin Terminal

=============================================================================
