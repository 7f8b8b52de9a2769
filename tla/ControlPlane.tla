----------------------------- MODULE ControlPlane -----------------------------
(***************************************************************************)
(* The callers of the job table: GitHub webhooks (server.go, handler.go,   *)
(* github_complete.go), the dashboard's cancel and kill (dashboard.go),    *)
(* the reconciler (reconcile.go), the agents' claim/started/finished/      *)
(* heartbeat requests (server.go, agentcmds.go) and, as far as these       *)
(* requests show it, the agent itself (agent/worker.go).                   *)
(*                                                                         *)
(* A handler takes a copy of the row (store.Get), calls GitHub or does     *)
(* other work without the lock, and then acts on the copy.  Such a handler *)
(* is a record of "calls" between its two steps; anything may happen to    *)
(* the row in between.  Every store update here is an action of            *)
(* AssignmentStore, so CPSpec implements its Spec.                         *)
(***************************************************************************)
EXTENDS AssignmentStore

CONSTANTS
  NoJob,        \* job id 0
  Conclusion,   \* GitHub's conclusion of every job
  StuckCheck,   \* StuckAfter > 0
  StaleCheck,   \* StaleMintedAfter > 0
  MayCrash,     \* may control and agents crash?
  MaxStimuli    \* bound: webhooks and dashboard requests

ASSUME ControlConstants ==
  /\ NoJob \notin Jobs
  /\ Conclusion \in Outcomes
  /\ {"stuck", "error"} \subseteq Outcomes
  /\ {StuckCheck, StaleCheck, MayCrash} \subseteq BOOLEAN
  /\ MaxStimuli \in Nat

VARIABLES
  calls,    \* handlers between reading a row and acting on it
  recon,    \* the reconciler's loop: phase and snapshots still to process
  cmdq,     \* agent -> kill commands queued for its next heartbeat
  runs,     \* agent -> the jobs it works on
  bound,    \* VM -> <<agent, job>> it was bound to, <<>> when unused
  stimuli,  \* webhooks and dashboard requests so far
  handed,   \* JIT configs an agent has received
  verdict   \* jobs whose "completed" webhook was processed

ctlVars == <<calls, recon, cmdq, runs, bound, stimuli, handed, verdict>>
vars == <<storeVars, ctlVars>>

Call == [op : {"mint", "remint", "complete", "cancel", "claimed", "stats"},
         job : Jobs, agent : Agents \cup {NoAgent}, row : Row]

Run == [job : Jobs, vm : VMs \cup {NoVM}, st : {"claimed", "bound", "running"},
        killed : BOOLEAN]

Handler(op, j, a, row) == [op |-> op, job |-> j, agent |-> a, row |-> row]

Begin(c)   == calls' = calls \cup {c}
End(c)     == c \in calls /\ calls' = calls \ {c}
Stimulus   == stimuli < MaxStimuli /\ stimuli' = stimuli + 1

(* enqueueKill: nothing is queued unless agent and VM are both known. *)
Kill(a, v, j) ==
  cmdq' = IF a = NoAgent \/ v = NoVM THEN cmdq
          ELSE [cmdq EXCEPT ![a] = @ \cup {[vm |-> v, job |-> j]}]

-----------------------------------------------------------------------------
(* GitHub webhooks. *)

(* queued: acknowledged at once, minted in a goroutine. *)
WebhookQueued(j) ==
  /\ Stimulus
  /\ Begin(Handler("mint", j, NoAgent, NoRow))
  /\ UNCHANGED <<storeVars, recon, cmdq, runs, bound, handed, verdict>>

(* HandleWorkflowJob after the GitHub call: the row is replaced, whatever  *)
(* state it is in by now.                                                  *)
HandleWorkflowJob(c) ==
  /\ c.op = "mint"
  /\ End(c)
  /\ \/ PutMinted(c.job)
     \/ PutFailed(c.job)
  /\ verdict' = verdict \ {c.job}
  /\ UNCHANGED <<recon, cmdq, runs, bound, stimuli, handed>>

(* in_progress of another job on this job's runner, which some VM started: *)
(* recoverStolenRunner looks the row up and Remint copies it.              *)
WebhookInProgress(j) ==
  /\ Stimulus
  /\ \E v \in VMs : bound[v] # <<>> /\ bound[v][2] = j
  /\ Exists(j)
  /\ Begin(Handler("remint", j, NoAgent, byID[j]))
  /\ UNCHANGED <<storeVars, recon, cmdq, runs, bound, handed, verdict>>

(* Remint after the GitHub call: the copy is put back as minted.           *)
Remint(c) ==
  /\ c.op = "remint"
  /\ End(c)
  /\ PutAgain(c.job, c.row.created)
  /\ verdict' = verdict \ {c.job}
  /\ UNCHANGED <<recon, cmdq, runs, bound, stimuli, handed>>

(* completed / cancelled: finishFromGitHub's Get. *)
WebhookCompleted(j) ==
  /\ Stimulus
  /\ Exists(j)
  /\ Begin(Handler("complete", j, NoAgent, byID[j]))
  /\ UNCHANGED <<storeVars, recon, cmdq, runs, bound, handed, verdict>>

CancelOrConflict(j) ==
  \/ Cancel(j)
  \/ ~CanCancel(j) /\ UNCHANGED storeVars

FinishOrConflict(j, a, o, v) ==
  \/ MarkFinished(j, a, o, v)
  \/ ~CanFinish(j, a) /\ UNCHANGED storeVars

FailOrUnknown(j) ==
  \/ MarkFailed(j)
  \/ ~Exists(j) /\ UNCHANGED storeVars

(* The rest of finishFromGitHub, which branches on the status of the copy. *)
finishFromGitHub(c) ==
  /\ c.op = "complete"
  /\ End(c)
  /\ \/ /\ c.row.status \in Terminal
        /\ \/ ApplyGitHubOutcome(c.job, Conclusion)
           \/ ~Exists(c.job) /\ UNCHANGED storeVars
        /\ UNCHANGED cmdq
     \/ /\ c.row.status = "minted"
        /\ IF Conclusion = "cancelled"
           THEN CancelOrConflict(c.job)
           ELSE FailOrUnknown(c.job)
        /\ Kill(c.row.agent, c.row.vm, c.job)
     \/ /\ c.row.status \in Claimed
        /\ MarkFinished(c.job, c.row.agent, Conclusion, c.row.vm)
        /\ Kill(c.row.agent, c.row.vm, c.job)
     \/ /\ c.row.status \in Claimed
        /\ ~CanFinish(c.job, c.row.agent)
        /\ UNCHANGED <<storeVars, cmdq>>
  /\ verdict' = verdict \cup {c.job}
  /\ UNCHANGED <<recon, runs, bound, stimuli, handed>>

-----------------------------------------------------------------------------
(* The dashboard. *)

(* handleJobCancel's Get. *)
CancelRequest(j) ==
  /\ Stimulus
  /\ Exists(j)
  /\ Begin(Handler("cancel", j, NoAgent, byID[j]))
  /\ UNCHANGED <<storeVars, recon, cmdq, runs, bound, handed, verdict>>

(* The rest: a job already cancelled is no error, so the kill still goes   *)
(* out, for the agent and VM of the copy.                                  *)
handleJobCancel(c) ==
  /\ c.op = "cancel"
  /\ End(c)
  /\ \/ /\ Cancel(c.job)
        /\ Kill(c.row.agent, c.row.vm, c.job)
     \/ /\ byID[c.job].status = "finished" /\ byID[c.job].outcome = "cancelled"
        /\ UNCHANGED storeVars
        /\ Kill(c.row.agent, c.row.vm, c.job)
     \/ /\ ~CanCancel(c.job)
        /\ ~(byID[c.job].status = "finished" /\ byID[c.job].outcome = "cancelled")
        /\ UNCHANGED <<storeVars, cmdq>>
  /\ UNCHANGED <<recon, runs, bound, stimuli, handed, verdict>>

(* findVM: what the agent's last heartbeat said of the VM, else the claimed *)
(* row that names it.  A VM is bound once, so the report names the job it  *)
(* is or was bound to, or no job if it was sent while the VM was warm.     *)
findVM(v) ==
  LET reported == IF bound[v] = <<>>
                  THEN {<<a, NoJob>> : a \in Agents}
                  ELSE {bound[v], <<bound[v][1], NoJob>>}
      recorded == {j \in Jobs : byID[j].vm = v /\ byID[j].status \in Claimed}
  IN reported \cup {<<byID[j].agent, j>> : j \in recorded}

handleVMKill(v) ==
  /\ Stimulus
  /\ \E who \in findVM(v) :
       /\ IF who[2] = NoJob THEN UNCHANGED storeVars ELSE CancelOrConflict(who[2])
       /\ Kill(who[1], v, who[2])
  /\ UNCHANGED <<calls, recon, runs, bound, handed, verdict>>

-----------------------------------------------------------------------------
(* The reconciler: one goroutine, one pass at a time.                      *)

Snapshots(S) == {[job |-> j, row |-> byID[j]] : j \in S}

(* Mutant: only jobs that reported a start can be stuck. *)
ListStuckStarted(old) ==
  /\ recon.phase = "idle"
  /\ old \subseteq {j \in Jobs : StuckCheck /\ byID[j].status = "started"}
  /\ recon' = [phase |-> "stuck", todo |-> Snapshots(old)]
  /\ UNCHANGED <<storeVars, calls, cmdq, runs, bound, stimuli, handed, verdict>>

(* ListStuck: copies of claimed rows; old is the set past its deadline. *)
ListStuck(old) ==
  /\ recon.phase = "idle"
  /\ old \subseteq {j \in Jobs : StuckCheck /\ byID[j].status \in Claimed}
  /\ recon' = [phase |-> "stuck", todo |-> Snapshots(old)]
  /\ UNCHANGED <<storeVars, calls, cmdq, runs, bound, stimuli, handed, verdict>>

(* MarkFinished's error is ignored: the kill goes out anyway. *)
FinishStuck(x) ==
  /\ recon.phase = "stuck"
  /\ x \in recon.todo
  /\ recon' = [recon EXCEPT !.todo = @ \ {x}]
  /\ FinishOrConflict(x.job, x.row.agent, "stuck", x.row.vm)
  /\ Kill(x.row.agent, x.row.vm, x.job)
  /\ UNCHANGED <<calls, runs, bound, stimuli, handed, verdict>>

ListStaleMinted(old) ==
  /\ recon.phase = "stuck" /\ recon.todo = {}
  /\ old \subseteq {j \in Jobs : StaleCheck /\ byID[j].status = "minted"}
  /\ recon' = [phase |-> "stale", todo |-> Snapshots(old)]
  /\ UNCHANGED <<storeVars, calls, cmdq, runs, bound, stimuli, handed, verdict>>

(* Mutant: the copy is put back as failed. *)
FailStalePut(x) ==
  /\ recon.phase = "stale"
  /\ x \in recon.todo
  /\ recon' = [recon EXCEPT !.todo = @ \ {x}]
  /\ Put(x.job, [x.row EXCEPT !.status = "failed", !.jit = 0])
  /\ UNCHANGED <<clock, calls, cmdq, runs, bound, stimuli, handed, verdict>>

FailStale(x) ==
  /\ recon.phase = "stale"
  /\ x \in recon.todo
  /\ recon' = [recon EXCEPT !.todo = @ \ {x}]
  /\ FailOrUnknown(x.job)
  /\ UNCHANGED <<calls, cmdq, runs, bound, stimuli, handed, verdict>>

EndOfPass(mem, rows) ==
  /\ recon.phase = "stale" /\ recon.todo = {}
  /\ recon' = [phase |-> "idle", todo |-> {}]
  /\ PruneFinished(mem, rows)
  /\ UNCHANGED <<calls, cmdq, runs, bound, stimuli, handed, verdict>>

ReconcileOnce ==
  \/ \E old \in SUBSET Jobs : ListStuck(old) \/ ListStaleMinted(old)
  \/ \E x \in recon.todo : FinishStuck(x) \/ FailStale(x)
  \/ \E mem, rows \in SUBSET Jobs : EndOfPass(mem, rows)

-----------------------------------------------------------------------------
(* Agent requests.  An agent works on one job at a time here.              *)

ClaimedBy(a) == {c \in calls : c.op = "claimed" /\ c.agent = a}

(* handleJobClaim: ClaimNext updates the row ... *)
handleJobClaim(a, cached) ==
  /\ runs[a] = {} /\ ClaimedBy(a) = {}
  /\ ClaimNext(a, cached)
  /\ \E j \in Jobs :
       /\ byID'[j] # byID[j]
       /\ Begin(Handler("claimed", j, a, byID'[j]))
  /\ UNCHANGED <<recon, cmdq, runs, bound, stimuli, handed, verdict>>

(* Mutant: the reply does not wait for the write. *)
ClaimReplyEarly(c) ==
  /\ c.op = "claimed"
  /\ End(c)
  /\ runs' = [runs EXCEPT ![c.agent] = @ \cup {[job |-> c.job, vm |-> NoVM, st |-> "claimed", killed |-> FALSE]}]
  /\ handed' = handed \cup {c.row.jit}
  /\ UNCHANGED <<storeVars, recon, cmdq, bound, stimuli, verdict>>

(* ... and the reply goes out after its write; it may be lost. *)
ClaimReply(c) ==
  /\ c.op = "claimed"
  /\ End(c)
  /\ [job |-> c.job, row |-> c.row] \notin flushing
  /\ \/ /\ runs' = [runs EXCEPT ![c.agent] = @ \cup {[job |-> c.job, vm |-> NoVM, st |-> "claimed", killed |-> FALSE]}]
        /\ handed' = handed \cup {c.row.jit}
     \/ UNCHANGED <<runs, handed>>
  /\ UNCHANGED <<storeVars, recon, cmdq, bound, stimuli, verdict>>

Advance(a, r, next) == runs' = [runs EXCEPT ![a] = (@ \ {r}) \cup {next}]
Drop(a, r)          == runs' = [runs EXCEPT ![a] = @ \ {r}]

(* The pool binds the job to a VM that ran no job before. *)
BindVM(a, r, v) ==
  /\ r.st = "claimed" /\ bound[v] = <<>>
  /\ bound' = [bound EXCEPT ![v] = <<a, r.job>>]
  /\ Advance(a, r, [r EXCEPT !.vm = v, !.st = "bound"])
  /\ UNCHANGED <<storeVars, calls, recon, cmdq, stimuli, handed, verdict>>

(* handleJobStarted; the worker goes on whether the report was accepted,   *)
(* rejected or lost.                                                       *)
handleJobStarted(a, r) ==
  /\ r.st = "bound"
  /\ Advance(a, r, [r EXCEPT !.st = "running"])
  /\ MarkStarted(r.job, a, r.vm) \/ UNCHANGED storeVars
  /\ UNCHANGED <<calls, recon, cmdq, bound, stimuli, handed, verdict>>

(* What the worker reports: no VM; how the wait for the runner ended, also  *)
(* when the kill came too late.                                            *)
RunOutcome(r) ==
  IF r.st = "claimed" THEN {"error"}
  ELSE Outcomes \cap ({"success", "failure", "timeout", "error"}
                       \cup IF r.killed THEN {"cancelled"} ELSE {})

(* MarkFinished and, if there are cache counters, SetCacheStats. *)
FinishReport(j, a, o, v, others) ==
  \/ /\ MarkFinished(j, a, o, v)
     /\ calls' \in {others, others \cup {Handler("stats", j, a, NoRow)}}
  \/ /\ ~CanFinish(j, a)
     /\ calls' = others
     /\ UNCHANGED storeVars

(* handleJobFinished: remint if the runner log shows another job and the   *)
(* row is not terminal, otherwise FinishReport.  The report may be lost.   *)
handleJobFinished(a, r) ==
  /\ r.st # "bound"
  /\ Drop(a, r)
  /\ \/ \E o \in RunOutcome(r) : FinishReport(r.job, a, o, r.vm, calls)
     \/ /\ byID[r.job].status \in Live
        /\ Begin(Handler("remint", r.job, a, [byID[r.job] EXCEPT !.vm = r.vm]))
        /\ UNCHANGED storeVars
     \/ UNCHANGED <<storeVars, calls>>
  /\ UNCHANGED <<recon, cmdq, bound, stimuli, handed, verdict>>

(* GitHub refuses to mint: a webhook gives up, a report finishes the job   *)
(* with "error".                                                           *)
RemintFails(c) ==
  /\ c.op = "remint"
  /\ c \in calls
  /\ IF c.agent = NoAgent
     THEN End(c) /\ UNCHANGED storeVars
     ELSE FinishReport(c.job, c.agent, "error", c.row.vm, calls \ {c})
  /\ UNCHANGED <<recon, cmdq, runs, bound, stimuli, handed, verdict>>

SetCacheStats(c) ==
  /\ c.op = "stats"
  /\ End(c)
  /\ \/ SetMeta(c.job)
     \/ ~Exists(c.job) /\ UNCHANGED storeVars
  /\ UNCHANGED <<recon, cmdq, runs, bound, stimuli, handed, verdict>>

(* Heartbeat: take empties the queue before the reply is written, so a     *)
(* lost reply loses the kills.                                             *)
handleAgentRegister(a) ==
  /\ cmdq[a] # {}
  /\ cmdq' = [cmdq EXCEPT ![a] = {}]
  /\ \/ runs' = [runs EXCEPT ![a] =
                   {IF \E k \in cmdq[a] : k.vm = r.vm THEN [r EXCEPT !.killed = TRUE] ELSE r
                      : r \in @}]
     \/ UNCHANGED runs
  /\ UNCHANGED <<storeVars, calls, recon, bound, stimuli, handed, verdict>>

AgentCrash(a) ==
  /\ MayCrash
  /\ runs[a] # {}
  /\ runs' = [runs EXCEPT ![a] = {}]
  /\ UNCHANGED <<storeVars, calls, recon, cmdq, bound, stimuli, handed, verdict>>

-----------------------------------------------------------------------------

(* flushPersist of one of the copies in flight. *)
Flush ==
  /\ \E f \in flushing : Persist(f) \/ PersistFails(f)
  /\ UNCHANGED ctlVars

(* temperci-control restarts: only the table survives. *)
ControlRestart ==
  /\ MayCrash
  /\ Restart
  /\ calls' = {}
  /\ recon' = [phase |-> "idle", todo |-> {}]
  /\ cmdq' = [a \in Agents |-> {}]
  /\ UNCHANGED <<runs, bound, stimuli, handed, verdict>>

CPInit ==
  /\ Init
  /\ calls = {}
  /\ recon = [phase |-> "idle", todo |-> {}]
  /\ cmdq = [a \in Agents |-> {}]
  /\ runs = [a \in Agents |-> {}]
  /\ bound = [v \in VMs |-> <<>>]
  /\ stimuli = 0
  /\ handed = {}
  /\ verdict = {}

Webhook(j) ==
  WebhookQueued(j) \/ WebhookInProgress(j) \/ WebhookCompleted(j)

Continue(c) ==
  \/ HandleWorkflowJob(c)
  \/ Remint(c) \/ RemintFails(c)
  \/ finishFromGitHub(c)
  \/ handleJobCancel(c)
  \/ ClaimReply(c)
  \/ SetCacheStats(c)

AgentStep(a) ==
  \/ \E cached \in SUBSET Repos : handleJobClaim(a, cached)
  \/ \E r \in runs[a] :
       \/ \E v \in VMs : BindVM(a, r, v)
       \/ handleJobStarted(a, r)
       \/ handleJobFinished(a, r)
  \/ handleAgentRegister(a)
  \/ AgentCrash(a)

CPNext ==
  \/ \E j \in Jobs : Webhook(j) \/ CancelRequest(j)
  \/ \E v \in VMs : handleVMKill(v)
  \/ \E c \in calls : Continue(c)
  \/ \E a \in Agents : AgentStep(a)
  \/ ReconcileOnce
  \/ Flush
  \/ ControlRestart

CPSpec == CPInit /\ [][CPNext]_vars

(* A write ends; the reconciler's ticker keeps firing, and a job that stays *)
(* claimed is past its deadline in all but finitely many passes.  (Strong:  *)
(* MaxFlush, a bound of the model, may disable a step for a while.)         *)
OldPass == ListStuck({j \in Jobs : byID[j].status \in Claimed})

Fairness ==
  /\ WF_vars(Flush)
  /\ SF_vars(OldPass)
  /\ SF_vars(\E x \in recon.todo : FinishStuck(x) \/ FailStale(x))
  /\ SF_vars(\E old \in SUBSET Jobs : ListStaleMinted(old))
  /\ SF_vars(\E mem, rows \in SUBSET Jobs : EndOfPass(mem, rows))

CPLive == CPSpec /\ Fairness

-----------------------------------------------------------------------------
(* Properties. *)

\* The handlers' bookkeeping has the types of the Go values it models.
CPTypeOK ==
  /\ TypeOK
  /\ calls \subseteq Call
  /\ recon.phase \in {"idle", "stuck", "stale"}
  /\ recon.todo \subseteq Copy
  /\ \A a \in Agents :
       /\ cmdq[a] \subseteq [vm : VMs, job : Jobs \cup {NoJob}]
       /\ runs[a] \subseteq Run
  /\ stimuli \in 0 .. MaxStimuli
  /\ handed \subseteq 1 .. MaxClock
  /\ verdict \subseteq Jobs

\* Every handler's update of the job table, interleaved with every other, is an
\* update AssignmentStore allows: the control plane implements the store.
StoreSpec == Spec

\* A queued kill for a job names the VM and the agent that job was bound to, however
\* old the row copy it was built from: a kill never destroys another job's VM.
KillsHitOwnJob ==
  \A a \in Agents : \A k \in cmdq[a] :
    k.job # NoJob => bound[k.vm] = <<a, k.job>>

\* A JIT config is single-use: once an agent has received it, no job is
\* claimable with it again, also across a control restart
\* (ClaimNext's row is written before the claim is answered).
JITHandedOnce == \A j \in Jobs : byID[j].status = "minted" => byID[j].jit \notin handed

\* "Stuck assignments eventually clear JIT from control memory": a claimed job whose
\* agent never reports again does not stay claimed.
StuckEventuallyCleared ==
  \A j \in Jobs : byID[j].status \in Claimed ~> byID[j].status \notin Claimed

\* "GitHub is authoritative, including when the agent already finished": after the
\* completed webhook was processed a finished job has GitHub's conclusion.
GitHubAuthoritative ==
  \A j \in verdict : byID[j].status = "finished" => byID[j].outcome = Conclusion

\* "If AssignedAgentID and VMID set, cmdq.enqueueKill": when GitHub's completion
\* finishes a job whose agent and VM are known, a kill for that VM is queued.
CompletionKills ==
  [][\A c \in calls :
       finishFromGitHub(c) /\ byID[c.job].status = "started" /\ byID'[c.job].status = "finished"
         => [vm |-> byID[c.job].vm, job |-> c.job] \in cmdq'[byID[c.job].agent]]_vars
=============================================================================
