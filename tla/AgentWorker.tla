----------------------------- MODULE AgentWorker -----------------------------
(***************************************************************************)
(* The agent's worker (internal/agent/worker.go): the loop that claims     *)
(* jobs while it has free slots, one handleJob goroutine per claimed job,  *)
(* and what main does with them when the process is told to stop.          *)
(*                                                                         *)
(* The pool is what the worker sees of it, with VMs of one size: counters   *)
(* of warm, booting and destroying VMs.  WarmPool has its inner steps.      *)
(***************************************************************************)
EXTENDS Admission, FiniteSets

CONSTANTS
  Jobs,
  Cfg,             \* [min, max]: min_ready and max_ready as configured
  Adm,             \* the admission of the configured VM size
  Hosts,           \* samples the host may give at any time
  MaxFaults        \* bound on lost claims, failing boots and failing runner starts

ASSUME WorkerConstants ==
  /\ IsFiniteSet(Jobs)
  /\ Cfg \in [min : Nat, max : Nat]
  /\ Adm \in Admissions(Nat) /\ Adm.mem > 0
  /\ Hosts \subseteq Samples(Nat) /\ Hosts # {}
  /\ MaxFaults \in Nat

VARIABLES
  capacity,   \* w.Capacity, the pool's effective max_ready
  loop,       \* [at, warm, busy, n]: Run's place and what its snapshot has read so far
  jobs,       \* job -> where it is
  inflight,   \* w.inflight
  pool,       \* [warm, boot, dying]: VMs of the pool that no job holds
  term,       \* SIGTERM was received: the worker's context is cancelled
  main,       \* main's place: "run", "drain", "shutdown", "exit"
  expired,    \* history: main stopped waiting for the worker
  faults

workerVars == <<capacity, loop, jobs, inflight, pool, term, main, expired, faults>>

Places == {"queued", "sent", "bind", "cold", "busy", "dying", "report", "done", "lost"}
At(j, p) == jobs[j] = p
In(P) == {j \in Jobs : jobs[j] \in P}
Goto(j, p) == jobs' = [jobs EXCEPT ![j] = p]

Fault == faults < MaxFaults /\ faults' = faults + 1
Fine  == UNCHANGED faults

(* Pool.Counts, and the instances admission counts. *)
Busy == Cardinality(In({"busy"}))
Allocated == pool.warm + pool.boot + pool.dying + Cardinality(In({"busy", "cold", "dying"}))

Alive    == main # "exit"
Stopping == main \in {"shutdown", "exit"}

-----------------------------------------------------------------------------
(* Run: snapshot, claim, start a goroutine. *)

Loop(at) == loop' = [at |-> at, warm |-> 0, busy |-> 0, n |-> 0]

(* The top of the loop; the first thing snapshot reads is Pool.Counts. *)
Counts ==
  /\ loop.at = "top" /\ Alive
  /\ IF term THEN Loop("drain")
     ELSE loop' = [at |-> "counts", warm |-> pool.warm, busy |-> Busy, n |-> 0]
  /\ Fine /\ UNCHANGED <<capacity, jobs, inflight, pool, term, main, expired>>

(* Then w.inflight, *)
inFlight ==
  /\ loop.at = "counts" /\ Alive
  /\ loop' = [loop EXCEPT !.at = "inflight", !.n = inflight]
  /\ Fine /\ UNCHANGED <<capacity, jobs, inflight, pool, term, main, expired>>

(* Mutant: jobs that have not got a VM yet are not counted. *)
FreeSlotsBusy(remaining) ==
  Least(AtLeast0(capacity - loop.busy), AtLeast0(loop.warm + remaining))

(* FreeSlots of what was read. *)
FreeSlots(remaining) ==
  LET used        == IF loop.n > loop.busy THEN loop.n ELSE loop.busy
      pendingBind == AtLeast0(loop.n - loop.busy)
  IN  AtLeast0(Least(AtLeast0(capacity - used), loop.warm + remaining - pendingBind))

(* and last the pool's RemainingCreates.  Without a free slot the loop sleeps. *)
snapshot ==
  /\ loop.at = "inflight" /\ Alive
  /\ \E inv \in Hosts : Loop(IF FreeSlots(Remaining(Adm, inv, Allocated)) > 0 THEN "claim" ELSE "top")
  /\ Fine /\ UNCHANGED <<capacity, jobs, inflight, pool, term, main, expired>>

(* The control plane hands out a job. *)
Claim(j) ==
  /\ loop.at = "claim" /\ Alive /\ ~term /\ At(j, "queued")
  /\ Goto(j, "sent") /\ Loop("reply")
  /\ Fine /\ UNCHANGED <<capacity, inflight, pool, term, main, expired>>

(* It has none, the request fails, or is cancelled with the context. *)
NoClaim ==
  /\ loop.at = "claim" /\ Alive
  /\ Loop("top")
  /\ Fine /\ UNCHANGED <<capacity, jobs, inflight, pool, term, main, expired>>

(* The answer is lost; the control plane's reconciler has to free the job. *)
ClaimLost(j) ==
  /\ loop.at = "reply" /\ Alive /\ At(j, "sent")
  /\ Goto(j, "lost") /\ Loop("top")
  /\ (IF term THEN Fine ELSE Fault)
  /\ UNCHANGED <<capacity, inflight, pool, term, main, expired>>

(* jobsWG.Add, addInFlight and the goroutine. *)
Run(j) ==
  /\ loop.at = "reply" /\ Alive /\ At(j, "sent")
  /\ Goto(j, "bind") /\ Loop("top")
  /\ inflight' = inflight + 1
  /\ Fine /\ UNCHANGED <<capacity, pool, term, main, expired>>

(* Mutant: Run returns at once. *)
drainNothing ==
  /\ loop.at = "drain" /\ Alive
  /\ Loop("done")
  /\ Fine /\ UNCHANGED <<capacity, jobs, inflight, pool, term, main, expired>>

(* Run returns when the deferred jobsWG.Wait does. *)
drainReturn ==
  /\ loop.at = "drain" /\ Alive
  /\ In(Places \ {"queued", "sent", "done", "lost"}) = {}
  /\ Loop("done")
  /\ Fine /\ UNCHANGED <<capacity, jobs, inflight, pool, term, main, expired>>

-----------------------------------------------------------------------------
(* handleJob; its context is not the cancelled one. *)

MayCreate == \E inv \in Hosts : CanCreate(Adm, inv, Allocated)
MayRefuse == \E inv \in Hosts : ~CanCreate(Adm, inv, Allocated)

BindWarm(j) ==
  /\ At(j, "bind") /\ Alive /\ ~Stopping /\ pool.warm > 0
  /\ pool' = [pool EXCEPT !.warm = @ - 1]
  /\ Goto(j, "busy")
  /\ Fine /\ UNCHANGED <<capacity, loop, inflight, term, main, expired>>

(* Without a warm VM, and without a booting one unless that takes too long. *)
BindCold(j) ==
  /\ At(j, "bind") /\ Alive /\ ~Stopping /\ pool.warm = 0 /\ MayCreate
  /\ Goto(j, "cold")
  /\ Fine /\ UNCHANGED <<capacity, loop, inflight, pool, term, main, expired>>

(* Nothing to wait for, or the pool stops. *)
BindFails(j) ==
  /\ At(j, "bind") /\ Alive
  /\ \/ Stopping
     \/ MayRefuse /\ Allocated = 0
  /\ Goto(j, "report")
  /\ Fine /\ UNCHANGED <<capacity, loop, inflight, pool, term, main, expired>>

ColdBooted(j) ==
  /\ At(j, "cold") /\ Alive
  /\ \/ ~Stopping /\ Goto(j, "busy") /\ Fine
     \/ Goto(j, "report") /\ IF Stopping THEN Fine ELSE Fault
  /\ UNCHANGED <<capacity, loop, inflight, pool, term, main, expired>>

(* The runner exits, the deadline passes, or the runner did not start: *)
(* JobFinished marks the VM destroying and destroys it.                  *)
JobFinished(j) ==
  /\ At(j, "busy") /\ Alive
  /\ Goto(j, "dying")
  /\ Fine /\ UNCHANGED <<capacity, loop, inflight, pool, term, main, expired>>

(* The destroy succeeds, or is left to the pool's retries. *)
Destroyed(j) ==
  /\ At(j, "dying") /\ Alive
  /\ Goto(j, "report")
  /\ \/ Fine /\ UNCHANGED pool
     \/ Fault /\ pool' = [pool EXCEPT !.dying = @ + 1]
  /\ UNCHANGED <<capacity, loop, inflight, term, main, expired>>

(* The deferred calls of the goroutine: addInFlight(-1), jobsWG.Done. *)
addInFlight == inflight' = AtLeast0(inflight - 1)

(* Mutant: the report is sent in the worker's context. *)
finishInContext(j) ==
  /\ At(j, "report") /\ Alive /\ ~term
  /\ Goto(j, "done") /\ addInFlight
  /\ Fine /\ UNCHANGED <<capacity, loop, pool, term, main, expired>>

(* The outcome is reported, and the goroutine returns. *)
finish(j) ==
  /\ At(j, "report") /\ Alive
  /\ Goto(j, "done") /\ addInFlight
  /\ Fine /\ UNCHANGED <<capacity, loop, pool, term, main, expired>>

handleJob(j) ==
  \/ BindWarm(j) \/ BindCold(j) \/ BindFails(j) \/ ColdBooted(j)
  \/ JobFinished(j) \/ Destroyed(j) \/ finish(j)

(* A kill command of the control plane.  The destroy tells the job's wait that the runner *)
(* stopped, so the job goes on while its VM is taken down; its own JobFinished finds no     *)
(* busy VM.                                                                                  *)
KillVM(j) ==
  /\ At(j, "busy") /\ Alive
  /\ Goto(j, "report")
  /\ pool' = [pool EXCEPT !.dying = @ + 1]
  /\ Fine /\ UNCHANGED <<capacity, loop, inflight, term, main, expired>>

-----------------------------------------------------------------------------
(* The pool by itself. *)

(* The clamped pool configuration: min_ready is the pool's, and it is not *)
(* refilled while a VM is busy.                                             *)
replenish ==
  /\ Alive /\ ~Stopping /\ Busy = 0
  /\ pool.warm + pool.boot < Least(Cfg.min, capacity) /\ MayCreate
  /\ pool' = [pool EXCEPT !.boot = @ + 1]
  /\ Fine /\ UNCHANGED <<capacity, loop, jobs, inflight, term, main, expired>>

BootEnds ==
  /\ Alive /\ pool.boot > 0
  /\ \/ pool' = [pool EXCEPT !.boot = @ - 1, !.warm = @ + 1] /\ Fine
     \/ pool' = [pool EXCEPT !.boot = @ - 1] /\ Fault
  /\ UNCHANGED <<capacity, loop, jobs, inflight, term, main, expired>>

(* DrainWarm and recycleIdle. *)
recycle ==
  /\ Alive /\ pool.warm > 0
  /\ pool' = [pool EXCEPT !.warm = @ - 1, !.dying = @ + 1]
  /\ Fine /\ UNCHANGED <<capacity, loop, jobs, inflight, term, main, expired>>

DestroyEnds ==
  /\ Alive /\ pool.dying > 0
  /\ pool' = [pool EXCEPT !.dying = @ - 1]
  /\ Fine /\ UNCHANGED <<capacity, loop, jobs, inflight, term, main, expired>>

-----------------------------------------------------------------------------
(* main. *)

(* SIGTERM cancels the context of the worker, not that of the pool. *)
Signal ==
  /\ main = "run"
  /\ term' = TRUE /\ main' = "drain"
  /\ Fine /\ UNCHANGED <<capacity, loop, jobs, inflight, pool, expired>>

(* The worker is done, or main has waited as long as a job may take; then *)
(* Shutdown stops the pool and destroys its VMs.                           *)
Shutdown ==
  /\ main = "drain"
  /\ main' = "shutdown"
  /\ \/ loop.at = "done" /\ UNCHANGED expired
     \/ loop.at # "done" /\ expired' = TRUE
  /\ Fine /\ UNCHANGED <<capacity, loop, jobs, inflight, pool, term>>

Exit ==
  /\ main = "shutdown"
  /\ main' = "exit" /\ pool' = [warm |-> 0, boot |-> 0, dying |-> 0]
  /\ Fine /\ UNCHANGED <<capacity, loop, jobs, inflight, term, expired>>

-----------------------------------------------------------------------------

(* NewPool clamps to the sample it takes at the start; main gives the result *)
(* to the worker.                                                             *)
WorkerInit ==
  /\ \E inv \in Hosts : capacity = ClampPoolToHost(Cfg, Adm, inv).max
  /\ loop = [at |-> "top", warm |-> 0, busy |-> 0, n |-> 0]
  /\ jobs = [j \in Jobs |-> "queued"] /\ inflight = 0
  /\ pool = [warm |-> 0, boot |-> 0, dying |-> 0]
  /\ term = FALSE /\ main = "run" /\ expired = FALSE
  /\ faults = 0

RunStep ==
  \/ Counts \/ inFlight \/ snapshot \/ NoClaim \/ drainReturn
  \/ \E j \in Jobs : Claim(j) \/ ClaimLost(j) \/ Run(j)

PoolStep == replenish \/ BootEnds \/ recycle \/ DestroyEnds

WorkerNext ==
  \/ RunStep
  \/ \E j \in Jobs : handleJob(j) \/ KillVM(j)
  \/ PoolStep
  \/ Signal \/ Shutdown \/ Exit

(* Goroutines run; a job ends by its deadline, and Bind returns (WarmPool's   *)
(* BindReturns).  That main stops waiting is not assumed.                        *)
WorkerSpec ==
  /\ WorkerInit /\ [][WorkerNext]_workerVars
  /\ WF_workerVars(RunStep)
  /\ \A j \in Jobs : SF_workerVars(handleJob(j))
  /\ WF_workerVars(DestroyEnds) /\ WF_workerVars(BootEnds)
  /\ WF_workerVars(loop.at = "done" /\ Shutdown)
  /\ WF_workerVars(Exit)

-----------------------------------------------------------------------------
(* Properties. *)

\* The worker's variables have the types of the Go values they model.
WorkerTypeOK ==
  /\ capacity \in 0..Cfg.max
  /\ loop \in [at : {"top", "counts", "inflight", "claim", "reply", "drain", "done"},
               warm : Nat, busy : Nat, n : Nat]
  /\ jobs \in [Jobs -> Places]
  /\ inflight \in Nat
  /\ pool \in [warm : Nat, boot : Nat, dying : Nat]
  /\ term \in BOOLEAN /\ expired \in BOOLEAN
  /\ main \in {"run", "drain", "shutdown", "exit"}
  /\ faults \in 0..MaxFaults

(* Claimed jobs whose goroutine has not returned, one on its way included. *)
Held == In(Places \ {"queued", "done", "lost"})

\* "Capacity is max concurrent jobs": the worker never holds more than that, although its
\* snapshot reads Busy, inflight and RemainingCreates one after the other while jobs bind
\* and end, and a claimed job is not busy until Bind has a VM for it.
WithinCapacity == Cardinality(Held) <= capacity

\* "Agent SIGTERM must not yank a running GitHub job": main shuts the pool down only when
\* every job the worker was given has been reported, unless the drain took too long; a
\* claim that was under way at the signal included.
DrainSparesJobs == Stopping /\ ~expired => Held = {}

\* Every job whose claim was answered is reported in the end, before or after SIGTERM,
\* unless main has stopped waiting.
JobsReported ==
  \A j \in Jobs : At(j, "bind") ~> At(j, "done") \/ expired

\* The agent stops: after SIGTERM the claim loop ends, the jobs end, and main exits.
Terminates == term ~> main = "exit"
=============================================================================
