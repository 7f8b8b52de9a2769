------------------------------- MODULE WarmPool -------------------------------
(***************************************************************************)
(* The host agent's pool of microVMs (internal/agent/pool.go) with the     *)
(* goroutines that share it: one Bind/JobFinished caller per claimed job   *)
(* (worker.go), the boot goroutines replenish starts, the reconciler, the  *)
(* heartbeat's KillVM, the admin endpoint's DrainWarm, and Shutdown.       *)
(*                                                                         *)
(* p.mu guards the map and is released around everything that touches the  *)
(* host (Create, Boot, the ready wait, StartRunner, cleaner.Destroy).  An  *)
(* action is one critical section with the host call that precedes it: no  *)
(* other goroutine reads the host, so the call can be moved to the section. *)
(***************************************************************************)
EXTENDS Integers, FiniteSets, Functions

CONSTANTS
  Ids,                \* VM ids; an id is used again only when nothing names it
  Jobs,               \* claimed jobs, each bound at most once
  Shapes,             \* VM sizes
  MemOf,              \* shape -> memory in units
  ShapeOf,            \* job -> the shape ResolveJobShape gives its labels
  MinReady,           \* shape -> warm VMs to keep
  MaxReady,           \* cap on warm and booting VMs
  MaxTotalVMs,        \* hard cap on tracked VMs
  RAMBudget,          \* host memory minus the reserve
  NoId, NoJob,
  InventoryMayRefuse, \* may live memory, disk or a failing sample refuse a create?
  BootWaitMayExpire,  \* may Bind stop waiting for a matching boot?
  BootMayFail,        \* may Create, Boot, the ready wait or StartRunner fail?
  DestroyMayFail,     \* may cleaner.Destroy fail?
  IdleRecycle,        \* is idle recycling configured?
  MayDrain, MayKill, MayStop, MayCrash,
  MaxOrphans          \* bound: instances whose destroy failed unnoticed

ASSUME PoolConstants ==
  /\ IsFiniteSet(Ids) /\ IsFiniteSet(Jobs) /\ IsFiniteSet(Shapes) /\ Shapes # {}
  /\ NoId \notin Ids /\ NoJob \notin Jobs
  /\ Jobs \cap {"recon", "drain", "kill", "shutdown"} = {}
  /\ MemOf \in [Shapes -> Nat] /\ ShapeOf \in [Jobs -> Shapes]
  /\ MinReady \in [Shapes -> Nat]
  /\ MaxReady \in Nat /\ MaxTotalVMs \in Nat /\ RAMBudget \in Nat
  /\ MaxOrphans \in Nat
  /\ {InventoryMayRefuse, BootWaitMayExpire, BootMayFail, DestroyMayFail,
      IdleRecycle, MayDrain, MayKill, MayStop, MayCrash} \subseteq BOOLEAN

VARIABLES
  life,       \* the agent process: down, up, stopping (Stop waits), destroying
  vms,        \* p.vms: id -> state, job and shape; state "none": no entry
  older,      \* the order of warmSince: <<x, y>> when x has been warm longer than y
  host,       \* ids with an instance on the host
  boots,      \* id -> its boot goroutine
  binds,      \* job -> its Bind/JobFinished caller and the VM id it holds
  destroy,    \* who runs destroyNow, and for which id
  recon,      \* the reconciler: phase, ids and shapes still to process
  drain,      \* ids DrainWarm listed and has yet to destroy
  kill,       \* KillVM between its two critical sections
  shut,       \* ids Shutdown has yet to destroy
  tainted     \* host instances that were given a job's JIT config

poolVars == <<life, vms, older, host, boots, binds, destroy, recon, drain,
              kill, shut, tainted>>

Actors == Jobs \cup {"recon", "drain", "kill", "shutdown"}

VMStates == {"none", "pool_boot", "warm", "busy", "destroying"}
NoVM == [state |-> "none", job |-> NoJob, shape |-> CHOOSE s \in Shapes : TRUE]
NoKill == [id |-> NoId, busy |-> FALSE]
Idle == [phase |-> "idle", ids |-> {}, shapes |-> {}]

Tracked     == {id \in Ids : vms[id].state # "none"}
InState(st) == {id \in Ids : vms[id].state = st}
OfShape(S, s) == {id \in S : vms[id].shape = s}

(* createInFlight: cold binds admitted but not yet in the map. *)
InFlight == {j \in Jobs : binds[j].pc \in {"create", "boot", "cleanup"}}

(* randomVMID: an id nothing refers to. *)
Fresh(id) ==
  /\ vms[id].state = "none" /\ id \notin host /\ boots[id] = "none"
  /\ \A j \in Jobs : binds[j].id # id
  /\ \A a \in Actors : destroy[a] # id
  /\ id \notin recon.ids \cup drain \cup shut
  /\ kill.id # id

(* A VM in the map changes state; the rest of its entry stays. *)
Enter(id, vm) ==
  /\ vms' = [vms EXCEPT ![id] = vm]
  /\ older' = {p \in older : id \notin {p[1], p[2]}}
              \cup IF vm.state = "warm" THEN (InState("warm") \ {id}) \X {id} ELSE {}

MarkDestroying(id) == Enter(id, [vms[id] EXCEPT !.state = "destroying", !.job = NoJob])

-----------------------------------------------------------------------------
(* Admission. *)

allocatedRAMLocked ==
  SumFunctionOnSet([id \in Ids |-> MemOf[vms[id].shape]], Tracked)
  + SumFunctionOnSet([j \in Jobs |-> MemOf[ShapeOf[j]]], InFlight)

(* Mutants: cold boots under way are not counted; the memory of the VM to   *)
(* be created is not counted.                                              *)
canCreateTracked(s) ==
  /\ Cardinality(Tracked) < MaxTotalVMs
  /\ allocatedRAMLocked + MemOf[s] <= RAMBudget
canCreateLastBit(s) ==
  /\ Cardinality(Tracked) + Cardinality(InFlight) < MaxTotalVMs
  /\ allocatedRAMLocked < RAMBudget

canCreateLocked(s) ==
  /\ Cardinality(Tracked) + Cardinality(InFlight) < MaxTotalVMs
  /\ allocatedRAMLocked + MemOf[s] <= RAMBudget

(* The part of the check that depends on the live host may refuse too. *)
CreateRefused(s) == InventoryMayRefuse \/ ~canCreateLocked(s)

reclaimableLocked ==
  InFlight # {} \/ \E id \in Ids : vms[id].state \in {"busy", "pool_boot", "destroying"}

matchingPoolBootLocked(s) == OfShape(InState("pool_boot"), s) # {}

-----------------------------------------------------------------------------
(* Destroying. *)

(* beginDestroy up to the unlock: whatever state the VM is in by now. *)
beginDestroy(a, id) ==
  /\ IF id \in Tracked THEN MarkDestroying(id) ELSE UNCHANGED <<vms, older>>
  /\ destroy' = [destroy EXCEPT ![a] = id]

(* destroyNow: the host cleanup and its result.  Success deletes the entry, *)
(* failure leaves it destroying for the reconciler to retry.                *)
EndDestroy(a) ==
  /\ destroy' = [destroy EXCEPT ![a] = NoId]
  /\ binds' = IF a \in Jobs THEN [binds EXCEPT ![a] = [pc |-> "done", id |-> NoId]]
              ELSE binds
  /\ UNCHANGED <<life, boots, recon, drain, kill, shut>>

DestroyOK(a) ==
  /\ destroy[a] # NoId
  /\ host' = host \ {destroy[a]}
  /\ tainted' = tainted \ {destroy[a]}
  /\ Enter(destroy[a], NoVM)
  /\ EndDestroy(a)

(* Mutant: the entry goes although the VM is still there. *)
DestroyFailsForget(a) ==
  /\ destroy[a] # NoId
  /\ DestroyMayFail
  /\ Enter(destroy[a], NoVM)
  /\ EndDestroy(a)
  /\ UNCHANGED <<host, tainted>>

DestroyFails(a) ==
  /\ destroy[a] # NoId
  /\ DestroyMayFail
  /\ IF destroy[a] \in Tracked
     THEN Enter(destroy[a], [vms[destroy[a]] EXCEPT !.state = "destroying"])
     ELSE UNCHANGED <<vms, older>>
  /\ EndDestroy(a)
  /\ UNCHANGED <<host, tainted>>

(* cleaner.Destroy of an untracked VM, the error ignored: the instance may  *)
(* stay on the host with nobody left to name it.                            *)
Accounted(id) == id \in Tracked \/ boots[id] # "none" \/ \E j \in Jobs : binds[j].id = id
Orphans == {id \in host : ~Accounted(id)}

TryDestroy(id) ==
  /\ \/ host' = host \ {id}
     \/ DestroyMayFail /\ Cardinality(Orphans) < MaxOrphans /\ host' = host
  /\ tainted' = tainted \cap host'

(* vmm.Create; when it fails it may leave a partial instance. *)
CreateOK(id) == host' = host \cup {id}
CreateFails(id) == BootMayFail /\ (host' = host \cup {id} \/ host' = host)

-----------------------------------------------------------------------------
(* Bind and JobFinished, as the worker calls them for one job. *)

Bind(j, pc, id) == binds' = [binds EXCEPT ![j] = [pc |-> pc, id |-> id]]

(* pickWarmLocked: the VM of the job's shape that has been warm longest. *)
pickWarmLocked(s) ==
  {id \in OfShape(InState("warm"), s) :
     \A w \in OfShape(InState("warm"), s) : <<w, id>> \notin older}

BindCall(j) ==
  /\ binds[j].pc = "idle" /\ life # "down"
  /\ Bind(j, "pick", NoId)
  /\ UNCHANGED <<life, vms, older, host, boots, destroy, recon, drain, kill, shut, tainted>>

BindStopped(j) ==
  /\ binds[j].pc = "pick" /\ life \in {"stopping", "destroying"}
  /\ Bind(j, "done", NoId)
  /\ UNCHANGED <<life, vms, older, host, boots, destroy, recon, drain, kill, shut, tainted>>

BindWarm(j) ==
  /\ binds[j].pc = "pick" /\ life = "up"
  /\ \E id \in pickWarmLocked(ShapeOf[j]) :
       /\ Enter(id, [vms[id] EXCEPT !.state = "busy", !.job = j])
       /\ Bind(j, "start", id)
  /\ UNCHANGED <<life, host, boots, destroy, recon, drain, kill, shut, tainted>>

(* No warm VM, and no matching boot Bind would still wait for. *)
Cold(j) ==
  /\ binds[j].pc = "pick" /\ life = "up"
  /\ pickWarmLocked(ShapeOf[j]) = {}
  /\ matchingPoolBootLocked(ShapeOf[j]) => BootWaitMayExpire

BindCold(j, id) ==
  /\ Cold(j)
  /\ canCreateLocked(ShapeOf[j])
  /\ Fresh(id)
  /\ Bind(j, "create", id)
  /\ UNCHANGED <<life, vms, older, host, boots, destroy, recon, drain, kill, shut, tainted>>

(* The deadline passed; while a VM could still be reclaimed Bind waits on. *)
BindNoCapacity(j) ==
  /\ Cold(j)
  /\ CreateRefused(ShapeOf[j])
  /\ ~reclaimableLocked
  /\ Bind(j, "done", NoId)
  /\ UNCHANGED <<life, vms, older, host, boots, destroy, recon, drain, kill, shut, tainted>>

(* provision. *)
ColdCreate(j) ==
  /\ binds[j].pc = "create"
  /\ \/ CreateOK(binds[j].id) /\ Bind(j, "boot", binds[j].id)
     \/ CreateFails(binds[j].id) /\ Bind(j, "cleanup", binds[j].id)
  /\ UNCHANGED <<life, vms, older, boots, destroy, recon, drain, kill, shut, tainted>>

ColdBootFails(j) ==
  /\ binds[j].pc = "boot" /\ BootMayFail
  /\ TryDestroy(binds[j].id)
  /\ Bind(j, "cleanup", binds[j].id)
  /\ UNCHANGED <<life, vms, older, boots, destroy, recon, drain, kill, shut>>

(* Registered as busy at once, unless the pool is stopping. *)
ColdBooted(j) ==
  /\ binds[j].pc = "boot"
  /\ IF life = "up"
     THEN /\ Enter(binds[j].id, [state |-> "busy", job |-> j, shape |-> ShapeOf[j]])
          /\ Bind(j, "start", binds[j].id)
     ELSE /\ Bind(j, "abandon", binds[j].id)
          /\ UNCHANGED <<vms, older>>
  /\ UNCHANGED <<life, host, boots, destroy, recon, drain, kill, shut, tainted>>

ColdCleanup(j) ==
  /\ binds[j].pc \in {"cleanup", "abandon"}
  /\ TryDestroy(binds[j].id)
  /\ Bind(j, "done", NoId)
  /\ UNCHANGED <<life, vms, older, boots, destroy, recon, drain, kill, shut>>

(* Mutants: when the runner does not start, the VM goes back to the warm    *)
(* ones, or is left as it is.                                              *)
StartRunnerRewarm(j) ==
  /\ binds[j].pc = "start"
  /\ tainted' = tainted \cup ({binds[j].id} \cap host)
  /\ BootMayFail /\ binds[j].id \in Tracked
  /\ Enter(binds[j].id, [vms[binds[j].id] EXCEPT !.state = "warm", !.job = NoJob])
  /\ Bind(j, "done", NoId)
  /\ UNCHANGED <<life, host, boots, destroy, recon, drain, kill, shut>>
StartRunnerLeave(j) ==
  /\ binds[j].pc = "start"
  /\ tainted' = tainted \cup ({binds[j].id} \cap host)
  /\ BootMayFail
  /\ Bind(j, "done", NoId)
  /\ UNCHANGED <<life, vms, older, host, boots, destroy, recon, drain, kill, shut>>

(* The JIT config reaches the guest, also when starting the runner fails. *)
StartRunner(j) ==
  /\ binds[j].pc = "start"
  /\ tainted' = tainted \cup ({binds[j].id} \cap host)
  /\ \/ /\ Bind(j, "bound", binds[j].id)
        /\ UNCHANGED <<vms, older, destroy>>
     \/ /\ BootMayFail
        /\ beginDestroy(j, binds[j].id)
        /\ Bind(j, "destroy", binds[j].id)
  /\ UNCHANGED <<life, host, boots, recon, drain, kill, shut>>

JobFinished(j) ==
  /\ binds[j].pc = "bound"
  /\ IF vms[binds[j].id].state = "busy"
     THEN /\ MarkDestroying(binds[j].id)
          /\ destroy' = [destroy EXCEPT ![j] = binds[j].id]
          /\ Bind(j, "destroy", binds[j].id)
     ELSE /\ Bind(j, "done", NoId)
          /\ UNCHANGED <<vms, older, destroy>>
  /\ UNCHANGED <<life, host, boots, recon, drain, kill, shut, tainted>>

-----------------------------------------------------------------------------
(* finishBootWarm: the goroutine of one warm boot. *)

SetBoot(id, pc) == boots' = [boots EXCEPT ![id] = pc]

BootCreate(id) ==
  /\ boots[id] = "create"
  /\ CreateOK(id)
  /\ SetBoot(id, "boot")
  /\ UNCHANGED <<life, vms, older, binds, destroy, recon, drain, kill, shut, tainted>>

(* Mutant: the entry of a failed boot stays. *)
BootFailsKeep(id) ==
  /\ \/ boots[id] = "create" /\ CreateFails(id) /\ UNCHANGED tainted
     \/ boots[id] = "boot" /\ BootMayFail /\ TryDestroy(id)
  /\ SetBoot(id, "cleanup")
  /\ UNCHANGED <<life, vms, older, binds, destroy, recon, drain, kill, shut>>

(* provision failed: the entry goes first, then the host instance. *)
BootFails(id) ==
  /\ \/ boots[id] = "create" /\ CreateFails(id) /\ UNCHANGED tainted
     \/ boots[id] = "boot" /\ BootMayFail /\ TryDestroy(id)
  /\ Enter(id, NoVM)
  /\ SetBoot(id, "cleanup")
  /\ UNCHANGED <<life, binds, destroy, recon, drain, kill, shut>>

(* Mutant: nothing is done about a VM whose entry is gone. *)
BootWarmLeak(id) ==
  /\ boots[id] = "boot"
  /\ IF id \in Tracked
     THEN Enter(id, [vms[id] EXCEPT !.state = "warm"])
     ELSE UNCHANGED <<vms, older>>
  /\ SetBoot(id, "none")
  /\ UNCHANGED <<life, host, binds, destroy, recon, drain, kill, shut, tainted>>

(* Ready: the VM becomes warm, whatever its entry says by now; if it has   *)
(* none any more, it is destroyed.                                         *)
BootWarm(id) ==
  /\ boots[id] = "boot"
  /\ IF id \in Tracked
     THEN Enter(id, [vms[id] EXCEPT !.state = "warm"]) /\ SetBoot(id, "none")
     ELSE UNCHANGED <<vms, older>> /\ SetBoot(id, "cleanup")
  /\ UNCHANGED <<life, host, binds, destroy, recon, drain, kill, shut, tainted>>

BootCleanup(id) ==
  /\ boots[id] = "cleanup"
  /\ TryDestroy(id)
  /\ SetBoot(id, "none")
  /\ UNCHANGED <<life, vms, older, binds, destroy, recon, drain, kill, shut>>

-----------------------------------------------------------------------------
(* The reconciler: retryDestroys, recycleIdle, replenish. *)

ReconFree(phase) == recon.phase = phase /\ recon.ids = {} /\ destroy["recon"] = NoId

Reconcile(phase, ids, shapes) ==
  recon' = [phase |-> phase, ids |-> ids, shapes |-> shapes]

(* Mutant: the backoff is never over. *)
retryNothing(due) ==
  /\ ReconFree("idle") /\ life \in {"up", "stopping"}
  /\ due = {}
  /\ Reconcile("retry", due, {})
  /\ UNCHANGED <<life, vms, older, host, boots, binds, destroy, drain, kill, shut, tainted>>

(* due: the destroying VMs whose backoff is over.  Stop sets p.stopping a    *)
(* moment before it cancels the loop, so a pass may still begin.            *)
retryDestroys(due) ==
  /\ ReconFree("idle") /\ life \in {"up", "stopping"}
  /\ due \subseteq InState("destroying")
  /\ Reconcile("retry", due, {})
  /\ UNCHANGED <<life, vms, older, host, boots, binds, destroy, drain, kill, shut, tainted>>

RetryOne(id) ==
  /\ recon.phase = "retry" /\ id \in recon.ids /\ destroy["recon"] = NoId
  /\ destroy' = [destroy EXCEPT !["recon"] = id]
  /\ Reconcile("retry", recon.ids \ {id}, {})
  /\ UNCHANGED <<life, vms, older, host, boots, binds, drain, kill, shut, tainted>>

(* expired: warm VMs past the recycle timer, listed before any is destroyed. *)
recycleIdle(expired) ==
  /\ ReconFree("retry")
  /\ expired \subseteq IF IdleRecycle THEN InState("warm") ELSE {}
  /\ Reconcile("recycle", expired, {})
  /\ UNCHANGED <<life, vms, older, host, boots, binds, destroy, drain, kill, shut, tainted>>

RecycleOne(id) ==
  /\ recon.phase = "recycle" /\ id \in recon.ids /\ destroy["recon"] = NoId
  /\ beginDestroy("recon", id)
  /\ Reconcile("recycle", recon.ids \ {id}, {})
  /\ UNCHANGED <<life, host, boots, binds, drain, kill, shut, tainted>>

replenish ==
  /\ ReconFree("recycle")
  /\ Reconcile("replenish", {}, {s \in Shapes : MinReady[s] > 0})
  /\ UNCHANGED <<life, vms, older, host, boots, binds, destroy, drain, kill, shut, tainted>>

(* What reservePoolBoot checks besides admission. *)
WantsWarm(s) ==
  /\ life = "up"
  /\ InState("busy") = {}
  /\ Cardinality(OfShape(InState("warm") \cup InState("pool_boot"), s)) < MinReady[s]
  /\ Cardinality(InState("warm") \cup InState("pool_boot")) < MaxReady

reservePoolBoot(s, id) ==
  /\ recon.phase = "replenish" /\ s \in recon.shapes
  /\ WantsWarm(s)
  /\ canCreateLocked(s)
  /\ Fresh(id)
  /\ Enter(id, [state |-> "pool_boot", job |-> NoJob, shape |-> s])
  /\ SetBoot(id, "create")
  /\ UNCHANGED <<life, host, binds, destroy, recon, drain, kill, shut, tainted>>

ShapeDone(s) ==
  /\ recon.phase = "replenish" /\ s \in recon.shapes
  /\ ~WantsWarm(s) \/ CreateRefused(s)
  /\ Reconcile("replenish", {}, recon.shapes \ {s})
  /\ UNCHANGED <<life, vms, older, host, boots, binds, destroy, drain, kill, shut, tainted>>

EndOfPass ==
  /\ recon.phase = "replenish" /\ recon.shapes = {}
  /\ recon' = Idle
  /\ UNCHANGED <<life, vms, older, host, boots, binds, destroy, drain, kill, shut, tainted>>

-----------------------------------------------------------------------------
(* Operators' requests: DrainWarm (also from ReloadImage) and KillVM.  Both *)
(* look under the lock, release it, and act on what they saw.               *)

DrainWarm ==
  /\ MayDrain /\ life # "down"
  /\ drain = {} /\ destroy["drain"] = NoId
  /\ drain' = InState("warm")
  /\ UNCHANGED <<life, vms, older, host, boots, binds, destroy, recon, kill, shut, tainted>>

DrainOne(id) ==
  /\ id \in drain /\ destroy["drain"] = NoId
  /\ beginDestroy("drain", id)
  /\ drain' = drain \ {id}
  /\ UNCHANGED <<life, host, boots, binds, recon, kill, shut, tainted>>

KillVM(id) ==
  /\ MayKill /\ life # "down"
  /\ kill = NoKill /\ destroy["kill"] = NoId
  /\ id \in Tracked
  /\ kill' = [id |-> id, busy |-> vms[id].state = "busy"]
  /\ UNCHANGED <<life, vms, older, host, boots, binds, destroy, recon, drain, shut, tainted>>

(* A VM seen busy goes through JobFinished, which refuses one that is not  *)
(* busy any more; any other goes through beginDestroy.                     *)
KillSeen ==
  /\ kill # NoKill
  /\ kill' = NoKill
  /\ \/ /\ kill.busy => vms[kill.id].state = "busy"
        /\ beginDestroy("kill", kill.id)
     \/ /\ kill.busy /\ vms[kill.id].state # "busy"
        /\ UNCHANGED <<vms, older, destroy>>
  /\ UNCHANGED <<life, host, boots, binds, recon, drain, shut, tainted>>

-----------------------------------------------------------------------------
(* The process. *)

(* Start: SweepOrphans destroys every instance on the host, or Start fails. *)
Start ==
  /\ life = "down"
  /\ \/ life' = "up" /\ host' = {}
     \/ DestroyMayFail /\ UNCHANGED life /\ host' \in SUBSET host
  /\ tainted' = tainted \cap host'
  /\ UNCHANGED <<vms, older, boots, binds, destroy, recon, drain, kill, shut>>

(* Stop cancels the reconciler and waits for it and for the boots, *)
Stop ==
  /\ MayStop /\ life = "up"
  /\ life' = "stopping"
  /\ UNCHANGED <<vms, older, host, boots, binds, destroy, recon, drain, kill, shut, tainted>>

(* then Shutdown lists the map and destroys what is in it. *)
Shutdown ==
  /\ life = "stopping"
  /\ ReconFree("idle") /\ \A id \in Ids : boots[id] = "none"
  /\ life' = "destroying"
  /\ shut' = Tracked
  /\ UNCHANGED <<vms, older, host, boots, binds, destroy, recon, drain, kill, tainted>>

ShutdownOne(id) ==
  /\ id \in shut /\ destroy["shutdown"] = NoId
  /\ destroy' = [destroy EXCEPT !["shutdown"] = id]
  /\ shut' = shut \ {id}
  /\ UNCHANGED <<life, vms, older, host, boots, binds, recon, drain, kill, tainted>>

(* The process ends: after Shutdown, or by a crash.  The host keeps its VMs. *)
Exit ==
  /\ \/ life = "destroying" /\ shut = {} /\ destroy["shutdown"] = NoId
     \/ MayCrash /\ life # "down"
  /\ life' = "down"
  /\ vms' = [id \in Ids |-> NoVM] /\ older' = {}
  /\ boots' = [id \in Ids |-> "none"]
  /\ binds' = [j \in Jobs |-> IF binds[j].pc = "idle" THEN binds[j]
                              ELSE [pc |-> "done", id |-> NoId]]
  /\ destroy' = [a \in Actors |-> NoId]
  /\ recon' = Idle /\ drain' = {} /\ kill' = NoKill /\ shut' = {}
  /\ UNCHANGED <<host, tainted>>

-----------------------------------------------------------------------------

PoolInit ==
  /\ life = "down"
  /\ vms = [id \in Ids |-> NoVM] /\ older = {}
  /\ host = {} /\ tainted = {}
  /\ boots = [id \in Ids |-> "none"]
  /\ binds = [j \in Jobs |-> [pc |-> "idle", id |-> NoId]]
  /\ destroy = [a \in Actors |-> NoId]
  /\ recon = Idle /\ drain = {} /\ kill = NoKill /\ shut = {}

JobStep(j) ==
  \/ BindCall(j) \/ BindStopped(j) \/ BindWarm(j) \/ BindNoCapacity(j)
  \/ \E id \in Ids : BindCold(j, id)
  \/ ColdCreate(j) \/ ColdBootFails(j) \/ ColdBooted(j) \/ ColdCleanup(j)
  \/ StartRunner(j) \/ JobFinished(j)

BootStep(id) == BootCreate(id) \/ BootFails(id) \/ BootWarm(id) \/ BootCleanup(id)

ReconcileStep ==
  \/ \E ids \in SUBSET Ids : retryDestroys(ids) \/ recycleIdle(ids)
  \/ \E id \in Ids : RetryOne(id) \/ RecycleOne(id)
  \/ replenish
  \/ \E s \in Shapes : ShapeDone(s) \/ \E id \in Ids : reservePoolBoot(s, id)
  \/ EndOfPass

OperatorStep ==
  \/ DrainWarm
  \/ \E id \in Ids : DrainOne(id) \/ KillVM(id)
  \/ KillSeen

ProcessStep == Start \/ Stop \/ Shutdown \/ Exit \/ \E id \in Ids : ShutdownOne(id)

PoolNext ==
  \/ \E j \in Jobs : JobStep(j)
  \/ \E id \in Ids : BootStep(id)
  \/ \E a \in Actors : DestroyOK(a) \/ DestroyFails(a)
  \/ ReconcileStep
  \/ OperatorStep
  \/ ProcessStep

PoolSpec == PoolInit /\ [][PoolNext]_poolVars

(* What the code justifies: goroutines run; boots end by the ready timeout  *)
(* and jobs by their deadline; a VM's backoff passes; and a boot or the      *)
(* destroy of one VM, tried for ever, succeeds some time.                    *)
JobProgress(j) == JobStep(j) /\ ~BindCall(j)

PoolFairness ==
  /\ WF_poolVars(Start)
  /\ \A j \in Jobs : WF_poolVars(JobProgress(j))
  /\ \A id \in Ids :
       /\ WF_poolVars(BootStep(id))
       /\ SF_poolVars(\E a \in Actors : destroy[a] = id /\ DestroyOK(a))
  /\ SF_poolVars(\E id \in Ids : BootCreate(id))
  /\ SF_poolVars(\E id \in Ids : BootWarm(id))
  /\ \A a \in Actors : WF_poolVars(DestroyOK(a) \/ DestroyFails(a))
  /\ WF_poolVars(ReconcileStep)
  /\ SF_poolVars(retryDestroys(InState("destroying")))

PoolLive == PoolSpec /\ PoolFairness

-----------------------------------------------------------------------------
(* Properties. *)

(* A caller past the choice of a VM holds its id. *)
Free    == {"idle", "pick", "done"}
Holding == {"create", "boot", "cleanup", "abandon", "start", "bound", "destroy"}
BindRec == [pc : Free, id : {NoId}] \cup [pc : Holding, id : Ids]

\* The pool's variables have the types of the Go values they model.
PoolTypeOK ==
  /\ life \in {"down", "up", "stopping", "destroying"}
  /\ vms \in [Ids -> [state : VMStates, job : Jobs \cup {NoJob}, shape : Shapes]]
  /\ older \in SUBSET (Ids \X Ids)
  /\ host \in SUBSET Ids /\ tainted \in SUBSET Ids
  /\ boots \in [Ids -> {"none", "create", "boot", "cleanup"}]
  /\ binds \in [Jobs -> BindRec]
  /\ destroy \in [Actors -> Ids \cup {NoId}]
  /\ recon \in [phase : {"idle", "retry", "recycle", "replenish"},
               ids : SUBSET Ids, shapes : SUBSET Shapes]
  /\ drain \in SUBSET Ids /\ shut \in SUBSET Ids
  /\ kill \in {NoKill} \cup [id : Ids, busy : BOOLEAN]

\* "MaxTotalVMs hard-caps tracked instances to avoid unbounded growth if destroy
\* fails": VMs in the map and cold boots on their way into it stay under the cap,
\* although Bind releases the lock between the check and the registration.
WithinMaxTotal == Cardinality(Tracked) + Cardinality(InFlight) <= MaxTotalVMs

\* Guest memory committed by admission never exceeds the host's minus the reserve,
\* with concurrent cold binds, warm boots and destroys that fail.
WithinRAMBudget == allocatedRAMLocked <= RAMBudget

\* "after a job, the guest is destroyed": a guest that was given a JIT config is
\* never offered to another job, and no two jobs hold one VM.
OneJobPerVM ==
  /\ tainted \cap (InState("warm") \cup InState("pool_boot")) = {}
  /\ \A j, k \in Jobs : binds[j].id # NoId /\ binds[j].id = binds[k].id => j = k

\* While the agent runs, a guest that holds a JIT config is in the map, so that
\* JobFinished, retryDestroys or Shutdown still gets to destroy it: also when
\* destroys fail, when kill, drain and job end race, and after a crash.
JobVMTracked == life # "down" => tainted \subseteq Tracked

\* A busy VM has the job that will end it: no interleaving leaves a VM busy for
\* ever, holding its memory and (Busy > 0) blocking the warm refill.
BusyHasOwner ==
  \A id \in InState("busy") :
    \E j \in Jobs : vms[id].job = j /\ binds[j].id = id /\ binds[j].pc \in {"start", "bound"}

\* When destroys succeed no instance is leaked: every VM on the host is in the map
\* or in the hands of the goroutine that created it.
HostAccounted == life # "down" => Orphans = {}

\* Bind does not hang: a claimed job gets a VM or is reported as failed.
BindReturns == \A j \in Jobs : binds[j].pc = "pick" ~> binds[j].pc \in {"bound", "done"}

\* Teardown completes: once the job's caller is gone, the guest with its JIT
\* config leaves the host, however often destroying it fails first.
TeardownCompletes ==
  \A id \in Ids :
    id \in tainted /\ (\A j \in Jobs : binds[j].id # id) ~> id \notin tainted

\* "Each host agent maintains min_ready warm VMs": whatever jobs came and went, the
\* pool is again and again fully stocked.
Restocked ==
  []<>(\A s \in Shapes : Cardinality(OfShape(InState("warm"), s)) >= MinReady[s])

\* "Busy VMs are left running until their jobs finish": draining never destroys a
\* VM that is busy.
DrainSparesBusy == [][\A id \in Ids : DrainOne(id) => vms[id].state # "busy"]_poolVars

\* "`destroying`: Teardown in progress; must not accept new work": a VM being torn
\* down never becomes eligible again.
DestroyingIsFinal ==
  [][\A id \in Ids : vms[id].state = "destroying" => vms'[id].state \in {"destroying", "none"}]_poolVars

\* "On agent start and on a periodic interval: ... Destroy anything running or on
\* disk that is not accounted for": an unaccounted instance does not stay.
OrphansSwept == \A id \in Ids : id \in Orphans ~> id \notin host
=============================================================================
