-------------------------------- MODULE VMHost --------------------------------
(***************************************************************************)
(* What a VM leaves on its host, step by step: the Firecracker backend's   *)
(* Create, Boot and Destroy (internal/vmm/firecracker), the cleaner's      *)
(* Destroy and orphan sweep (internal/cleanup), and the order in which the *)
(* pool calls them for one VM id (provision, finishBootWarm, destroyNow).  *)
(* A file operation may fail at every step, and the agent may die between   *)
(* any two.                                                                *)
(***************************************************************************)
EXTENDS Integers, FiniteSets

CONSTANTS
  Ids,           \* VM ids; the pool never uses one twice
  MaxFaults,     \* bound on failing operations and agent crashes
  MayOverlap     \* may a VM be destroyed while it is created or booted (KillVM)?

ASSUME HostConstants == MaxFaults \in Nat /\ MayOverlap \in BOOLEAN

VARIABLES
  disk,     \* id -> files of instances/<id>: a set of "dir", "overlay", "meta", "running", "pid"
  tap,      \* ids whose tap device exists
  proc,     \* id -> its Firecracker process: "none", "run" or "zombie" (ended, not waited for)
  waits,    \* m.waits: ids whose wait function is stored
  use,      \* id -> where the pool is with it
  todo,     \* id -> what Create still waits for: "copy", "net"; "failed" when one has failed
  del,      \* id -> step of the Destroy that runs, or "none"
  sweep,    \* ids the start-up sweep has yet to destroy
  faults

hostVars == <<disk, tap, proc, waits, use, todo, del, sweep, faults>>

Files == {"dir", "overlay", "meta", "running", "pid"}
Uses  == {"new", "setup", "created", "booting", "spawned", "started", "recorded",
          "booted", "up", "ending", "failed", "orphan", "gone"}

Fault == faults < MaxFaults /\ faults' = faults + 1
Fine  == UNCHANGED faults

Has(id, f) == f \in disk[id]
Add(id, F) == disk' = [disk EXCEPT ![id] = @ \cup F]
RemoveDir(id) == disk' = [disk EXCEPT ![id] = {}]
Now(id, u) == use' = [use EXCEPT ![id] = u]

Starting == sweep # {}

-----------------------------------------------------------------------------
(* Create. *)

(* The instance directory, under m.mu; an id that is there already is refused. *)
Create(id) ==
  /\ use[id] = "new" /\ ~Starting
  /\ \/ ~Has(id, "dir") /\ Add(id, {"dir"}) /\ Now(id, "setup") /\ Fine
     \/ Fault /\ Now(id, "failed") /\ UNCHANGED disk
  /\ UNCHANGED <<tap, proc, waits, del, sweep, todo>>

(* Then, in parallel, the overlay is copied *)
copyFileWithMethod(id) ==
  /\ use[id] = "setup" /\ "copy" \in todo[id]
  /\ \/ Add(id, {"dir", "overlay"}) /\ Fine /\ todo' = [todo EXCEPT ![id] = @ \ {"copy"}]
     \/ Fault /\ UNCHANGED disk /\ todo' = [todo EXCEPT ![id] = (@ \ {"copy"}) \cup {"failed"}]
  /\ UNCHANGED <<tap, proc, waits, use, del, sweep>>

(* and the tap made: where taps are not permitted there is a marker file only, *)
(* and a tap that cannot be set up is removed again.                            *)
realSetupNetwork(id) ==
  /\ use[id] = "setup" /\ "net" \in todo[id]
  /\ \/ /\ tap' \in {tap, tap \cup {id}} /\ Fine
        /\ todo' = [todo EXCEPT ![id] = @ \ {"net"}]
     \/ /\ tap' = tap \ {id} /\ Fault
        /\ todo' = [todo EXCEPT ![id] = (@ \ {"net"}) \cup {"failed"}]
  /\ UNCHANGED <<disk, proc, waits, use, del, sweep>>

(* When both are done, meta.json is written.  A failure removes the directory, *)
(* and the tap only if it is that last write that fails.                         *)
CreateSetup(id) ==
  /\ use[id] = "setup" /\ todo[id] \subseteq {"failed"}
  /\ IF todo[id] # {} THEN RemoveDir(id) /\ Now(id, "failed") /\ Fine /\ UNCHANGED tap
     ELSE \/ Add(id, {"dir", "meta"}) /\ Now(id, "created") /\ Fine /\ UNCHANGED tap
          \/ RemoveDir(id) /\ tap' = tap \ {id} /\ Now(id, "failed") /\ Fault
  /\ UNCHANGED <<todo, proc, waits, del, sweep>>

-----------------------------------------------------------------------------
(* Boot. *)

(* The metadata is read under m.mu and kept; the rest is unlocked. *)
Boot(id) ==
  /\ use[id] = "created"
  /\ Now(id, IF Has(id, "meta") /\ ~Has(id, "running") THEN "booting" ELSE "failed")
  /\ Fine /\ UNCHANGED <<disk, tap, proc, waits, del, sweep, todo>>

(* startProcess makes the log directory, and with it the instance directory. *)
startProcess(id) ==
  /\ use[id] = "booting"
  /\ \/ /\ proc' = [proc EXCEPT ![id] = "run"] /\ Add(id, {"dir"})
        /\ Now(id, "spawned") /\ Fine
     \/ Fault /\ Now(id, "failed") /\ UNCHANGED <<disk, proc>>
  /\ UNCHANGED <<tap, waits, del, sweep, todo>>

(* The process is stopped and waited for. *)
StopAndWait(id) ==
  /\ proc' = [proc EXCEPT ![id] = "none"]
  /\ Now(id, "failed")

configureAndStart(id) ==
  /\ use[id] = "spawned"
  /\ \/ Has(id, "overlay") /\ proc[id] = "run" /\ Now(id, "started") /\ Fine /\ UNCHANGED proc
     \/ StopAndWait(id) /\ IF Has(id, "overlay") /\ proc[id] = "run" THEN Fault ELSE Fine
  /\ UNCHANGED <<disk, tap, waits, del, sweep, todo>>

(* Mutant: the process goes on when its id cannot be written. *)
WritePIDFileLeave(id) ==
  /\ use[id] = "started"
  /\ \/ /\ Has(id, "dir") /\ Add(id, {"pid"}) /\ Fine
        /\ waits' = waits \cup {id} /\ Now(id, "recorded")
     \/ /\ Now(id, "failed") /\ Fault /\ UNCHANGED <<disk, waits>>
  /\ UNCHANGED <<tap, proc, del, sweep, todo>>

(* WritePIDFile, then storeWait. *)
WritePIDFile(id) ==
  /\ use[id] = "started"
  /\ \/ /\ Has(id, "dir") /\ Add(id, {"pid"}) /\ Fine
        /\ waits' = waits \cup {id} /\ Now(id, "recorded") /\ UNCHANGED proc
     \/ /\ StopAndWait(id) /\ IF Has(id, "dir") THEN Fault ELSE Fine
        /\ UNCHANGED <<disk, waits>>
  /\ UNCHANGED <<tap, del, sweep, todo>>

(* meta.json becomes running; when that fails Boot fails, its process runs on. *)
WriteMeta(id) ==
  /\ use[id] = "recorded"
  /\ \/ Has(id, "dir") /\ Add(id, {"meta", "running"}) /\ Now(id, "booted") /\ Fine
     \/ Now(id, "failed") /\ UNCHANGED disk /\ IF Has(id, "dir") THEN Fault ELSE Fine
  /\ UNCHANGED <<tap, proc, waits, del, sweep, todo>>

(* waitGuestReady, which may give up. *)
waitGuestReady(id) ==
  /\ use[id] = "booted"
  /\ Now(id, "up") \/ Now(id, "failed")
  /\ Fine /\ UNCHANGED <<disk, tap, proc, waits, del, sweep, todo>>

(* The guest powers off, or its process dies. *)
Exit(id) ==
  /\ proc[id] = "run"
  /\ proc' = [proc EXCEPT ![id] = "zombie"]
  /\ Fine /\ UNCHANGED <<disk, tap, waits, use, del, sweep, todo>>

-----------------------------------------------------------------------------
(* Destroy. *)

At(id, step) == del[id] = step
Go(id, step) == del' = [del EXCEPT ![id] = step]

(* Called by the pool when a VM is used up, and again when that failed; after *)
(* a failed Create or Boot; by the sweep; and by KillVM at any time.           *)
Calls(id) ==
  \/ use[id] \in {"up", "ending", "failed"}
  \/ MayOverlap /\ use[id] \notin {"new", "orphan", "gone"}
  \/ id \in sweep

Destroy(id) ==
  /\ At(id, "none") /\ Calls(id)
  /\ Go(id, IF Has(id, "dir") THEN "stop" ELSE "net")
  /\ use' = [use EXCEPT ![id] = IF @ = "up" THEN "ending" ELSE @]
  /\ Fine /\ UNCHANGED <<disk, tap, proc, waits, sweep, todo>>

(* Mutant: only the metadata is asked for the process id. *)
recordedPIDMeta(id) == Has(id, "running")

(* meta.PID, or else the pid file. *)
recordedPID(id) == Has(id, "running") \/ Has(id, "pid")

(* SIGTERM, then SIGKILL; without a process id nothing is stopped. *)
StopProcess(id) ==
  /\ At(id, "stop")
  /\ proc' = [proc EXCEPT ![id] = IF recordedPID(id) /\ @ = "run" THEN "zombie" ELSE @]
  /\ Go(id, "wait")
  /\ Fine /\ UNCHANGED <<disk, tap, waits, use, sweep, todo>>

(* takeWait, and waiting for the process if there is a wait function: it     *)
(* returns when the process has ended.  Then pid file and socket go.         *)
takeWait(id) ==
  /\ At(id, "wait")
  /\ id \in waits => proc[id] # "run"
  /\ waits' = waits \ {id}
  /\ proc' = [proc EXCEPT ![id] = IF id \in waits THEN "none" ELSE @]
  /\ disk' = [disk EXCEPT ![id] = @ \ {"pid"}]
  /\ Go(id, "net")
  /\ Fine /\ UNCHANGED <<tap, use, sweep, todo>>

(* Mutant: the network is torn down by the names in the directory only. *)
TeardownRecorded(id) ==
  /\ At(id, "net")
  /\ tap' = IF Has(id, "dir") THEN tap \ {id} ELSE tap
  /\ Go(id, IF Has(id, "dir") THEN "remove" ELSE "done")
  /\ Fine /\ UNCHANGED <<disk, proc, waits, use, sweep, todo>>

(* By the names in the metadata or those derived from the id; errors of ip  *)
(* and iptables are ignored (that they succeed is an assumption here).       *)
TeardownNetwork(id) ==
  /\ At(id, "net")
  /\ tap' = tap \ {id}
  /\ Go(id, IF Has(id, "dir") THEN "remove" ELSE "done")
  /\ Fine /\ UNCHANGED <<disk, proc, waits, use, sweep, todo>>

(* A removal that fails half way ends the call with an error.  The pool calls *)
(* again for a VM that was used; after a failed Create or Boot it calls once   *)
(* or twice, ignoring the error; a failed sweep fails the start, and the next   *)
(* start sweeps.                                                               *)
RemoveInstance(id) ==
  /\ At(id, "remove")
  /\ \/ RemoveDir(id) /\ Go(id, "done") /\ Fine /\ UNCHANGED use
     \/ /\ Fault /\ \E F \in SUBSET disk[id] : disk' = [disk EXCEPT ![id] = F \cup {"dir"}]
        /\ Go(id, "none")
        /\ UNCHANGED use \/ (use[id] = "failed" /\ Now(id, "orphan"))
  /\ UNCHANGED <<tap, proc, waits, sweep, todo>>

(* cleaner.Destroy removes the directory once more, then the pool drops the id. *)
Destroyed(id) ==
  /\ At(id, "done")
  /\ RemoveDir(id)
  /\ Go(id, "none")
  /\ use' = [use EXCEPT ![id] = IF @ \in {"ending", "failed"} THEN "gone" ELSE @]
  /\ sweep' = sweep \ {id}
  /\ Fine /\ UNCHANGED <<tap, proc, waits, todo>>

-----------------------------------------------------------------------------

(* The agent dies; systemd ends its processes with it.  The new agent knows *)
(* no VM and sweeps the directories it finds.                                *)
Crash ==
  /\ Fault
  /\ proc' = [id \in Ids |-> "none"] /\ waits' = {}
  /\ use' = [id \in Ids |-> IF use[id] = "new" THEN "new" ELSE "gone"]
  /\ del' = [id \in Ids |-> "none"] /\ todo' = [id \in Ids |-> {"copy", "net"}]
  /\ sweep' = {id \in Ids : Has(id, "dir")}
  /\ UNCHANGED <<disk, tap>>

HostInit ==
  /\ disk = [id \in Ids |-> {}] /\ tap = {}
  /\ proc = [id \in Ids |-> "none"] /\ waits = {}
  /\ use = [id \in Ids |-> "new"] /\ todo = [id \in Ids |-> {"copy", "net"}]
  /\ del = [id \in Ids |-> "none"]
  /\ sweep = {}
  /\ faults = 0

ProvisionStep(id) ==
  \/ Create(id) \/ copyFileWithMethod(id) \/ realSetupNetwork(id) \/ CreateSetup(id) \/ Boot(id) \/ startProcess(id)
  \/ configureAndStart(id) \/ WritePIDFile(id) \/ WriteMeta(id)
  \/ waitGuestReady(id)

DestroyStep(id) ==
  \/ StopProcess(id) \/ takeWait(id) \/ TeardownNetwork(id) \/ RemoveInstance(id) \/ Destroyed(id)

HostNext ==
  \/ \E id \in Ids : ProvisionStep(id) \/ Exit(id) \/ Destroy(id) \/ DestroyStep(id)
  \/ Crash

(* A call goes on until it returns, the reconciler retries the destroy of a   *)
(* used VM, provision's callers clean up, and the sweep goes from id to id.    *)
Fairness ==
  \A id \in Ids :
    /\ WF_hostVars(DestroyStep(id))
    /\ WF_hostVars((use[id] \in {"ending", "failed"} \/ id \in sweep) /\ Destroy(id))

HostSpec == HostInit /\ [][HostNext]_hostVars /\ Fairness

-----------------------------------------------------------------------------
(* Properties. *)

\* The backend's and the pool's views of an instance have the expected types.
HostTypeOK ==
  /\ disk \in [Ids -> SUBSET Files] /\ tap \in SUBSET Ids
  /\ proc \in [Ids -> {"none", "run", "zombie"}] /\ waits \in SUBSET Ids
  /\ use \in [Ids -> Uses] /\ todo \in [Ids -> SUBSET {"copy", "net", "failed"}]
  /\ del \in [Ids -> {"none", "stop", "wait", "net", "remove", "done"}]
  /\ sweep \in SUBSET Ids
  /\ faults \in 0..MaxFaults

\* "Destroy stops the VMM process, tears down network, and deletes instance dir": when
\* the cleaner's Destroy succeeds, no process (not even one to be waited for), tap or
\* file of the VM is left, whichever steps of Create, Boot or an earlier Destroy failed
\* and wherever an agent died.
DestroyLeavesNothing ==
  [][\A id \in Ids : Destroyed(id) => proc[id] = "none" /\ id \notin tap /\ disk'[id] = {}]_hostVars

\* An id the pool has dropped has no process, and no directory either unless the removal
\* after a failed boot failed in turn or the sweep of a start is about to remove it:
\* no guest runs on unseen.
NothingForgotten ==
  \A id \in Ids :
    /\ use[id] \in {"orphan", "gone"} => proc[id] = "none"
    /\ use[id] = "gone" /\ id \notin sweep => disk[id] = {}

\* A running guest whose Boot has returned, also with an error, can be found by a later
\* Destroy: its process id is on disk, in the metadata or in the pid file, even after a
\* Destroy that failed half way.
RunningRecorded ==
  \A id \in Ids : proc[id] = "run" /\ use[id] \in {"booted", "up", "ending", "failed"} => recordedPID(id)

\* Destroy returns (it never waits for a guest that nobody stops), so a used VM is gone in
\* the end, and what a failed boot or a dead agent left is removed, although removals fail.
TeardownEnds ==
  \A id \in Ids :
    /\ use[id] = "ending" ~> use[id] = "gone"
    /\ use[id] = "failed" ~> use[id] \in {"orphan", "gone"}
    /\ id \in sweep ~> id \notin sweep
=============================================================================
