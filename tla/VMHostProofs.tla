----------------------------- MODULE VMHostProofs -----------------------------
(***************************************************************************)
(* Proofs about VMHost, for any VM ids and any number of faults, when no VM *)
(* is destroyed while it is being created or booted.  The argument: what a  *)
(* guest leaves is recorded before it can matter.  A process has its        *)
(* directory, then its pid file and its wait function before Boot returns,  *)
(* so every Destroy finds and ends it before it removes the directory.      *)
(***************************************************************************)
EXTENDS VMHost, TLAPS

(* Steps of one id. *)
Step(id) == ProvisionStep(id) \/ Exit(id) \/ Destroy(id) \/ DestroyStep(id)

Steps == {"none", "stop", "wait", "net", "remove", "done"}
Unstarted == {"new", "setup", "created", "booting", "orphan", "gone"}

(* The inductive invariant of one id, beside the types. *)
Sound(id) ==
  /\ disk[id] # {} => Has(id, "dir")
  /\ use[id] = "new" => disk[id] = {}
  /\ use[id] = "gone" /\ id \notin sweep => disk[id] = {}
  /\ id \in sweep => use[id] = "gone"
  /\ ~At(id, "none") => use[id] \in {"ending", "failed"} \/ id \in sweep
  /\ use[id] \in Unstarted => proc[id] = "none"
  /\ proc[id] # "none" => Has(id, "dir")
  /\ proc[id] # "none" => id \in waits \/ use[id] \in {"spawned", "started"}
  /\ proc[id] = "run" /\ use[id] \notin {"spawned", "started"} => recordedPID(id)
  /\ At(id, "wait") => proc[id] # "run"
  /\ del[id] \in {"net", "remove", "done"} => proc[id] = "none"
  /\ del[id] \in {"remove", "done"} => id \notin tap

(* A step of one id leaves what the others have. *)
Others(id) ==
  \A k \in Ids : k # id =>
    /\ disk'[k] = disk[k] /\ proc'[k] = proc[k] /\ use'[k] = use[k] /\ del'[k] = del[k]
    /\ (k \in tap' <=> k \in tap) /\ (k \in waits' <=> k \in waits) /\ (k \in sweep' <=> k \in sweep)

-----------------------------------------------------------------------------
(* Types. *)

LEMMA FaultsType ==
  ASSUME HostTypeOK, HostNext
  PROVE  faults' \in 0..MaxFaults
<1>1. Fault \/ Fine
  BY DEF HostNext, ProvisionStep, DestroyStep, Create, copyFileWithMethod, realSetupNetwork,
         CreateSetup, Boot, startProcess, configureAndStart, WritePIDFile, WriteMeta,
         waitGuestReady, Exit, Destroy, StopProcess, takeWait, TeardownNetwork, RemoveInstance,
         Destroyed, Crash
<1> QED BY <1>1, HostConstants DEF Fault, Fine, HostTypeOK

LEMMA StepFacts ==
  ASSUME HostTypeOK, NEW id \in Ids, Step(id), faults' \in 0..MaxFaults
  PROVE  HostTypeOK' /\ Others(id)
<1> USE DEF HostTypeOK, Others, Now, Add, RemoveDir, Go, Files, Uses
<1>1. CASE Create(id)
  BY <1>1 DEF Create
<1>2. CASE copyFileWithMethod(id)
  BY <1>2 DEF copyFileWithMethod
<1>3. CASE realSetupNetwork(id)
  BY <1>3 DEF realSetupNetwork
<1>4. CASE CreateSetup(id)
  BY <1>4 DEF CreateSetup
<1>5. CASE Boot(id)
  BY <1>5 DEF Boot
<1>6. CASE startProcess(id)
  BY <1>6 DEF startProcess
<1>7. CASE configureAndStart(id)
  BY <1>7 DEF configureAndStart, StopAndWait
<1>8. CASE WritePIDFile(id)
  BY <1>8 DEF WritePIDFile, StopAndWait
<1>9. CASE WriteMeta(id)
  BY <1>9 DEF WriteMeta
<1>10. CASE waitGuestReady(id)
  BY <1>10 DEF waitGuestReady
<1>11. CASE Exit(id)
  BY <1>11 DEF Exit
<1>12. CASE Destroy(id)
  BY <1>12 DEF Destroy
<1>13. CASE StopProcess(id)
  BY <1>13 DEF StopProcess
<1>14. CASE takeWait(id)
  BY <1>14 DEF takeWait
<1>15. CASE TeardownNetwork(id)
  BY <1>15 DEF TeardownNetwork
<1>16. CASE RemoveInstance(id)
  <2>1. PICK F \in SUBSET Files : disk' = [disk EXCEPT ![id] = F]
    <3>1. \A F \in SUBSET disk[id] : F \cup {"dir"} \in SUBSET Files
      OBVIOUS
    <3> QED BY <1>16, <3>1 DEF RemoveInstance
  <2>2. \/ use' = use
        \/ use' = [use EXCEPT ![id] = "orphan"]
    BY <1>16 DEF RemoveInstance
  <2>3. \/ del' = [del EXCEPT ![id] = "none"]
        \/ del' = [del EXCEPT ![id] = "done"]
    BY <1>16 DEF RemoveInstance
  <2> QED BY <1>16, <2>1, <2>2, <2>3 DEF RemoveInstance
<1>17. CASE Destroyed(id)
  BY <1>17 DEF Destroyed
<1> HIDE DEF HostTypeOK, Others, Now, Add, RemoveDir, Go, Files, Uses
<1> QED
  BY <1>1, <1>2, <1>3, <1>4, <1>5, <1>6, <1>7, <1>8, <1>9, <1>10, <1>11, <1>12, <1>13, <1>14,
     <1>15, <1>16, <1>17, Zenon DEF Step, ProvisionStep, DestroyStep

LEMMA TypesInit == HostInit => HostTypeOK
BY HostConstants DEF HostInit, HostTypeOK, Files, Uses

LEMMA TypesStep ==
  ASSUME HostTypeOK, [HostNext]_hostVars
  PROVE  HostTypeOK'
<1>1. ASSUME NEW id \in Ids, Step(id) PROVE HostTypeOK'
  BY <1>1, StepFacts, FaultsType DEF HostNext, Step
<1>2. CASE Crash
  BY <1>2, FaultsType DEF HostNext, Crash, HostTypeOK, Uses
<1>3. CASE UNCHANGED hostVars
  BY <1>3 DEF hostVars, HostTypeOK
<1> QED BY <1>1, <1>2, <1>3 DEF HostNext, Step

\* The host's variables keep their types, for any VM ids and any number of faults.
THEOREM HostTypeCorrect == HostSpec => []HostTypeOK
<1>1. HostTypeOK /\ [HostNext]_hostVars => HostTypeOK'
  BY TypesStep
<1> QED BY <1>1, TypesInit, PTL DEF HostSpec

-----------------------------------------------------------------------------
(* The invariant. *)

LEMMA SoundInit == HostInit => \A id \in Ids : Sound(id)
BY DEF HostInit, Sound, Has, At

(* What a step of one id leaves alone stays sound. *)
LEMMA SoundOthers ==
  ASSUME HostTypeOK, NEW id \in Ids, Others(id), NEW k \in Ids, k # id, Sound(k)
  PROVE  Sound(k)'
BY DEF Others, Sound, Has, At, recordedPID

LEMMA SoundProvision ==
  ASSUME HostTypeOK, NEW id \in Ids, Sound(id), ~MayOverlap, ProvisionStep(id) \/ Exit(id)
  PROVE  Sound(id)'
<1> USE DEF HostTypeOK, Sound, Has, At, recordedPID, Now, Add, RemoveDir, Unstarted, Files, Uses
<1>1. CASE Create(id)
  BY <1>1 DEF Create, Starting
<1>2. CASE copyFileWithMethod(id)
  BY <1>2 DEF copyFileWithMethod
<1>3. CASE realSetupNetwork(id)
  BY <1>3 DEF realSetupNetwork
<1>4. CASE CreateSetup(id)
  BY <1>4 DEF CreateSetup
<1>5. CASE Boot(id)
  BY <1>5 DEF Boot
<1>6. CASE startProcess(id)
  BY <1>6 DEF startProcess
<1>7. CASE configureAndStart(id)
  BY <1>7 DEF configureAndStart, StopAndWait
<1>8. CASE WritePIDFile(id)
  BY <1>8 DEF WritePIDFile, StopAndWait
<1>9. CASE WriteMeta(id)
  BY <1>9 DEF WriteMeta
<1>10. CASE waitGuestReady(id)
  BY <1>10 DEF waitGuestReady
<1>11. CASE Exit(id)
  BY <1>11 DEF Exit
<1> QED
  BY <1>1, <1>2, <1>3, <1>4, <1>5, <1>6, <1>7, <1>8, <1>9, <1>10, <1>11, Zenon DEF ProvisionStep

LEMMA SoundDestroy ==
  ASSUME HostTypeOK, NEW id \in Ids, Sound(id), ~MayOverlap, Destroy(id) \/ DestroyStep(id)
  PROVE  Sound(id)'
<1> USE DEF HostTypeOK, Sound, Has, At, recordedPID, Now, Go, RemoveDir, Unstarted, Files, Uses
<1>1. CASE Destroy(id)
  BY <1>1 DEF Destroy, Calls
<1>2. CASE StopProcess(id)
  BY <1>2 DEF StopProcess
<1>3. CASE takeWait(id)
  BY <1>3 DEF takeWait
<1>4. CASE TeardownNetwork(id)
  BY <1>4 DEF TeardownNetwork
<1>5. CASE RemoveInstance(id)
  BY <1>5 DEF RemoveInstance
<1>6. CASE Destroyed(id)
  BY <1>6 DEF Destroyed
<1> QED BY <1>1, <1>2, <1>3, <1>4, <1>5, <1>6, Zenon DEF DestroyStep

(* An agent that dies takes its guests with it, and leaves directories to sweep. *)
LEMMA SoundCrash ==
  ASSUME HostTypeOK, NEW id \in Ids, Sound(id), Crash
  PROVE  Sound(id)'
BY DEF HostTypeOK, Crash, Sound, Has, At, Unstarted

LEMMA SoundInvariant == ~MayOverlap => (HostSpec => [](HostTypeOK /\ \A id \in Ids : Sound(id)))
<1> SUFFICES ASSUME ~MayOverlap PROVE HostSpec => [](HostTypeOK /\ \A id \in Ids : Sound(id))
  OBVIOUS
<1>1. HostTypeOK /\ (\A id \in Ids : Sound(id)) /\ [HostNext]_hostVars => (\A id \in Ids : Sound(id))'
  <2> SUFFICES ASSUME HostTypeOK, \A id \in Ids : Sound(id), [HostNext]_hostVars, NEW k \in Ids
               PROVE  Sound(k)'
    OBVIOUS
  <2>1. ASSUME NEW id \in Ids, Step(id) PROVE Sound(k)'
    <3>1. Others(id)
      BY <2>1, StepFacts, FaultsType DEF HostNext, Step
    <3>2. Sound(id)'
      BY <2>1, SoundProvision, SoundDestroy DEF Step
    <3> QED BY <3>1, <3>2, SoundOthers
  <2>2. CASE Crash
    BY <2>2, SoundCrash
  <2>3. CASE UNCHANGED hostVars
    BY <2>3 DEF hostVars, Sound, Has, At, recordedPID
  <2> QED BY <2>1, <2>2, <2>3 DEF HostNext, Step
<1> QED BY <1>1, TypesInit, SoundInit, HostTypeCorrect, PTL DEF HostSpec

-----------------------------------------------------------------------------

\* A guest that runs after Boot returned is one that a Destroy finds: its process id is on
\* disk, whichever writes failed and whatever an earlier Destroy removed.
THEOREM GuestsAreRecorded == ~MayOverlap => (HostSpec => []RunningRecorded)
<1>1. (\A id \in Ids : Sound(id)) => RunningRecorded
  BY DEF Sound, RunningRecorded
<1> QED BY <1>1, SoundInvariant, PTL

\* The pool forgets a VM only when nothing of it runs, and when its directory is gone, about
\* to be swept, or left by a removal that failed after a failed boot.
THEOREM NoGuestForgotten == ~MayOverlap => (HostSpec => []NothingForgotten)
<1>1. (\A id \in Ids : Sound(id)) => NothingForgotten
  BY DEF Sound, NothingForgotten, Unstarted
<1> QED BY <1>1, SoundInvariant, PTL

\* "Destroy stops the VMM process, tears down network, and deletes instance dir": a Destroy
\* that reports success has left nothing of the VM, for any faults before it.
THEOREM DestroyIsComplete == ~MayOverlap => (HostSpec => DestroyLeavesNothing)
<1>1. HostTypeOK /\ (\A id \in Ids : Sound(id)) /\ [HostNext]_hostVars
        => [\A id \in Ids : Destroyed(id) => proc[id] = "none" /\ id \notin tap /\ disk'[id] = {}]_hostVars
  BY DEF Sound, At, Destroyed, RemoveDir, HostTypeOK
<1> QED BY <1>1, SoundInvariant, PTL DEF HostSpec, DestroyLeavesNothing
=============================================================================
