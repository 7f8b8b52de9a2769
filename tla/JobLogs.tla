-------------------------------- MODULE JobLogs --------------------------------
(***************************************************************************)
(* The life of one bound job and the way of its workflow log: the guest    *)
(* script writes and sends it, the mailbox and the inject-drive copies put  *)
(* it into the host's guest directory, the agent's log stream uploads it    *)
(* while WaitRunner waits for runner.exit, and the control plane keeps a    *)
(* live copy and a database row.                                           *)
(*                                                                         *)
(* A text is a sequence of pieces of log; a piece is its place in the        *)
(* guest's file, so that a text tells what it holds and where.  The guest's  *)
(* file only grows and stays below the 2 MiB at which clipLog cuts.          *)
(***************************************************************************)
EXTENDS Integers, Sequences, SequencesExt

CONSTANTS
  MaxLen,        \* bound on the pieces of the guest's log
  MaxFaults,     \* bound on losses, repetitions, failing mounts, kills and restarts
  Posts,         \* slots for log uploads under way
  TornCopies     \* may a copy come between a chunk's size check and its write?

ASSUME LogConstants ==
  /\ MaxLen \in Nat \ {0} /\ MaxFaults \in Nat
  /\ TornCopies \in BOOLEAN /\ "fin" \notin Posts

VARIABLES
  guest,    \* [text, sent, at]: workflow.log, WF_SENT and the script's place
  inject,   \* [log, exit]: workflow.log and runner.exit on the inject drive
  net,      \* datagrams and stream frames on their way to the host
  host,     \* [log, exit, dir, dying]: the host's guest directory; a destroy has begun
  chunk,    \* a chunk whose offset was checked and that is not written, or NoChunk
  job,      \* [at, wf]: the agent's handleJob and the workflow log it collected
  lastWF,   \* the log stream's last upload
  hs,       \* slot -> request handler of the control plane
  live,     \* liveWF
  db,       \* job_logs.workflow_log
  status,   \* the assignment: "started" or "finished"
  fetched,  \* history: GitHub's own log was stored
  late,     \* history: another handler or a restart came into the finish report's handler
  faults

guestVars   == <<guest, inject>>
hostVars    == <<net, host, chunk>>
agentVars   == <<job, lastWF>>
controlVars == <<hs, live, db, status, fetched>>
logVars     == <<guestVars, hostVars, agentVars, controlVars, late, faults>>

Slots == Posts \cup {"fin"}
Hole  == 0
GitHub == MaxLen + 1
Texts == UNION {[1..n -> Hole..GitHub] : n \in 0..MaxLen}
NoChunk == [off |-> 0, text |-> <<>>]
Official == <<GitHub>>
Idle == [pc |-> "none", kind |-> "none", full |-> <<>>, app |-> <<>>, off |-> 0, seen |-> <<>>]

Fault == faults < MaxFaults /\ faults' = faults + 1
Fine  == UNCHANGED faults

-----------------------------------------------------------------------------
(* The guest script. *)

(* One more piece of output. *)
collect_live_workflow ==
  /\ guest.at = "run" /\ Len(guest.text) < MaxLen
  /\ guest' = [guest EXCEPT !.text = Append(@, Len(@) + 1)]
  /\ UNCHANGED <<inject, hostVars, agentVars, controlVars, late, faults>>

Pending == Len(guest.text) > guest.sent
Frame == [type |-> "wf", off |-> guest.sent,
          text |-> SubSeq(guest.text, guest.sent + 1, Len(guest.text))]

(* The bytes since WF_SENT, over TCP or UDP; nobody acknowledges them. *)
send_workflow_stream ==
  /\ guest.at = "run" /\ Pending
  /\ net' = net \cup {Frame}
  /\ guest' = [guest EXCEPT !.sent = Len(guest.text)]
  /\ UNCHANGED <<inject, host, chunk, agentVars, controlVars, late, faults>>

(* The drive may be mounted by the host at the moment: then nothing is written. *)
WriteInject(ex) ==
  \/ inject' = [log |-> guest.text, exit |-> inject.exit \/ ex] /\ Fine
  \/ inject' = inject /\ Fault

publish_live_logs ==
  /\ guest.at = "run" /\ ~Pending
  /\ WriteInject(FALSE)
  /\ UNCHANGED <<guest, hostVars, agentVars, controlVars, late>>

(* The runner has ended: publish and send once more. *)
RunnerExits ==
  /\ guest.at = "run"
  /\ WriteInject(FALSE)
  /\ net' = IF Pending THEN net \cup {Frame} ELSE net
  /\ guest' = [guest EXCEPT !.sent = Len(guest.text), !.at = "ended"]
  /\ UNCHANGED <<host, chunk, agentVars, controlVars, late>>

write_exit ==
  /\ guest.at = "ended"
  /\ WriteInject(TRUE)
  /\ net' = net \cup {[type |-> "exit"]}
  /\ guest' = [guest EXCEPT !.at = "done"]
  /\ UNCHANGED <<host, chunk, agentVars, controlVars, late>>

-----------------------------------------------------------------------------
(* The mailbox. *)

(* A file with text written at an offset of it. *)
WriteAt(file, off, text) ==
  [i \in 1..Max({Len(file), off + Len(text)}) |->
     IF i \in (off + 1)..(off + Len(text)) THEN text[i - off]
     ELSE IF i <= Len(file) THEN file[i] ELSE Hole]

(* Mutant: a chunk behind the end of the file is written too. *)
applyWorkflowChunkAny(file, off) == TRUE

(* Gaps are refused by the file's size at that moment. *)
applyWorkflowChunk(file, off) == off <= Len(file)

ReceiveChunk(m) ==
  /\ m.type = "wf" /\ chunk = NoChunk
  /\ chunk' = IF applyWorkflowChunk(host.log, m.off) THEN [off |-> m.off, text |-> m.text] ELSE chunk
  /\ host' = [host EXCEPT !.dir = TRUE]

ReceiveExit(m) ==
  /\ m.type = "exit"
  /\ host' = [host EXCEPT !.exit = "code", !.dir = TRUE] /\ UNCHANGED chunk

(* Frames of the stream and datagrams are read by goroutines of their own, so *)
(* in any order; a datagram may come twice.  One that comes after the VM was    *)
(* destroyed makes its directory again.                                         *)
ApplyMailboxMessage(m) ==
  /\ ReceiveChunk(m) \/ ReceiveExit(m)
  /\ \/ net' = net \ {m} /\ Fine
     \/ net' = net /\ Fault
  /\ UNCHANGED <<guestVars, agentVars, controlVars, late>>

WriteChunk ==
  /\ chunk # NoChunk
  /\ host' = [host EXCEPT !.log = IF host.dir THEN WriteAt(@, chunk.off, chunk.text) ELSE @]
  /\ chunk' = NoChunk
  /\ UNCHANGED <<guestVars, net, agentVars, controlVars, late, faults>>

Lose(m) ==
  /\ Fault /\ net' = net \ {m}
  /\ UNCHANGED <<guestVars, host, chunk, agentVars, controlVars, late>>

-----------------------------------------------------------------------------
(* Waiting for the runner. *)

(* An empty or missing file is not copied; a mount that fails copies nothing.   *)
(* Unless TornCopies, the copy does not come into the writing of a chunk.        *)
CopyInjectFiles(ex) ==
  \/ /\ host.dir /\ (chunk = NoChunk \/ TornCopies) /\ Fine
     /\ host' = [host EXCEPT !.log = IF inject.log = <<>> THEN @ ELSE inject.log,
                             !.exit = IF ex /\ inject.exit THEN "code" ELSE @]
  \/ host' = host /\ IF host.dir THEN Fault ELSE Fine

(* waitForJob returns: the stream is stopped, and the upload under way with it. *)
stopStream ==
  /\ job' = [job EXCEPT !.at = "collect"]
  /\ lastWF' = <<>>

runnerWaitStatus == host.exit # "none" \/ ~host.dir

(* runner.exit has a code or "cancelled", or the directory is gone. *)
WaitRunner ==
  /\ job.at = "wait" /\ runnerWaitStatus
  /\ CopyInjectFiles(FALSE)
  /\ stopStream
  /\ UNCHANGED <<guestVars, net, chunk, controlVars, late>>

(* The slow poll, which also finds an exit whose datagram was lost. *)
SlowPoll ==
  /\ job.at = "wait" /\ ~runnerWaitStatus
  /\ CopyInjectFiles(TRUE)
  /\ UNCHANGED <<guestVars, net, chunk, agentVars, controlVars, late>>

(* Mutant: without a configured deadline there is none. *)
DeadlineNone == FALSE /\ UNCHANGED logVars

(* waitCtx: six hours unless configured. *)
Deadline ==
  /\ job.at = "wait"
  /\ stopStream
  /\ UNCHANGED <<guestVars, hostVars, controlVars, late, faults>>

CollectJobLogs ==
  /\ job.at = "collect"
  /\ job' = [at |-> "report", wf |-> host.log]
  /\ UNCHANGED <<guestVars, hostVars, lastWF, controlVars, late, faults>>

(* The waiter is told, *)
SignalRunnerStopped == host' = [host EXCEPT !.exit = "cancelled", !.dir = TRUE, !.dying = TRUE]

(* then the guest ends and its directory goes, with the drive.  Datagrams are  *)
(* no longer read, but connections of the stream stay open: what they hold      *)
(* arrives still.                                                               *)
DestroyVM(M) ==
  /\ guest' = [guest EXCEPT !.sent = 0, !.at = "gone"]
  /\ inject' = [log |-> <<>>, exit |-> FALSE]
  /\ net' = M /\ chunk' = IF TornCopies THEN chunk ELSE NoChunk
  /\ host' = [log |-> <<>>, exit |-> "none", dir |-> FALSE, dying |-> FALSE]

Active == {s \in Slots : hs[s].pc # "none"}

(* JobFinished, then the report; it is sent once and may be lost.  Nobody reads *)
(* the directory after that.                                                    *)
ReportFinished ==
  /\ job.at = "report"
  /\ job' = [job EXCEPT !.at = "end"]
  /\ DestroyVM({})
  /\ \/ /\ hs' = [hs EXCEPT !["fin"] = [Idle EXCEPT !.pc = "net", !.kind = "fin", !.full = job.wf]]
        /\ late' = (Active # {}) /\ Fine
     \/ UNCHANGED <<hs, late>> /\ Fault
  /\ UNCHANGED <<lastWF, live, db, status, fetched>>

(* The dashboard's kill command: a heartbeat takes it off the queue, and its    *)
(* answer is lost or makes the agent signal the waiter ...                        *)
KillVM ==
  /\ job.at = "wait" /\ guest.at # "gone" /\ ~host.dying
  /\ Fault /\ (SignalRunnerStopped \/ UNCHANGED host)
  /\ UNCHANGED <<guestVars, net, chunk, agentVars, controlVars, late>>

(* ... and destroy the VM. *)
destroyNow ==
  /\ host.dying
  /\ \E M \in SUBSET {m \in net : m.type = "wf"} : DestroyVM(M)
  /\ UNCHANGED <<agentVars, controlVars, late, faults>>

-----------------------------------------------------------------------------
(* The log stream. *)

Request(full, app, off) ==
  [Idle EXCEPT !.pc = "net", !.kind = "logs", !.full = full, !.app = app, !.off = off]

(* The stream waits for the answer to its last upload, unless the connection  *)
(* breaks; the handler does not notice that.                                   *)
Send(s, r) ==
  /\ hs[s] = Idle /\ s = CHOOSE t \in Posts : hs[t] = Idle   \* slots are alike
  /\ hs' = [hs EXCEPT ![s] = r]
  /\ IF \A t \in Posts : hs[t] = Idle THEN Fine ELSE Fault

(* Full text, or what was added to the last upload. *)
nextWorkflowUpload(prev, cur) ==
  IF prev # <<>> /\ IsPrefix(prev, cur)
  THEN Request(<<>>, SubSeq(cur, Len(prev) + 1, Len(cur)), Len(prev))
  ELSE Request(cur, <<>>, 0)

(* lastWF is set whatever becomes of the upload. *)
StreamFast(s) ==
  /\ job.at = "wait"
  /\ host.log # <<>> /\ host.log # lastWF
  /\ Send(s, nextWorkflowUpload(lastWF, host.log))
  /\ lastWF' = host.log
  /\ UNCHANGED <<guestVars, hostVars, job, live, db, status, fetched, late>>

(* All logs when one of them changed; a shorter workflow log is left out. *)
StreamSlow(s) ==
  /\ job.at = "wait"
  /\ LET wf == IF Len(host.log) < Len(lastWF) THEN <<>> ELSE host.log
     IN  /\ Send(s, Request(wf, <<>>, 0))
         /\ lastWF' = IF wf = <<>> THEN lastWF ELSE wf
  /\ UNCHANGED <<guestVars, hostVars, job, live, db, status, fetched, late>>

(* A request is lost on its way. *)
PostLost(s) ==
  /\ Fault /\ hs[s].pc = "net"
  /\ hs' = [hs EXCEPT ![s] = Idle]
  /\ UNCHANGED <<guestVars, hostVars, agentVars, live, db, status, fetched, late>>

-----------------------------------------------------------------------------
(* The control plane's handlers, as far as this job's logs are concerned.   *)

At(s, pc) == hs[s].pc = pc
Becomes(s, r) == hs' = [hs EXCEPT ![s] = r]

Read(s, pc, kind, text) == Becomes(s, [hs[s] EXCEPT !.pc = pc, !.kind = kind, !.seen = text])

(* Up to the handler's first read: of the row by MergeJobLogs (as AppendJobEvent *)
(* does, to add to the timeline), or of the live text for an append.  The report  *)
(* may be refused by MarkFinished, and is only merged if the job is minted anew.  *)
Arrive(s) ==
  /\ At(s, "net")
  /\ \/ /\ hs[s].kind = "logs" /\ UNCHANGED status
        /\ IF hs[s].app = <<>> THEN Read(s, "write", "logs", db)
           ELSE Read(s, "append", "logs", IF live # <<>> THEN live ELSE db)
     \/ hs[s].kind = "fin" /\ status' = "finished" /\ Read(s, "write", "fin", db)
     \/ hs[s].kind = "fin" /\ UNCHANGED status /\ Becomes(s, Idle)
     \/ hs[s].kind = "fin" /\ UNCHANGED status /\ Read(s, "write", "event", db)
  /\ UNCHANGED <<guestVars, hostVars, agentVars, live, db, fetched, late, faults>>

(* ... and write all of it. *)
writeJobLog(s) ==
  /\ At(s, "write")
  /\ db' = IF hs[s].full # <<>> THEN hs[s].full ELSE hs[s].seen
  /\ IF hs[s].kind = "event" THEN Becomes(s, Idle)
     ELSE Becomes(s, [hs[s] EXCEPT !.pc = "live", !.seen = <<>>])
  /\ UNCHANGED <<guestVars, hostVars, agentVars, live, status, fetched, late, faults>>

(* The report's handler goes on to add to the timeline. *)
Done(s) == IF hs[s].kind = "fin" THEN [Idle EXCEPT !.pc = "event", !.kind = "event"] ELSE Idle

AppendJobEvent(s) ==
  /\ At(s, "event")
  /\ Read(s, "write", "event", db)
  /\ UNCHANGED <<guestVars, hostVars, agentVars, live, db, status, fetched, late, faults>>

(* Mutant: a live text wins over the reported one. *)
WorkflowOfLive(s) == IF hs[s].kind = "fin" /\ live # <<>> THEN live ELSE hs[s].full

(* What handleJobLogs and handleJobFinished remember: the text they were sent, *)
(* and after the report without one the live text.                              *)
WorkflowOf(s) == IF hs[s].kind = "fin" /\ hs[s].full = <<>> THEN live ELSE hs[s].full

rememberWorkflow(s) ==
  /\ At(s, "live")
  /\ IF WorkflowOf(s) = <<>> THEN Becomes(s, Done(s)) /\ UNCHANGED live
     ELSE /\ live' = WorkflowOf(s)
          /\ Becomes(s, [hs[s] EXCEPT !.pc = "store", !.seen = WorkflowOf(s)])
  /\ UNCHANGED <<guestVars, hostVars, agentVars, db, status, fetched, late, faults>>

(* Mutant: a chunk is appended without a look at its offset. *)
ApplyWorkflowAppendAny(cur, off, text) == cur \o text

(* Unchanged for a gap and for what is there already. *)
ApplyWorkflowAppend(cur, off, text) ==
  IF off = Len(cur) THEN cur \o text
  ELSE IF off < Len(cur) /\ off + Len(text) > Len(cur) THEN SubSeq(cur, 1, off) \o text ELSE cur

(* The live text read before is changed and set; the row is written when a second has passed since it was. *)
applyLiveAppend(s) ==
  /\ At(s, "append")
  /\ LET next == ApplyWorkflowAppend(hs[s].seen, hs[s].off, hs[s].app)
     IN  IF next = hs[s].seen THEN Becomes(s, Idle) /\ UNCHANGED live
         ELSE /\ live' = next
              /\ \/ Becomes(s, Idle)
                 \/ Becomes(s, [hs[s] EXCEPT !.pc = "store", !.seen = next])
  /\ UNCHANGED <<guestVars, hostVars, agentVars, db, status, fetched, late, faults>>

SetWorkflowLog(s) ==
  /\ At(s, "store")
  /\ db' = hs[s].seen
  /\ Becomes(s, Done(s))
  /\ UNCHANGED <<guestVars, hostVars, agentVars, live, status, fetched, late, faults>>

(* The dashboard shows the job: GitHub's own log, once GitHub has it, replaces  *)
(* what is there unless the job is finished and it is there already.  Bound: once. *)
ensureWorkflowLog ==
  /\ guest.at # "run" /\ ~fetched
  /\ ~(status = "finished" /\ (IF Len(live) >= Len(db) THEN live ELSE db) = Official)
  /\ fetched' = TRUE /\ live' = Official /\ db' = Official
  /\ UNCHANGED <<guestVars, hostVars, agentVars, hs, status, late, faults>>

(* The control plane restarts; liveWF and its handlers are gone. *)
ControlRestart ==
  /\ Fault
  /\ live' = <<>> /\ hs' = [s \in Slots |-> Idle]
  /\ late' = (late \/ hs["fin"].pc # "none")
  /\ UNCHANGED <<guestVars, hostVars, agentVars, db, status, fetched>>

-----------------------------------------------------------------------------

LogsInit ==
  /\ guest = [text |-> <<>>, sent |-> 0, at |-> "run"]
  /\ inject = [log |-> <<>>, exit |-> FALSE]
  /\ net = {} /\ host = [log |-> <<>>, exit |-> "none", dir |-> TRUE, dying |-> FALSE] /\ chunk = NoChunk
  /\ job = [at |-> "wait", wf |-> <<>>] /\ lastWF = <<>>
  /\ hs = [s \in Slots |-> Idle] /\ live = <<>> /\ db = <<>>
  /\ status = "started" /\ fetched = FALSE
  /\ late = FALSE /\ faults = 0

GuestStep ==
  \/ collect_live_workflow \/ send_workflow_stream \/ publish_live_logs
  \/ RunnerExits \/ write_exit

MailboxStep == WriteChunk \/ \E m \in net : ApplyMailboxMessage(m) \/ Lose(m)

AgentStep == WaitRunner \/ SlowPoll \/ Deadline \/ CollectJobLogs \/ ReportFinished
             \/ KillVM \/ destroyNow

StreamStep == \E s \in Posts : StreamFast(s) \/ StreamSlow(s) \/ PostLost(s)

HandlerStep(s) ==
  \/ Arrive(s) \/ writeJobLog(s) \/ rememberWorkflow(s) \/ applyLiveAppend(s)
  \/ SetWorkflowLog(s) \/ AppendJobEvent(s)

ControlStep ==
  \/ \E s \in Slots : HandlerStep(s)
  \/ ensureWorkflowLog \/ ControlRestart

LogsNext == GuestStep \/ MailboxStep \/ AgentStep \/ StreamStep \/ ControlStep

(* handleJob goes on, the slow poll recurs and the deadline passes. *)
LogsSpec ==
  /\ LogsInit /\ [][LogsNext]_logVars
  /\ WF_logVars(Deadline) /\ WF_logVars(WaitRunner)
  /\ WF_logVars(CollectJobLogs) /\ WF_logVars(ReportFinished)

-----------------------------------------------------------------------------
(* Properties. *)

Views == {host.log, lastWF, live, db} \cup {hs[s].full : s \in Slots} \cup {hs[s].seen : s \in Slots}

\* Files, messages and handlers have the expected types.
LogsTypeOK ==
  /\ guest.text \in Texts /\ guest.sent \in 0..MaxLen /\ inject.log \in Texts
  /\ host.exit \in {"none", "code", "cancelled"}
  /\ Views \subseteq Texts
  /\ status \in {"started", "finished"}
  /\ faults \in 0..MaxFaults

\* Every copy of the guest's log, on the host, in an upload, live and in the database (until
\* GitHub's own log replaces it), is at any time a beginning of it: lost, repeated and
\* reordered datagrams, stale copies of the inject drive, lost uploads and late handlers
\* leave it behind, never with a hole or a piece in the wrong place.
CopiesArePrefixes ==
  ~fetched => \A t \in Views : IsPrefix(t, guest.text)

\* The mailbox leaves no hole in the host's workflow.log ("do not create a holey file").
NotHoley == Hole \notin ToSet(host.log)

\* The finish report heals: whatever the uploads had left, after it the database and the
\* live copy hold the text the agent collected (or GitHub's), provided no other handler
\* for the job and no restart came between.
FinishHeals ==
  status = "finished" /\ Active = {} /\ ~late /\ job.wf # <<>> =>
    db \in {job.wf, Official} /\ live \in {<<>>, job.wf, Official}

\* handleJob always ends and reports, also when the exit datagram, the exit file or the
\* dashboard's kill command is lost: the guest's deadline bounds the wait.
JobEnds == job.at = "wait" ~> job.at = "end"
=============================================================================
