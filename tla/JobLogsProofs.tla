---------------------------- MODULE JobLogsProofs ----------------------------
(***************************************************************************)
(* Theorems about JobLogs, for any length of the log, any number of upload *)
(* slots and any number of faults: its types; that the finish report's     *)
(* handler heals the stored log; and that every copy of the log is a        *)
(* beginning of it, if no copy of the inject drive comes between the check   *)
(* of a chunk's offset and its write.  Texts are handled place by place:    *)
(* the lemmas about sequences come first.                                   *)
(***************************************************************************)
EXTENDS JobLogs, SequenceTheorems, TLAPS

Text == {t \in Seq(Hole..GitHub) : Len(t) <= MaxLen}

(* A sequence given by its places is a text. *)
LEMMA TextByPlaces ==
  ASSUME NEW n \in 0..MaxLen, NEW w \in [1..n -> Hole..GitHub]
  PROVE  w \in Text /\ Len(w) = n
<1>1. w = [i \in 1..n |-> w[i]] /\ n \in Nat /\ \A i \in 1..n : w[i] \in Hole..GitHub
  OBVIOUS
<1>2. [i \in 1..n |-> w[i]] \in Seq(Hole..GitHub) /\ Len([i \in 1..n |-> w[i]]) = n
  BY <1>1
<1>3. w \in Seq(Hole..GitHub) /\ Len(w) = n
  BY <1>1, <1>2
<1> QED
  BY <1>3 DEF Text

(* The sets the model states its types with are sequences of limited length. *)
LEMMA TextsAreText == Texts = Text
<1>1. ASSUME NEW t \in Texts PROVE t \in Text
  <2>1. PICK n \in 0..MaxLen : t \in [1..n -> Hole..GitHub]
    BY DEF Texts
  <2> QED
    BY <2>1, TextByPlaces
<1>2. ASSUME NEW t \in Text PROVE t \in Texts
  <2>1. t \in Seq(Hole..GitHub) /\ Len(t) \in Nat /\ Len(t) <= MaxLen
    BY DEF Text
  <2>2. t \in [1..Len(t) -> Hole..GitHub]
    BY <2>1, LenProperties
  <2>3. Len(t) \in 0..MaxLen
    BY <2>1, LogConstants
  <2> QED
    BY <2>2, <2>3 DEF Texts
<1> QED
  BY <1>1, <1>2

LEMMA TextFacts ==
  /\ <<>> \in Text /\ Official \in Text
  /\ \A t \in Text : Len(t) \in 0..MaxLen /\ \A i \in 1..Len(t) : t[i] \in Hole..GitHub
  /\ \A t \in Text : (t = <<>>) <=> (Len(t) = 0)
<1>1. GitHub \in Hole..GitHub /\ 1 <= MaxLen /\ MaxLen \in Nat
  BY LogConstants DEF Hole, GitHub
<1>2. \A t \in Text : t \in Seq(Hole..GitHub) /\ Len(t) \in Nat /\ Len(t) <= MaxLen
  BY DEF Text
<1>3. Official \in Text
  BY <1>1 DEF Text, Official
<1>4. <<>> \in Text
  BY <1>1 DEF Text
<1>5. \A t \in Text : Len(t) \in 0..MaxLen
  BY <1>1, <1>2
<1>6. \A t \in Text : \A i \in 1..Len(t) : t[i] \in Hole..GitHub
  BY <1>2, ElementOfSeq
<1>7. \A t \in Text : (t = <<>>) <=> (Len(t) = 0)
  BY <1>2, EmptySeq
<1> QED
  BY <1>3, <1>4, <1>5, <1>6, <1>7

LEMMA MaxOfTwo ==
  ASSUME NEW a \in Nat, NEW b \in Nat
  PROVE  Max({a, b}) = IF a >= b THEN a ELSE b
<1>1. \E x \in {a, b} : \A y \in {a, b} : x >= y
  OBVIOUS
<1>2. Max({a, b}) \in {a, b} /\ \A y \in {a, b} : Max({a, b}) >= y
  BY <1>1, Zenon DEF Max
<1> QED
  BY <1>2

(* What writing at an offset gives, place by place. *)
LEMMA WriteAtPlaces ==
  ASSUME NEW file \in Text, NEW off \in 0..MaxLen, NEW text \in Text,
         off + Len(text) <= MaxLen
  PROVE  LET w == WriteAt(file, off, text)
         IN  /\ w \in Text
             /\ Len(w) = IF Len(file) >= off + Len(text) THEN Len(file) ELSE off + Len(text)
             /\ \A i \in 1..Len(w) :
                  w[i] = IF i \in (off + 1)..(off + Len(text)) THEN text[i - off]
                         ELSE IF i <= Len(file) THEN file[i] ELSE Hole
<1> DEFINE f(i) == IF i \in (off + 1)..(off + Len(text)) THEN text[i - off]
                   ELSE IF i <= Len(file) THEN file[i] ELSE Hole
           n == IF Len(file) >= off + Len(text) THEN Len(file) ELSE off + Len(text)
<1>1. Len(file) \in 0..MaxLen /\ Len(text) \in 0..MaxLen /\ MaxLen \in Nat
  BY TextFacts, LogConstants
<1>2. n \in 0..MaxLen /\ n = Max({Len(file), off + Len(text)})
  BY <1>1, MaxOfTwo
<1>3. ASSUME NEW i \in 1..n PROVE f(i) \in Hole..GitHub
  <2>1. CASE i \in (off + 1)..(off + Len(text))
    <3>1. i - off \in 1..Len(text)
      BY <1>1, <2>1
    <3> QED
      BY <2>1, <3>1, TextFacts
  <2>2. CASE i \notin (off + 1)..(off + Len(text)) /\ i <= Len(file)
    <3>1. i \in 1..Len(file)
      BY <1>1, <1>2, <2>2
    <3> QED
      BY <2>2, <3>1, TextFacts
  <2>3. CASE i \notin (off + 1)..(off + Len(text)) /\ ~(i <= Len(file))
    BY <2>3, LogConstants DEF Hole, GitHub
  <2> QED
    BY <2>1, <2>2, <2>3
<1>4. WriteAt(file, off, text) = [i \in 1..n |-> f(i)]
  BY <1>2 DEF WriteAt
<1> HIDE DEF f, n
<1>5. WriteAt(file, off, text) \in Text /\ Len(WriteAt(file, off, text)) = n
  <2>1. [i \in 1..n |-> f(i)] \in [1..n -> Hole..GitHub]
    BY <1>3
  <2> QED
    BY <1>2, <1>4, <2>1, TextByPlaces
<1>6. \A i \in 1..n : WriteAt(file, off, text)[i] = f(i)
  BY <1>4
<1> QED
  BY <1>5, <1>6 DEF f, n

LEMMA CutPlaces ==
  ASSUME NEW t \in Text, NEW m \in 1..(MaxLen + 1), NEW n \in 0..Len(t)
  PROVE  /\ SubSeq(t, m, n) \in Seq(Hole..GitHub)
         /\ Len(SubSeq(t, m, n)) = IF m <= n THEN n - m + 1 ELSE 0
         /\ \A i \in 1..(n - m + 1) : SubSeq(t, m, n)[i] = t[m + i - 1]
<1>1. m \in Int /\ n \in Int /\ \A i \in m..n : t[i] \in Hole..GitHub
  BY TextFacts, LogConstants
<1> QED
  BY <1>1, SubSeqProperties

(* The rest of a text. *)
LEMMA RestPlaces ==
  ASSUME NEW t \in Text, NEW n \in 0..Len(t)
  PROVE  /\ SubSeq(t, n + 1, Len(t)) \in Text
         /\ Len(SubSeq(t, n + 1, Len(t))) = Len(t) - n
         /\ \A i \in 1..(Len(t) - n) : SubSeq(t, n + 1, Len(t))[i] = t[n + i]
<1>1. Len(t) \in 0..MaxLen /\ MaxLen \in Nat
  BY TextFacts, LogConstants
<1>2. n + 1 \in 1..(MaxLen + 1) /\ Len(t) \in 0..Len(t)
  BY <1>1
<1> DEFINE r == SubSeq(t, n + 1, Len(t))
<1>3. /\ r \in Seq(Hole..GitHub)
      /\ Len(r) = IF n + 1 <= Len(t) THEN Len(t) - (n + 1) + 1 ELSE 0
      /\ \A i \in 1..(Len(t) - (n + 1) + 1) : r[i] = t[n + 1 + i - 1]
  BY <1>2, CutPlaces
<1> HIDE DEF r
<1>4. Len(r) = Len(t) - n /\ Len(r) <= MaxLen
  BY <1>1, <1>3
<1>5. ASSUME NEW i \in 1..(Len(t) - n) PROVE r[i] = t[n + i]
  <2>1. i \in 1..(Len(t) - (n + 1) + 1) /\ n + 1 + i - 1 = n + i
    BY <1>1
  <2> QED
    BY <1>3, <2>1
<1> QED
  BY <1>3, <1>4, <1>5 DEF r, Text

(* A text cut at an offset and gone on with another. *)
LEMMA JoinPlaces ==
  ASSUME NEW cur \in Text, NEW off \in 0..MaxLen, NEW text \in Text,
         off + Len(text) <= MaxLen, off <= Len(cur)
  PROVE  LET w == SubSeq(cur, 1, off) \o text
         IN  /\ w \in Text /\ Len(w) = off + Len(text)
             /\ \A i \in 1..Len(w) : w[i] = IF i <= off THEN cur[i] ELSE text[i - off]
<1>1. /\ text \in Seq(Hole..GitHub) /\ Len(text) \in Nat
      /\ Len(cur) \in 0..MaxLen /\ MaxLen \in Nat
  BY TextFacts, LogConstants DEF Text
<1> DEFINE p == SubSeq(cur, 1, off)
<1>2. 1 \in 1..(MaxLen + 1) /\ off \in 0..Len(cur)
  BY <1>1
<1>3. /\ p \in Seq(Hole..GitHub) /\ Len(p) = IF 1 <= off THEN off - 1 + 1 ELSE 0
      /\ \A i \in 1..(off - 1 + 1) : p[i] = cur[1 + i - 1]
  BY <1>2, CutPlaces
<1> HIDE DEF p
<1>4. Len(p) = off /\ \A i \in 1..off : p[i] = cur[i]
  BY <1>2, <1>3
<1>5. /\ p \o text \in Seq(Hole..GitHub) /\ Len(p \o text) = off + Len(text)
      /\ \A i \in 1..(off + Len(text)) : (p \o text)[i] = IF i <= off THEN p[i] ELSE text[i - off]
  BY <1>1, <1>3, <1>4, ConcatProperties
<1>6. ASSUME NEW i \in 1..(off + Len(text))
      PROVE  (p \o text)[i] = IF i <= off THEN cur[i] ELSE text[i - off]
  BY <1>2, <1>4, <1>5
<1> QED
  BY <1>5, <1>6 DEF p, Text

LEMMA WholeText == \A cur \in Text : SubSeq(cur, 1, Len(cur)) = cur
BY SubSeqFull DEF Text

LEMMA AppendPlaces ==
  ASSUME NEW cur \in Text, NEW off \in 0..MaxLen, NEW text \in Text, off + Len(text) <= MaxLen
  PROVE  LET w == ApplyWorkflowAppend(cur, off, text)
         IN  \/ w = cur
             \/ /\ off <= Len(cur) /\ w \in Text /\ Len(w) = off + Len(text)
                /\ \A i \in 1..Len(w) : w[i] = IF i <= off THEN cur[i] ELSE text[i - off]
<1>1. Len(cur) \in Nat /\ Len(text) \in Nat
  BY TextFacts, LogConstants
<1> DEFINE w == SubSeq(cur, 1, off) \o text
<1>2. CASE off <= Len(cur)
  <2>1. /\ w \in Text /\ Len(w) = off + Len(text)
        /\ \A i \in 1..Len(w) : w[i] = IF i <= off THEN cur[i] ELSE text[i - off]
    BY <1>2, JoinPlaces
  <2>2. off = Len(cur) => cur \o text = w
    BY WholeText
  <2>3. ApplyWorkflowAppend(cur, off, text) \in {cur, w}
    BY <2>2 DEF ApplyWorkflowAppend
  <2> HIDE DEF w
  <2> QED
    BY <1>2, <2>1, <2>3
<1>3. CASE off > Len(cur)
  BY <1>1, <1>3 DEF ApplyWorkflowAppend
<1> QED
  BY <1>1, <1>2, <1>3

Messages ==
  {[type |-> "exit"]}
    \cup {m \in [type : {"wf"}, off : 0..MaxLen, text : Text] : m.off + Len(m.text) <= MaxLen}
Chunks == {c \in [off : 0..MaxLen, text : Text] : c.off + Len(c.text) <= MaxLen}
Handlers ==
  {r \in [pc : {"none", "net", "write", "append", "live", "store", "event"},
          kind : {"none", "logs", "fin", "event"},
          full : Text, app : Text, off : 0..MaxLen, seen : Text] : r.off + Len(r.app) <= MaxLen}

GuestTyped ==
  /\ guest \in [text : Text, sent : 0..MaxLen, at : {"run", "ended", "done", "gone"}]
  /\ guest.sent <= Len(guest.text)
  /\ inject \in [log : Text, exit : BOOLEAN]
HostTyped ==
  /\ net \in SUBSET Messages /\ chunk \in Chunks
  /\ host \in [log : Text, exit : {"none", "code", "cancelled"}, dir : BOOLEAN, dying : BOOLEAN]
AgentTyped ==
  job \in [at : {"wait", "collect", "report", "end"}, wf : Text] /\ lastWF \in Text
ControlTyped ==
  /\ hs \in [Slots -> Handlers] /\ live \in Text /\ db \in Text
  /\ status \in {"started", "finished"} /\ fetched \in BOOLEAN
RestTyped == late \in BOOLEAN /\ faults \in 0..MaxFaults

Typed == GuestTyped /\ HostTyped /\ AgentTyped /\ ControlTyped /\ RestTyped

-----------------------------------------------------------------------------
(* Types. *)

LEMMA EmptyTyped == <<>> \in Text /\ Len(<<>>) = 0 /\ 0 \in 0..MaxLen /\ Idle \in Handlers
<1>1. <<>> \in Text /\ Len(<<>>) = 0 /\ 0 \in 0..MaxLen /\ 0 + 0 <= MaxLen
  BY TextFacts, LogConstants
<1> QED
  BY <1>1 DEF Idle, Handlers

LEMMA NoChunkTyped == NoChunk \in Chunks
BY EmptyTyped, LogConstants DEF NoChunk, Chunks

LEMMA RequestTyped ==
  ASSUME NEW full \in Text, NEW app \in Text, NEW off \in 0..MaxLen, off + Len(app) <= MaxLen
  PROVE  Request(full, app, off) \in Handlers
BY EmptyTyped DEF Request, Idle, Handlers

LEMMA UploadTyped ==
  ASSUME NEW prev \in Text, NEW cur \in Text
  PROVE  nextWorkflowUpload(prev, cur) \in Handlers
<1>1. Len(prev) \in 0..MaxLen /\ Len(cur) \in 0..MaxLen /\ MaxLen \in Nat
  BY TextFacts, LogConstants
<1>2. Request(cur, <<>>, 0) \in Handlers
  BY <1>1, EmptyTyped, RequestTyped
<1>3. CASE prev # <<>> /\ IsPrefix(prev, cur)
  <2>1. Len(prev) \in 0..Len(cur)
    BY <1>1, <1>3 DEF IsPrefix
  <2>2. /\ SubSeq(cur, Len(prev) + 1, Len(cur)) \in Text
        /\ Len(prev) + Len(SubSeq(cur, Len(prev) + 1, Len(cur))) <= MaxLen
    BY <1>1, <2>1, RestPlaces
  <2>3. Request(<<>>, SubSeq(cur, Len(prev) + 1, Len(cur)), Len(prev)) \in Handlers
    BY <1>1, <2>2, EmptyTyped, RequestTyped
  <2> QED
    BY <1>3, <2>3 DEF nextWorkflowUpload
<1> QED
  BY <1>2, <1>3 DEF nextWorkflowUpload

LEMMA FrameTyped == GuestTyped => Frame \in Messages
<1> SUFFICES ASSUME GuestTyped PROVE Frame \in Messages
  OBVIOUS
<1>1. guest.text \in Text /\ guest.sent \in 0..MaxLen /\ guest.sent <= Len(guest.text)
  BY DEF GuestTyped
<1>2. Len(guest.text) \in 0..MaxLen /\ MaxLen \in Nat
  BY <1>1, TextFacts, LogConstants
<1>3. guest.sent \in 0..Len(guest.text)
  BY <1>1, <1>2
<1>4. /\ SubSeq(guest.text, guest.sent + 1, Len(guest.text)) \in Text
      /\ guest.sent + Len(SubSeq(guest.text, guest.sent + 1, Len(guest.text))) <= MaxLen
  BY <1>1, <1>2, <1>3, RestPlaces
<1> QED
  BY <1>1, <1>4 DEF Frame, Messages

LEMMA AppendTyped ==
  ASSUME NEW r \in Handlers, NEW cur \in Text
  PROVE  ApplyWorkflowAppend(cur, r.off, r.app) \in Text
<1>1. r.off \in 0..MaxLen /\ r.app \in Text /\ r.off + Len(r.app) <= MaxLen
  BY DEF Handlers
<1> QED
  BY <1>1, AppendPlaces

(* The guest's file grows by its next piece. *)
LEMMA GrownPlaces ==
  ASSUME NEW t \in Text, Len(t) < MaxLen
  PROVE  /\ Append(t, Len(t) + 1) \in Text /\ Len(Append(t, Len(t) + 1)) = Len(t) + 1
         /\ \A i \in 1..(Len(t) + 1) :
              Append(t, Len(t) + 1)[i] = IF i <= Len(t) THEN t[i] ELSE Len(t) + 1
<1>1. t \in Seq(Hole..GitHub) /\ Len(t) \in Nat /\ MaxLen \in Nat
  BY TextFacts, LogConstants DEF Text
<1>2. Len(t) + 1 \in Hole..GitHub
  BY <1>1 DEF Hole, GitHub
<1>3. /\ Append(t, Len(t) + 1) \in Seq(Hole..GitHub)
      /\ Len(Append(t, Len(t) + 1)) = Len(t) + 1
      /\ \A i \in 1..Len(t) : Append(t, Len(t) + 1)[i] = t[i]
      /\ Append(t, Len(t) + 1)[Len(t) + 1] = Len(t) + 1
  BY <1>1, <1>2, AppendProperties
<1> QED
  BY <1>1, <1>3 DEF Text

LEMMA FaultsTyped ==
  ASSUME RestTyped, Fault \/ Fine
  PROVE  faults' \in 0..MaxFaults
BY LogConstants DEF RestTyped, Fault, Fine

LEMMA GuestTypes ==
  ASSUME Typed, GuestStep
  PROVE  Typed'
<1> USE DEF Typed, AgentTyped, ControlTyped, RestTyped, hostVars, agentVars, controlVars
<1>1. ASSUME NEW ex, WriteInject(ex)
      PROVE  /\ ex \in BOOLEAN => inject' \in [log : Text, exit : BOOLEAN]
             /\ faults' \in 0..MaxFaults
  BY <1>1, LogConstants DEF WriteInject, GuestTyped, Fault, Fine
<1>2. CASE collect_live_workflow
  <2>1. guest.text \in Text /\ Len(guest.text) \in Nat /\ Len(guest.text) < MaxLen
    BY <1>2, TextFacts, LogConstants DEF collect_live_workflow, GuestTyped
  <2>2. guest'.text \in Text /\ Len(guest'.text) = Len(guest.text) + 1
    BY <1>2, <2>1, GrownPlaces DEF collect_live_workflow, GuestTyped
  <2>3. /\ guest' \in [text : Text, sent : 0..MaxLen, at : {"run", "ended", "done", "gone"}]
        /\ guest'.sent = guest.sent /\ inject' = inject
    <3> DEFINE grown == Append(guest.text, Len(guest.text) + 1)
    <3>1. guest' = [guest EXCEPT !.text = grown] /\ inject' = inject /\ grown \in Text
      BY <1>2, <2>1, GrownPlaces DEF collect_live_workflow
    <3> HIDE DEF grown
    <3> QED
      BY <3>1 DEF GuestTyped
  <2>4. guest.sent \in Nat /\ guest.sent <= Len(guest.text)
    BY LogConstants DEF GuestTyped
  <2>5. guest'.sent <= Len(guest'.text)
    BY <2>1, <2>2, <2>3, <2>4
  <2>6. GuestTyped'
    BY <2>3, <2>5 DEF GuestTyped
  <2> QED
    BY <1>2, <2>6 DEF collect_live_workflow, HostTyped
<1>3. CASE send_workflow_stream
  <2>1. Frame \in Messages
    BY FrameTyped
  <2>2. Len(guest.text) \in 0..MaxLen
    BY TextFacts DEF GuestTyped
  <2> QED
    BY <1>3, <2>1, <2>2 DEF send_workflow_stream, GuestTyped, HostTyped
<1>4. CASE publish_live_logs
  BY <1>1, <1>4 DEF publish_live_logs, GuestTyped, HostTyped
<1>5. CASE RunnerExits
  <2>1. Frame \in Messages
    BY FrameTyped
  <2>2. Len(guest.text) \in 0..MaxLen
    BY TextFacts DEF GuestTyped
  <2>3. inject' \in [log : Text, exit : BOOLEAN] /\ faults' \in 0..MaxFaults
    BY <1>1, <1>5 DEF RunnerExits
  <2>4. GuestTyped'
    <3>1. /\ guest' \in [text : Text, sent : 0..MaxLen, at : {"run", "ended", "done", "gone"}]
          /\ guest'.sent = Len(guest.text) /\ guest'.text = guest.text
      BY <1>5, <2>2 DEF RunnerExits, GuestTyped
    <3> QED
      BY <2>2, <2>3, <3>1, LogConstants DEF GuestTyped
  <2> QED
    BY <1>5, <2>1, <2>3, <2>4 DEF RunnerExits, HostTyped
<1>6. CASE write_exit
  <2>3. inject' \in [log : Text, exit : BOOLEAN] /\ faults' \in 0..MaxFaults
    BY <1>1, <1>6 DEF write_exit
  <2>4. GuestTyped'
    BY <1>6, <2>3 DEF write_exit, GuestTyped
  <2> QED
    BY <1>6, <2>3, <2>4 DEF write_exit, HostTyped, Messages
<1> QED
  BY <1>2, <1>3, <1>4, <1>5, <1>6 DEF GuestStep

LEMMA MailboxTypes ==
  ASSUME Typed, MailboxStep
  PROVE  Typed'
<1> USE DEF Typed, GuestTyped, AgentTyped, ControlTyped, RestTyped, guestVars, agentVars, controlVars
<1>1. ASSUME NEW m \in net, ApplyMailboxMessage(m) PROVE Typed'
  <2>1. faults' \in 0..MaxFaults /\ net' \in SUBSET Messages
    BY <1>1, LogConstants DEF ApplyMailboxMessage, HostTyped, Fault, Fine
  <2>2. CASE ReceiveChunk(m)
    <3>1. m \in [type : {"wf"}, off : 0..MaxLen, text : Text] /\ m.off + Len(m.text) <= MaxLen
      BY <2>2 DEF ReceiveChunk, HostTyped, Messages
    <3>2. [off |-> m.off, text |-> m.text] \in Chunks
      BY <3>1 DEF Chunks
    <3> QED
      BY <1>1, <2>1, <2>2, <3>2 DEF ApplyMailboxMessage, ReceiveChunk, HostTyped
  <2>3. CASE ReceiveExit(m)
    BY <1>1, <2>1, <2>3 DEF ApplyMailboxMessage, ReceiveExit, HostTyped
  <2> QED
    BY <1>1, <2>2, <2>3 DEF ApplyMailboxMessage
<1>2. CASE WriteChunk
  <2>1. chunk.off \in 0..MaxLen /\ chunk.text \in Text /\ chunk.off + Len(chunk.text) <= MaxLen
    BY DEF HostTyped, Chunks
  <2>2. WriteAt(host.log, chunk.off, chunk.text) \in Text
    BY <2>1, WriteAtPlaces DEF HostTyped
  <2> QED
    BY <1>2, <2>2, NoChunkTyped DEF WriteChunk, HostTyped
<1>3. ASSUME NEW m \in net, Lose(m) PROVE Typed'
  BY <1>3, LogConstants DEF Lose, HostTyped, Fault
<1> QED
  BY <1>1, <1>2, <1>3 DEF MailboxStep

LEMMA DestroyTyped ==
  ASSUME GuestTyped, HostTyped, NEW M \in SUBSET net, DestroyVM(M)
  PROVE  GuestTyped' /\ HostTyped'
<1>1. Len(guest.text) \in 0..MaxLen /\ MaxLen \in Nat
  BY TextFacts, LogConstants DEF GuestTyped
<1>2. /\ guest' \in [text : Text, sent : 0..MaxLen, at : {"run", "ended", "done", "gone"}]
      /\ guest'.sent = 0 /\ guest'.text = guest.text
  BY EmptyTyped DEF DestroyVM, GuestTyped
<1>3. inject' \in [log : Text, exit : BOOLEAN]
  BY EmptyTyped DEF DestroyVM
<1>4. GuestTyped'
  BY <1>1, <1>2, <1>3 DEF GuestTyped
<1>5. host' \in [log : Text, exit : {"none", "code", "cancelled"}, dir : BOOLEAN, dying : BOOLEAN]
  BY EmptyTyped DEF DestroyVM
<1>6. net' \in SUBSET Messages /\ chunk' \in Chunks
  BY NoChunkTyped DEF DestroyVM, HostTyped
<1> QED
  BY <1>4, <1>5, <1>6 DEF HostTyped

LEMMA CopyTyped ==
  ASSUME GuestTyped, HostTyped, RestTyped, NEW ex \in BOOLEAN, CopyInjectFiles(ex),
         UNCHANGED <<net, chunk>>
  PROVE  HostTyped' /\ faults' \in 0..MaxFaults
<1>1. faults' \in 0..MaxFaults
  BY FaultsTyped DEF CopyInjectFiles
<1>2. host' \in [log : Text, exit : {"none", "code", "cancelled"}, dir : BOOLEAN, dying : BOOLEAN]
  <2> DEFINE log == IF inject.log = <<>> THEN host.log ELSE inject.log
             exit == IF ex /\ inject.exit THEN "code" ELSE host.exit
  <2>1. log \in Text /\ exit \in {"none", "code", "cancelled"}
    BY DEF GuestTyped, HostTyped
  <2>2. host' = [host EXCEPT !.log = log, !.exit = exit] \/ host' = host
    BY DEF CopyInjectFiles
  <2> HIDE DEF log, exit
  <2> QED
    BY <2>1, <2>2 DEF HostTyped
<1> QED
  BY <1>1, <1>2 DEF HostTyped

LEMMA AgentTypes ==
  ASSUME Typed, AgentStep
  PROVE  Typed'
<1> USE DEF Typed, guestVars, hostVars, agentVars, controlVars
<1>1. CASE WaitRunner
  <2>1. HostTyped' /\ faults' \in 0..MaxFaults
    BY <1>1, CopyTyped DEF WaitRunner
  <2> QED
    BY <1>1, <2>1, EmptyTyped DEF WaitRunner, stopStream, GuestTyped, AgentTyped, ControlTyped, RestTyped
<1>2. CASE SlowPoll
  <2>1. HostTyped' /\ faults' \in 0..MaxFaults
    BY <1>2, CopyTyped DEF SlowPoll
  <2> QED
    BY <1>2, <2>1 DEF SlowPoll, GuestTyped, AgentTyped, ControlTyped, RestTyped
<1>3. CASE Deadline
  BY <1>3, EmptyTyped DEF Deadline, stopStream, GuestTyped, HostTyped, AgentTyped, ControlTyped, RestTyped
<1>4. CASE CollectJobLogs
  BY <1>4 DEF CollectJobLogs, GuestTyped, HostTyped, AgentTyped, ControlTyped, RestTyped
<1>5. CASE ReportFinished
  <2>1. GuestTyped' /\ HostTyped'
    BY <1>5, DestroyTyped DEF ReportFinished
  <2>2. [Idle EXCEPT !.pc = "net", !.kind = "fin", !.full = job.wf] \in Handlers
    BY EmptyTyped DEF Idle, Handlers, AgentTyped
  <2>3. hs' \in [Slots -> Handlers]
    BY <1>5, <2>2 DEF ReportFinished, ControlTyped, Slots
  <2>4. late' \in BOOLEAN
    BY <1>5, Zenon DEF ReportFinished, RestTyped
  <2>5. faults' \in 0..MaxFaults
    BY <1>5, FaultsTyped DEF ReportFinished
  <2> QED
    BY <1>5, <2>1, <2>3, <2>4, <2>5 DEF ReportFinished, AgentTyped, ControlTyped, RestTyped
<1>6. CASE KillVM
  <2>1. HostTyped'
    BY <1>6 DEF KillVM, SignalRunnerStopped, HostTyped
  <2>2. faults' \in 0..MaxFaults
    BY <1>6, FaultsTyped DEF KillVM
  <2> QED
    BY <1>6, <2>1, <2>2 DEF KillVM, GuestTyped, AgentTyped, ControlTyped, RestTyped
<1>7. CASE destroyNow
  <2>1. GuestTyped' /\ HostTyped'
    BY <1>7, DestroyTyped DEF destroyNow
  <2> QED
    BY <1>7, <2>1 DEF destroyNow, AgentTyped, ControlTyped, RestTyped
<1> QED
  BY <1>1, <1>2, <1>3, <1>4, <1>5, <1>6, <1>7 DEF AgentStep

LEMMA StreamTypes ==
  ASSUME Typed, NEW s \in Posts, StreamFast(s) \/ StreamSlow(s) \/ PostLost(s)
  PROVE  Typed'
<1> USE DEF Typed, GuestTyped, HostTyped, AgentTyped, RestTyped, guestVars, hostVars, agentVars
<1>1. ASSUME NEW r \in Handlers, Send(s, r) PROVE hs' \in [Slots -> Handlers] /\ faults' \in 0..MaxFaults
  BY <1>1, LogConstants DEF Send, ControlTyped, Fault, Fine, Slots
<1>2. CASE StreamFast(s)
  <2>1. nextWorkflowUpload(lastWF, host.log) \in Handlers
    BY UploadTyped
  <2>2. hs' \in [Slots -> Handlers] /\ faults' \in 0..MaxFaults
    BY <1>1, <1>2, <2>1 DEF StreamFast
  <2> QED
    BY <1>2, <2>2 DEF StreamFast, ControlTyped
<1>3. CASE StreamSlow(s)
  <2> DEFINE wf == IF Len(host.log) < Len(lastWF) THEN <<>> ELSE host.log
  <2>1. wf \in Text
    BY EmptyTyped
  <2>2. Request(wf, <<>>, 0) \in Handlers
    BY <2>1, EmptyTyped, RequestTyped, LogConstants
  <2>3. Send(s, Request(wf, <<>>, 0)) /\ lastWF' = IF wf = <<>> THEN lastWF ELSE wf
    BY <1>3 DEF StreamSlow
  <2>4. hs' \in [Slots -> Handlers] /\ faults' \in 0..MaxFaults
    BY <1>1, <2>2, <2>3
  <2> HIDE DEF wf
  <2> QED
    BY <1>3, <2>1, <2>3, <2>4 DEF StreamSlow, ControlTyped
<1>4. CASE PostLost(s)
  <2>1. hs' \in [Slots -> Handlers]
    BY <1>4, EmptyTyped DEF PostLost, ControlTyped
  <2>2. faults' \in 0..MaxFaults
    BY <1>4, FaultsTyped DEF PostLost
  <2> QED
    BY <1>4, <2>1, <2>2 DEF PostLost, ControlTyped
<1> QED
  BY <1>2, <1>3, <1>4

LEMMA HandlerTypes ==
  ASSUME Typed, NEW s \in Slots, HandlerStep(s)
  PROVE  Typed'
<1> USE DEF Typed, GuestTyped, HostTyped, AgentTyped, RestTyped, guestVars, hostVars, agentVars
<1>1. hs \in [Slots -> Handlers] /\ hs[s] \in Handlers /\ live \in Text /\ db \in Text
  BY DEF ControlTyped
<1>2. ASSUME NEW pc \in {"write", "append"}, NEW kind \in {"logs", "fin", "event"}, NEW t \in Text
      PROVE  [hs[s] EXCEPT !.pc = pc, !.kind = kind, !.seen = t] \in Handlers
  BY <1>1 DEF Handlers
<1>3. ASSUME NEW pc \in {"live", "store"}, NEW t \in Text
      PROVE  [hs[s] EXCEPT !.pc = pc, !.seen = t] \in Handlers
  BY <1>1 DEF Handlers
<1>4. Idle \in Handlers /\ Done(s) \in Handlers
  BY EmptyTyped DEF Done, Handlers, Idle
<1>5. hs[s].full \in Text /\ hs[s].seen \in Text
  BY <1>1 DEF Handlers
<1>6. ASSUME NEW r \in Handlers, Becomes(s, r) PROVE hs' \in [Slots -> Handlers]
  BY <1>1, <1>6 DEF Becomes
<1>7. CASE Arrive(s)
  <2>1. hs' \in [Slots -> Handlers]
    BY <1>1, <1>2, <1>4, <1>6, <1>7 DEF Arrive, Read
  <2> QED
    BY <1>7, <2>1 DEF Arrive, ControlTyped
<1>8. CASE writeJobLog(s)
  <2>1. hs' \in [Slots -> Handlers]
    BY <1>3, <1>4, <1>6, <1>8, EmptyTyped DEF writeJobLog
  <2>2. db' \in Text
    BY <1>5, <1>8 DEF writeJobLog
  <2> QED
    BY <1>8, <2>1, <2>2 DEF writeJobLog, ControlTyped
<1>9. CASE rememberWorkflow(s)
  <2>1. WorkflowOf(s) \in Text
    BY <1>1, <1>5 DEF WorkflowOf
  <2>2. hs' \in [Slots -> Handlers] /\ live' \in Text
    BY <1>1, <1>3, <1>4, <1>6, <1>9, <2>1 DEF rememberWorkflow
  <2> QED
    BY <1>9, <2>2 DEF rememberWorkflow, ControlTyped
<1>10. CASE applyLiveAppend(s)
  <2> DEFINE next == ApplyWorkflowAppend(hs[s].seen, hs[s].off, hs[s].app)
  <2>1. next \in Text
    BY <1>1, <1>5, AppendTyped
  <2>2. /\ Becomes(s, Idle) \/ Becomes(s, [hs[s] EXCEPT !.pc = "store", !.seen = next])
        /\ live' = live \/ live' = next
    BY <1>10 DEF applyLiveAppend
  <2> HIDE DEF next
  <2>3. hs' \in [Slots -> Handlers] /\ live' \in Text
    BY <1>1, <1>3, <1>4, <1>6, <2>1, <2>2
  <2> QED
    BY <1>10, <2>3 DEF applyLiveAppend, ControlTyped
<1>11. CASE SetWorkflowLog(s)
  <2>1. hs' \in [Slots -> Handlers] /\ db' \in Text
    BY <1>4, <1>5, <1>6, <1>11 DEF SetWorkflowLog
  <2> QED
    BY <1>11, <2>1 DEF SetWorkflowLog, ControlTyped
<1>12. CASE AppendJobEvent(s)
  <2>1. hs' \in [Slots -> Handlers]
    BY <1>1, <1>2, <1>6, <1>12 DEF AppendJobEvent, Read
  <2> QED
    BY <1>12, <2>1 DEF AppendJobEvent, ControlTyped
<1> QED
  BY <1>7, <1>8, <1>9, <1>10, <1>11, <1>12 DEF HandlerStep

LEMMA TypedInvariant == LogsSpec => []Typed
<1>1. LogsInit => Typed
  <2> SUFFICES ASSUME LogsInit PROVE Typed
    OBVIOUS
  <2>1. GuestTyped
    BY EmptyTyped, LogConstants DEF LogsInit, GuestTyped
  <2>2. HostTyped
    BY EmptyTyped, NoChunkTyped DEF LogsInit, HostTyped
  <2>3. AgentTyped
    BY EmptyTyped DEF LogsInit, AgentTyped
  <2>4. ControlTyped
    BY EmptyTyped DEF LogsInit, ControlTyped
  <2>5. RestTyped
    <3>1. late \in BOOLEAN /\ faults = 0
      BY DEF LogsInit
    <3> QED
      BY <3>1, LogConstants DEF RestTyped
  <2> QED
    BY <2>1, <2>2, <2>3, <2>4, <2>5 DEF Typed
<1>2. Typed /\ [LogsNext]_logVars => Typed'
  <2> SUFFICES ASSUME Typed, [LogsNext]_logVars PROVE Typed'
    OBVIOUS
  <2>1. CASE ControlStep
    <3>1. CASE ensureWorkflowLog
      BY <3>1, TextFacts DEF ensureWorkflowLog, Typed, GuestTyped, HostTyped, AgentTyped, ControlTyped,
        RestTyped, guestVars, hostVars, agentVars
    <3>2. CASE ControlRestart
      BY <3>2, EmptyTyped, LogConstants DEF ControlRestart, Fault, Typed, GuestTyped, HostTyped, AgentTyped,
        ControlTyped, RestTyped, guestVars, hostVars, agentVars
    <3> QED
      BY <2>1, <3>1, <3>2, HandlerTypes DEF ControlStep
  <2>2. CASE StreamStep
    BY <2>2, StreamTypes DEF StreamStep
  <2>3. CASE UNCHANGED logVars
    BY <2>3 DEF logVars, Typed, GuestTyped, HostTyped, AgentTyped, ControlTyped,
        RestTyped, guestVars, hostVars, agentVars, controlVars
  <2> QED
    BY <2>1, <2>2, <2>3, GuestTypes, MailboxTypes, AgentTypes DEF LogsNext
<1> QED
  BY <1>1, <1>2, PTL DEF LogsSpec

\* Whatever is lost, repeated, reordered, torn or restarted, every file, message and
\* handler keeps its type: no text becomes longer than the guest's log can be.
THEOREM LogsTypesKept == LogsSpec => []LogsTypeOK
<1>1. ASSUME Typed PROVE LogsTypeOK
  <2>1. Views \subseteq Text
    BY <1>1 DEF Views, Typed, HostTyped, AgentTyped, ControlTyped, Handlers
  <2> QED
    BY <1>1, <2>1, TextsAreText DEF LogsTypeOK, Typed, GuestTyped, HostTyped, ControlTyped, RestTyped
<1> QED
  BY <1>1, TypedInvariant, PTL

-----------------------------------------------------------------------------
(* The finish report's handler. *)
Reported == hs["fin"].pc # "none" \/ status = "finished"

FinShape ==
  /\ Reported => job.at = "end"
  /\ hs["fin"].pc = "net" => status = "started" /\ hs["fin"].kind = "fin"
  /\ hs["fin"].pc = "write" => hs["fin"].kind \in {"fin", "event"}
  /\ hs["fin"].pc \in {"live", "store"} => hs["fin"].kind = "fin"
  /\ hs["fin"].pc = "event" => hs["fin"].kind = "event" /\ hs["fin"].full = <<>>
  /\ hs["fin"].pc # "append"
  /\ hs["fin"].pc # "none" /\ hs["fin"].kind = "fin" => hs["fin"].full = job.wf

PostsQuiet ==
  /\ \A s \in Posts : hs[s].pc # "none" => hs[s].kind = "logs" /\ hs[s].pc # "event"
  /\ Reported /\ ~late => \A s \in Posts : hs[s].pc = "none"

Healed ==
  status = "finished" /\ ~late /\ job.wf # <<>> =>
    /\ (hs["fin"].pc = "write" /\ hs["fin"].kind = "fin") \/ db \in {job.wf, Official}
    /\ \/ hs["fin"].pc = "live" \/ (hs["fin"].pc = "write" /\ hs["fin"].kind = "fin")
       \/ live \in {<<>>, job.wf, Official}
    /\ hs["fin"].pc = "store" => hs["fin"].seen = job.wf
    /\ hs["fin"].pc = "write" /\ hs["fin"].kind = "event"
         => hs["fin"].seen \in {job.wf, Official} /\ hs["fin"].full = <<>>

FinInv == FinShape /\ PostsQuiet /\ Healed

LEMMA FinSlot == "fin" \in Slots /\ "fin" \notin Posts /\ Posts \subseteq Slots
BY LogConstants DEF Slots

(* What a handler's step leaves in the slots. *)
LEMMA BecomesSlot ==
  ASSUME ControlTyped, NEW s \in Slots, NEW r, Becomes(s, r)
  PROVE  hs'[s] = r /\ \A t \in Slots \ {s} : hs'[t] = hs[t]
BY DEF Becomes, ControlTyped

LEMMA ReadSlot ==
  ASSUME ControlTyped, NEW s \in Slots, NEW pc, NEW kind, NEW t, Read(s, pc, kind, t)
  PROVE  /\ hs'[s].pc = pc /\ hs'[s].kind = kind /\ hs'[s].seen = t
         /\ hs'[s].full = hs[s].full /\ hs'[s].app = hs[s].app /\ hs'[s].off = hs[s].off
         /\ \A u \in Slots \ {s} : hs'[u] = hs[u]
<1> DEFINE r == [hs[s] EXCEPT !.pc = pc, !.kind = kind, !.seen = t]
<1>1. /\ r.pc = pc /\ r.kind = kind /\ r.seen = t
      /\ r.full = hs[s].full /\ r.app = hs[s].app /\ r.off = hs[s].off
  BY DEF ControlTyped, Handlers
<1>2. Becomes(s, r)
  BY DEF Read
<1> HIDE DEF r
<1>3. hs'[s] = r /\ \A u \in Slots \ {s} : hs'[u] = hs[u]
  BY <1>2, BecomesSlot
<1> QED
  BY <1>1, <1>3

MoveTo(s, pc, t) == Becomes(s, [hs[s] EXCEPT !.pc = pc, !.seen = t])

LEMMA MoveSlot ==
  ASSUME ControlTyped, NEW s \in Slots, NEW pc, NEW t, MoveTo(s, pc, t)
  PROVE  /\ hs'[s].pc = pc /\ hs'[s].kind = hs[s].kind /\ hs'[s].seen = t
         /\ hs'[s].full = hs[s].full /\ hs'[s].app = hs[s].app /\ hs'[s].off = hs[s].off
         /\ \A u \in Slots \ {s} : hs'[u] = hs[u]
<1> DEFINE r == [hs[s] EXCEPT !.pc = pc, !.seen = t]
<1>1. /\ r.pc = pc /\ r.kind = hs[s].kind /\ r.seen = t
      /\ r.full = hs[s].full /\ r.app = hs[s].app /\ r.off = hs[s].off
  BY DEF ControlTyped, Handlers
<1>2. Becomes(s, r)
  BY DEF MoveTo
<1> HIDE DEF r
<1>3. hs'[s] = r /\ \A u \in Slots \ {s} : hs'[u] = hs[u]
  BY <1>2, BecomesSlot
<1> QED
  BY <1>1, <1>3

LEMMA FinUntouched ==
  ASSUME FinInv, UNCHANGED <<hs, job, live, db, status, late>>
  PROVE  FinInv'
BY DEF FinInv, FinShape, PostsQuiet, Healed, Reported

LEMMA FinAgent ==
  ASSUME Typed, FinInv, AgentStep
  PROVE  FinInv'
<1> USE DEF guestVars, hostVars, agentVars, controlVars
<1>1. CASE SlowPoll \/ KillVM \/ destroyNow
  BY <1>1, FinUntouched DEF SlowPoll, KillVM, destroyNow
<1>2. CASE WaitRunner \/ Deadline \/ CollectJobLogs
  <2>1. job.at # "end" /\ UNCHANGED <<hs, live, db, status, late>>
    BY <1>2 DEF WaitRunner, Deadline, CollectJobLogs
  <2>2. hs["fin"].pc = "none" /\ status # "finished"
    BY <2>1 DEF FinInv, FinShape, Reported
  <2> QED
    BY <2>1, <2>2 DEF FinInv, FinShape, PostsQuiet, Healed, Reported
<1>3. CASE ReportFinished
  <2>1. job.at = "report" /\ job' = [job EXCEPT !.at = "end"] /\ UNCHANGED <<live, db, status>>
    BY <1>3 DEF ReportFinished
  <2>2. hs["fin"].pc = "none" /\ status # "finished" /\ status = "started"
    BY <2>1 DEF FinInv, FinShape, Reported, Typed, ControlTyped
  <2>3. job'.at = "end" /\ job'.wf = job.wf
    BY <2>1 DEF Typed, AgentTyped
  <2>4. CASE UNCHANGED <<hs, late>>
    BY <2>1, <2>2, <2>3, <2>4 DEF FinInv, FinShape, PostsQuiet, Healed, Reported
  <2>5. CASE /\ hs' = [hs EXCEPT !["fin"] = [Idle EXCEPT !.pc = "net", !.kind = "fin", !.full = job.wf]]
             /\ late' = (Active # {})
    <3>1. hs'["fin"] = [Idle EXCEPT !.pc = "net", !.kind = "fin", !.full = job.wf]
      BY <2>5, FinSlot DEF Typed, ControlTyped
    <3>2. hs'["fin"].pc = "net" /\ hs'["fin"].kind = "fin" /\ hs'["fin"].full = job.wf
      BY <3>1 DEF Idle
    <3>3. \A s \in Posts : hs'[s] = hs[s]
      BY <2>5, FinSlot DEF Typed, ControlTyped
    <3>4. ~late' => \A s \in Posts : hs[s].pc = "none"
      BY <2>5, FinSlot DEF Active
    <3> QED
      BY <2>1, <2>2, <2>3, <3>2, <3>3, <3>4 DEF FinInv, FinShape, PostsQuiet, Healed, Reported
  <2> QED
    BY <1>3, <2>4, <2>5 DEF ReportFinished
<1> QED
  BY <1>1, <1>2, <1>3 DEF AgentStep

(* After the report no upload is sent. *)
LEMMA FinStream ==
  ASSUME Typed, FinInv, NEW s \in Posts, StreamFast(s) \/ StreamSlow(s) \/ PostLost(s)
  PROVE  FinInv'
<1> USE DEF guestVars, hostVars, agentVars, controlVars
<1>1. UNCHANGED <<job, live, db, status, late>>
  BY DEF StreamFast, StreamSlow, PostLost
<1>2. ASSUME NEW r, hs' = [hs EXCEPT ![s] = r]
      PROVE  hs'[s] = r /\ \A t \in Slots \ {s} : hs'[t] = hs[t]
  BY <1>2, FinSlot DEF Typed, ControlTyped
<1>3. CASE StreamFast(s) \/ StreamSlow(s)
  <2>1. PICK full, app, off : job.at = "wait" /\ hs' = [hs EXCEPT ![s] = Request(full, app, off)]
    BY <1>3 DEF StreamFast, StreamSlow, Send, nextWorkflowUpload
  <2>2. ~Reported
    BY <2>1 DEF FinInv, FinShape
  <2>3. Request(full, app, off).kind = "logs" /\ Request(full, app, off).pc = "net"
    BY DEF Request, Idle
  <2>4. hs'[s].kind = "logs" /\ hs'[s].pc = "net" /\ \A t \in Slots \ {s} : hs'[t] = hs[t]
    BY <1>2, <2>1, <2>3
  <2> QED
    BY <1>1, <2>2, <2>4, FinSlot DEF FinInv, FinShape, PostsQuiet, Healed, Reported
<1>4. CASE PostLost(s)
  <2>1. hs' = [hs EXCEPT ![s] = Idle]
    BY <1>4 DEF PostLost
  <2>2. hs'[s].pc = "none" /\ \A t \in Slots \ {s} : hs'[t] = hs[t]
    BY <1>2, <2>1 DEF Idle
  <2> QED
    BY <1>1, <2>2, FinSlot DEF FinInv, FinShape, PostsQuiet, Healed, Reported
<1> QED
  BY <1>3, <1>4

(* A handler of an upload that is still running makes the report late. *)
LEMMA FinPosts ==
  ASSUME Typed, FinInv, NEW s \in Posts, HandlerStep(s)
  PROVE  FinInv'
<1> USE DEF guestVars, hostVars, agentVars, controlVars
<1>1. hs[s].pc # "none"
  BY DEF HandlerStep, Arrive, writeJobLog, rememberWorkflow, applyLiveAppend, SetWorkflowLog,
         AppendJobEvent, At
<1>2. hs[s].kind = "logs" /\ hs[s].pc # "event" /\ (Reported => late)
  BY <1>1 DEF FinInv, PostsQuiet
<1>3. ControlTyped /\ s \in Slots /\ Done(s) = Idle /\ Idle.pc = "none"
  BY <1>2, FinSlot DEF Typed, Done, Idle
<1>4. Becomes(s, Idle) => hs'[s].pc = "none" /\ \A t \in Slots \ {s} : hs'[t] = hs[t]
  BY <1>3, BecomesSlot
<1> DEFINE Moved == hs'[s].kind = "logs" /\ hs'[s].pc # "event" /\ \A t \in Slots \ {s} : hs'[t] = hs[t]
<1>5. ASSUME NEW pc \in {"write", "append"}, NEW t, Read(s, pc, "logs", t) PROVE Moved
  BY <1>3, <1>5, ReadSlot
<1>6. ASSUME NEW pc \in {"live", "store"}, NEW t, MoveTo(s, pc, t) PROVE Moved
  BY <1>2, <1>3, <1>6, MoveSlot
<1> HIDE DEF Moved
<1>7. /\ UNCHANGED <<job, status, late>>
      /\ Becomes(s, Idle) \/ Moved
  <2>1. CASE Arrive(s)
    BY <1>2, <1>5, <2>1 DEF Arrive
  <2>2. CASE writeJobLog(s)
    BY <1>2, <1>6, <2>2 DEF writeJobLog, MoveTo
  <2>3. CASE rememberWorkflow(s)
    BY <1>3, <1>6, <2>3 DEF rememberWorkflow, MoveTo
  <2>4. CASE applyLiveAppend(s)
    BY <1>6, <2>4 DEF applyLiveAppend, MoveTo
  <2>5. CASE SetWorkflowLog(s)
    BY <1>3, <2>5 DEF SetWorkflowLog
  <2>6. CASE AppendJobEvent(s)
    BY <1>2, <2>6 DEF AppendJobEvent, At
  <2> QED
    BY <2>1, <2>2, <2>3, <2>4, <2>5, <2>6 DEF HandlerStep
<1>8. /\ hs'[s].pc = "none" \/ (hs'[s].kind = "logs" /\ hs'[s].pc # "event")
      /\ \A t \in Slots \ {s} : hs'[t] = hs[t]
  BY <1>4, <1>7 DEF Moved
<1>9. hs'["fin"] = hs["fin"]
  BY <1>8, FinSlot
<1>10. FinShape' /\ (Reported' <=> Reported)
  BY <1>7, <1>9 DEF FinInv, FinShape, Reported
<1>11. PostsQuiet'
  BY <1>2, <1>7, <1>8, <1>10, FinSlot DEF FinInv, PostsQuiet
<1>12. Healed'
  BY <1>2, <1>7, <1>10 DEF Healed, Reported
<1> QED
  BY <1>10, <1>11, <1>12 DEF FinInv

(* The report's own handler: it writes what the agent collected, then what it reads back. *)
LEMMA FinFin ==
  ASSUME Typed, FinInv, HandlerStep("fin")
  PROVE  FinInv'
<1> DEFINE f == hs["fin"]
           g == hs'["fin"]
<1> USE DEF guestVars, hostVars, agentVars, controlVars
<1>1. f \in Handlers /\ f.pc # "none" /\ UNCHANGED <<job, late>>
  BY FinSlot DEF Typed, ControlTyped, HandlerStep, Arrive, writeJobLog, rememberWorkflow, applyLiveAppend,
     SetWorkflowLog, AppendJobEvent, At
<1>2. ControlTyped /\ "fin" \in Slots /\ Posts = Slots \ {"fin"}
  BY FinSlot DEF Typed, Slots
<1>3. Reported /\ job.at = "end"
  BY <1>1 DEF FinInv, FinShape, Reported
<1>4. ASSUME \A t \in Posts : hs'[t] = hs[t] PROVE PostsQuiet'
  BY <1>1, <1>3, <1>4 DEF FinInv, PostsQuiet
<1>5. ASSUME NEW pc, NEW kind, NEW t, Read("fin", pc, kind, t)
      PROVE  /\ g.pc = pc /\ g.kind = kind /\ g.seen = t /\ g.full = f.full
             /\ \A u \in Posts : hs'[u] = hs[u]
  BY <1>2, <1>5, ReadSlot
<1>6. ASSUME NEW pc, NEW t, MoveTo("fin", pc, t)
      PROVE  /\ g.pc = pc /\ g.kind = f.kind /\ g.seen = t /\ g.full = f.full
             /\ \A u \in Posts : hs'[u] = hs[u]
  BY <1>2, <1>6, MoveSlot
<1>7. Becomes("fin", Idle) => g.pc = "none" /\ \A u \in Posts : hs'[u] = hs[u]
  BY <1>2, BecomesSlot DEF Idle
<1>8. f.kind = "fin" /\ Becomes("fin", Done("fin")) =>
         /\ g.pc = "event" /\ g.kind = "event" /\ g.full = <<>>
         /\ \A u \in Posts : hs'[u] = hs[u]
  <2> DEFINE d == [Idle EXCEPT !.pc = "event", !.kind = "event"]
  <2>1. d.pc = "event" /\ d.kind = "event" /\ d.full = <<>>
    BY DEF Idle
  <2>2. f.kind = "fin" => Done("fin") = d
    BY DEF Done
  <2> HIDE DEF d
  <2> QED
    BY <1>2, <2>1, <2>2, BecomesSlot
<1> HIDE DEF f, g
<1>9. CASE Arrive("fin")
  <2>1. f.pc = "net" /\ f.kind = "fin" /\ f.full = job.wf /\ status = "started" /\ UNCHANGED <<live, db>>
    BY <1>1, <1>9 DEF f, Arrive, At, FinInv, FinShape
  <2>2. CASE status' = "finished" /\ Read("fin", "write", "fin", db)
    <3>1. g.pc = "write" /\ g.kind = "fin" /\ g.full = job.wf /\ \A t \in Posts : hs'[t] = hs[t]
      BY <1>5, <2>1, <2>2
    <3> QED
      BY <1>1, <1>3, <1>4, <2>1, <2>2, <3>1 DEF g, FinInv, FinShape, Healed, Reported
  <2>3. CASE UNCHANGED status /\ Becomes("fin", Idle)
    <3>1. g.pc = "none" /\ \A t \in Posts : hs'[t] = hs[t]
      BY <1>7, <2>3
    <3> QED
      BY <1>1, <1>3, <1>4, <2>1, <2>3, <3>1 DEF g, FinInv, FinShape, Healed, Reported
  <2>4. CASE UNCHANGED status /\ Read("fin", "write", "event", db)
    <3>1. g.pc = "write" /\ g.kind = "event" /\ \A t \in Posts : hs'[t] = hs[t]
      BY <1>5, <2>4
    <3> QED
      BY <1>1, <1>3, <1>4, <2>1, <2>4, <3>1 DEF g, FinInv, FinShape, Healed, Reported
  <2> QED
    BY <1>9, <2>1, <2>2, <2>3, <2>4 DEF f, Arrive
<1>10. CASE writeJobLog("fin")
  <2>1. f.pc = "write" /\ UNCHANGED <<live, status>> /\ db' = IF f.full # <<>> THEN f.full ELSE f.seen
    BY <1>10 DEF f, writeJobLog, At
  <2>2. CASE f.kind = "event"
    <3>1. g.pc = "none" /\ \A t \in Posts : hs'[t] = hs[t]
      BY <1>7, <1>10, <2>2 DEF f, writeJobLog
    <3>2. status = "finished" /\ ~late /\ job.wf # <<>> =>
            f.seen \in {job.wf, Official} /\ f.full = <<>> /\ live \in {<<>>, job.wf, Official}
      BY <2>1, <2>2 DEF f, FinInv, Healed
    <3> QED
      BY <1>1, <1>3, <1>4, <2>1, <2>2, <3>1, <3>2 DEF f, g, FinInv, FinShape, Healed, Reported
  <2>3. CASE f.kind = "fin"
    <3>1. g.pc = "live" /\ g.kind = "fin" /\ g.full = f.full /\ \A t \in Posts : hs'[t] = hs[t]
      BY <1>6, <1>10, <2>3 DEF f, writeJobLog, MoveTo
    <3>2. f.full = job.wf
      BY <1>1, <2>3 DEF f, FinInv, FinShape
    <3> QED
      BY <1>1, <1>3, <1>4, <2>1, <2>3, <3>1, <3>2 DEF g, FinInv, FinShape, Healed, Reported
  <2> QED
    BY <2>1, <2>2, <2>3 DEF f, FinInv, FinShape
<1>11. CASE rememberWorkflow("fin")
  <2>1. f.pc = "live" /\ UNCHANGED <<db, status>> /\ f.kind = "fin" /\ f.full = job.wf
    BY <1>1, <1>11 DEF f, rememberWorkflow, At, FinInv, FinShape
  <2>2. job.wf # <<>> => WorkflowOf("fin") = job.wf
    BY <2>1 DEF f, WorkflowOf
  <2>3. status = "finished" /\ ~late /\ job.wf # <<>> => db \in {job.wf, Official}
    BY <2>1 DEF f, FinInv, Healed
  <2>4. CASE WorkflowOf("fin") = <<>>
    <3>1. g.pc = "event" /\ g.kind = "event" /\ g.full = <<>> /\ \A t \in Posts : hs'[t] = hs[t]
      BY <1>8, <1>11, <2>1, <2>4 DEF rememberWorkflow
    <3>2. job.wf = <<>>
      BY <2>2, <2>4
    <3> QED
      BY <1>1, <1>3, <1>4, <2>1, <3>1, <3>2 DEF g, FinInv, FinShape, Healed, Reported
  <2>5. CASE WorkflowOf("fin") # <<>>
    <3>1. /\ g.pc = "store" /\ g.kind = "fin" /\ g.full = job.wf /\ g.seen = WorkflowOf("fin")
          /\ \A t \in Posts : hs'[t] = hs[t] /\ live' = WorkflowOf("fin")
      BY <1>6, <1>11, <2>1, <2>5 DEF rememberWorkflow, MoveTo
    <3>2. job.wf # <<>> => g.seen = job.wf /\ live' = job.wf
      BY <1>11, <2>2, <2>5, <3>1 DEF rememberWorkflow
    <3> QED
      BY <1>1, <1>3, <1>4, <2>1, <2>3, <3>1, <3>2 DEF g, FinInv, FinShape, Healed, Reported
  <2> QED
    BY <2>4, <2>5
<1>12. CASE applyLiveAppend("fin")
  BY <1>12 DEF applyLiveAppend, At, FinInv, FinShape
<1>13. CASE SetWorkflowLog("fin")
  <2>1. f.pc = "store" /\ UNCHANGED <<live, status>> /\ f.kind = "fin" /\ db' = f.seen
    BY <1>13 DEF f, SetWorkflowLog, At, FinInv, FinShape
  <2>2. g.pc = "event" /\ g.kind = "event" /\ g.full = <<>> /\ \A t \in Posts : hs'[t] = hs[t]
    BY <1>8, <1>13, <2>1 DEF SetWorkflowLog
  <2>3. status = "finished" /\ ~late /\ job.wf # <<>> =>
          db' = job.wf /\ live \in {<<>>, job.wf, Official}
    BY <2>1 DEF f, FinInv, Healed
  <2> QED
    BY <1>1, <1>3, <1>4, <2>1, <2>2, <2>3 DEF g, FinInv, FinShape, Healed, Reported
<1>14. CASE AppendJobEvent("fin")
  <2>1. f.pc = "event" /\ UNCHANGED <<live, db, status>> /\ f.full = <<>>
    BY <1>14 DEF f, AppendJobEvent, At, FinInv, FinShape
  <2>2. /\ g.pc = "write" /\ g.kind = "event" /\ g.full = <<>> /\ g.seen = db
        /\ \A t \in Posts : hs'[t] = hs[t]
    BY <1>5, <1>14, <2>1 DEF AppendJobEvent
  <2>3. status = "finished" /\ ~late /\ job.wf # <<>> =>
          db \in {job.wf, Official} /\ live \in {<<>>, job.wf, Official}
    BY <2>1 DEF f, FinInv, Healed
  <2> QED
    BY <1>1, <1>3, <1>4, <2>1, <2>2, <2>3 DEF g, FinInv, FinShape, Healed, Reported
<1> QED
  BY <1>9, <1>10, <1>11, <1>12, <1>13, <1>14 DEF HandlerStep

LEMMA FinInvariant == LogsSpec => []FinInv
<1>1. LogsInit => FinInv
  <2> SUFFICES ASSUME LogsInit PROVE FinInv
    OBVIOUS
  <2>1. status = "started" /\ \A s \in Slots : hs[s].pc = "none"
    BY DEF LogsInit, Idle
  <2> QED
    BY <2>1, FinSlot DEF FinInv, FinShape, PostsQuiet, Healed, Reported
<1>2. Typed /\ FinInv /\ [LogsNext]_logVars => FinInv'
  <2> SUFFICES ASSUME Typed, FinInv, [LogsNext]_logVars PROVE FinInv'
    OBVIOUS
  <2> USE DEF guestVars, hostVars, agentVars, controlVars
  <2>1. CASE GuestStep
    BY <2>1, FinUntouched DEF GuestStep, collect_live_workflow, send_workflow_stream, publish_live_logs,
      RunnerExits, write_exit
  <2>2. CASE MailboxStep
    BY <2>2, FinUntouched DEF MailboxStep, WriteChunk, ApplyMailboxMessage, Lose
  <2>3. CASE ensureWorkflowLog
    <3>1. live' = Official /\ db' = Official /\ UNCHANGED <<hs, job, status, late>>
      BY <2>3 DEF ensureWorkflowLog
    <3> QED
      BY <3>1 DEF FinInv, FinShape, PostsQuiet, Healed, Reported
  <2>4. CASE ControlRestart
    <3>1. /\ live' = <<>> /\ late' = (late \/ hs["fin"].pc # "none") /\ UNCHANGED <<job, db, status>>
          /\ \A s \in Slots : hs'[s].pc = "none"
      BY <2>4 DEF ControlRestart, Idle
    <3>2. FinShape' /\ PostsQuiet'
      BY <3>1, FinSlot DEF FinInv, FinShape, PostsQuiet, Reported
    <3>3. Healed'
      BY <3>1, FinSlot DEF FinInv, Healed
    <3> QED
      BY <3>2, <3>3 DEF FinInv
  <2>5. CASE UNCHANGED logVars
    BY <2>5, FinUntouched DEF logVars
  <2>6. CASE \E s \in Slots : HandlerStep(s)
    BY <2>6, FinPosts, FinFin DEF Slots
  <2>7. CASE StreamStep
    BY <2>7, FinStream DEF StreamStep
  <2> QED
    BY <2>1, <2>2, <2>3, <2>4, <2>5, <2>6, <2>7, FinAgent DEF LogsNext, ControlStep
<1> QED
  BY <1>1, <1>2, TypedInvariant, PTL DEF LogsSpec

\* handleJobFinished heals: whatever the uploads of the stream had left in the live copy
\* and in the row, once the report's handler is done both hold the collected text or
\* GitHub's, provided no other handler of the job and no restart came in between.
THEOREM ReportHeals == LogsSpec => []FinishHeals
<1>1. FinInv => FinishHeals
  <2> SUFFICES ASSUME FinInv, Active = {} PROVE FinishHeals
    BY DEF FinishHeals
  <2>1. hs["fin"].pc = "none"
    BY FinSlot DEF Active
  <2> QED
    BY <2>1 DEF FinInv, Healed, FinishHeals
<1> QED
  BY <1>1, FinInvariant, PTL

-----------------------------------------------------------------------------
(* Copies of the guest's log. *)

(* t holds the pieces after the place off of a log of k pieces. *)
Piece(k, off, t) ==
  /\ off + Len(t) <= k
  /\ \A i \in 1..Len(t) : t[i] = off + i

(* What a request brought. *)
Sent(k, r) == Piece(k, 0, r.full) /\ Piece(k, r.off, r.app)

GuestCopies == Piece(Len(guest.text), 0, guest.text) /\ Piece(Len(guest.text), 0, inject.log)

(* A chunk that waits to be written starts in the file or at its end. *)
MailCopies ==
  /\ \A m \in net : m.type = "wf" => Piece(Len(guest.text), m.off, m.text)
  /\ Piece(Len(guest.text), 0, host.log)
  /\ Piece(Len(guest.text), chunk.off, chunk.text) /\ chunk.off <= Len(host.log)

AgentCopies ==
  /\ Piece(Len(guest.text), 0, job.wf) /\ Piece(Len(guest.text), 0, lastWF)
  /\ \A s \in Slots : Sent(Len(guest.text), hs[s])

ControlCopies ==
  /\ \A s \in Slots : Piece(Len(guest.text), 0, hs[s].seen)
  /\ Piece(Len(guest.text), 0, live) /\ Piece(Len(guest.text), 0, db)

Copies == GuestCopies /\ MailCopies /\ AgentCopies /\ (~fetched => ControlCopies)

LEMMA PieceGrows ==
  ASSUME NEW k \in Nat, NEW l \in Nat, k <= l, NEW off \in 0..MaxLen, NEW t \in Text, Piece(k, off, t)
  PROVE  Piece(l, off, t)
<1>1. Len(t) \in Nat /\ off \in Nat
  BY TextFacts, LogConstants
<1> QED
  BY <1>1 DEF Piece

LEMMA PieceEmpty == \A k \in Nat : Piece(k, 0, <<>>) /\ Sent(k, Idle)
BY EmptyTyped DEF Piece, Sent, Idle

LEMMA NoChunkFits ==
  /\ \A k \in Nat : Piece(k, NoChunk.off, NoChunk.text)
  /\ \A t \in Text : NoChunk.off <= Len(t)
<1>1. NoChunk.off = 0 /\ NoChunk.text = <<>>
  BY DEF NoChunk
<1>2. \A t \in Text : 0 <= Len(t)
  BY TextFacts, LogConstants
<1> QED
  BY <1>1, <1>2, PieceEmpty

LEMMA PieceRest ==
  ASSUME NEW k \in Nat, NEW t \in Text, NEW n \in 0..Len(t), Piece(k, 0, t)
  PROVE  Piece(k, n, SubSeq(t, n + 1, Len(t)))
<1> DEFINE r == SubSeq(t, n + 1, Len(t))
<1>1. Len(r) = Len(t) - n /\ \A i \in 1..(Len(t) - n) : r[i] = t[n + i]
  BY RestPlaces
<1>2. Len(t) \in Nat /\ Len(t) <= k /\ \A i \in 1..Len(t) : t[i] = i
  BY TextFacts, LogConstants DEF Piece
<1> HIDE DEF r
<1>3. \A i \in 1..(Len(t) - n) : n + i \in 1..Len(t)
  BY <1>2
<1>4. n + Len(r) <= k /\ \A i \in 1..Len(r) : r[i] = n + i
  BY <1>1, <1>2, <1>3
<1>5. Piece(k, n, r)
  BY <1>4 DEF Piece
<1> QED
  BY <1>5 DEF r

LEMMA PieceWrite ==
  ASSUME NEW k \in Nat, NEW file \in Text, NEW c \in Chunks,
         Piece(k, 0, file), Piece(k, c.off, c.text), c.off <= Len(file)
  PROVE  Piece(k, 0, WriteAt(file, c.off, c.text)) 
<1> DEFINE off == c.off
           text == c.text
           w == WriteAt(file, off, text)
<1>1. off \in 0..MaxLen /\ text \in Text /\ off + Len(text) <= MaxLen
  BY DEF Chunks
<1>2. off \in Nat /\ Len(text) \in Nat /\ Len(file) \in Nat
  BY <1>1, TextFacts, LogConstants
<1>3. /\ Len(w) = IF Len(file) >= off + Len(text) THEN Len(file) ELSE off + Len(text)
      /\ \A i \in 1..Len(w) :
           w[i] = IF i \in (off + 1)..(off + Len(text)) THEN text[i - off]
                  ELSE IF i <= Len(file) THEN file[i] ELSE Hole
  BY <1>1, WriteAtPlaces
<1>4. /\ Len(file) <= k /\ \A i \in 1..Len(file) : file[i] = i
      /\ off + Len(text) <= k /\ \A i \in 1..Len(text) : text[i] = off + i
      /\ off <= Len(file)
  BY <1>2 DEF Piece
<1> HIDE DEF off, text, w
<1>5. ASSUME NEW i \in 1..Len(w) PROVE w[i] = i
  <2>1. CASE i \in (off + 1)..(off + Len(text))
    <3>1. i - off \in 1..Len(text) /\ off + (i - off) = i
      BY <1>2, <2>1
    <3> QED
      BY <1>3, <1>4, <2>1, <3>1
  <2>2. CASE i \notin (off + 1)..(off + Len(text))
    <3>1. i \in 1..Len(file) /\ i <= Len(file)
      BY <1>2, <1>3, <1>4, <2>2
    <3> QED
      BY <1>3, <1>4, <2>2, <3>1
  <2> QED
    BY <2>1, <2>2
<1>6. Len(w) \in Nat /\ Len(w) <= k
  BY <1>2, <1>3, <1>4
<1>7. Piece(k, 0, w)
  BY <1>5, <1>6 DEF Piece
<1> QED
  BY <1>7 DEF w, off, text

LEMMA PieceAppend ==
  ASSUME NEW k \in Nat, NEW cur \in Text, NEW r \in Handlers, Piece(k, 0, cur), Sent(k, r)
  PROVE  Piece(k, 0, ApplyWorkflowAppend(cur, r.off, r.app))
<1> DEFINE off == r.off
           text == r.app
           w == ApplyWorkflowAppend(cur, off, text)
<1>1. off \in 0..MaxLen /\ text \in Text /\ off + Len(text) <= MaxLen
  BY DEF Handlers
<1>2. off \in Nat /\ Len(text) \in Nat /\ Len(cur) \in Nat
  BY <1>1, TextFacts, LogConstants
<1>3. \/ w = cur
      \/ /\ off <= Len(cur) /\ w \in Text /\ Len(w) = off + Len(text)
         /\ \A i \in 1..Len(w) : w[i] = IF i <= off THEN cur[i] ELSE text[i - off]
  BY <1>1, AppendPlaces
<1>4. /\ Len(cur) <= k /\ \A i \in 1..Len(cur) : cur[i] = i
      /\ off + Len(text) <= k /\ \A i \in 1..Len(text) : text[i] = off + i
  BY <1>2 DEF Piece, Sent
<1> HIDE DEF off, text, w
<1>5. CASE w = cur
  BY <1>5 DEF w, off, text
<1>6. CASE /\ off <= Len(cur) /\ Len(w) = off + Len(text)
           /\ \A i \in 1..Len(w) : w[i] = IF i <= off THEN cur[i] ELSE text[i - off]
  <2>1. ASSUME NEW i \in 1..Len(w) PROVE w[i] = i
    <3>1. CASE i <= off
      <4>1. i \in 1..Len(cur)
        BY <1>2, <1>6, <3>1
      <4> QED
        BY <1>4, <1>6, <3>1, <4>1
    <3>2. CASE ~(i <= off)
      <4>1. i - off \in 1..Len(text) /\ off + (i - off) = i
        BY <1>2, <1>6, <3>2
      <4> QED
        BY <1>4, <1>6, <3>2, <4>1
    <3> QED
      BY <3>1, <3>2
  <2>2. Piece(k, 0, w)
    BY <1>2, <1>4, <1>6, <2>1 DEF Piece
  <2> QED
    BY <2>2 DEF w, off, text
<1> QED
  BY <1>3, <1>5, <1>6

LEMMA PieceIsPrefix ==
  ASSUME NEW g \in Text, NEW t \in Text, Piece(Len(g), 0, g), Piece(Len(g), 0, t)
  PROVE  IsPrefix(t, g)
<1>1. /\ Len(g) \in Nat /\ Len(t) \in Nat /\ Len(t) <= Len(g)
      /\ \A i \in 1..Len(g) : g[i] = i
      /\ \A i \in 1..Len(t) : t[i] = i
  BY TextFacts, LogConstants DEF Piece
<1>2. Len(t) \in 0..Len(g) /\ 1 \in 1..(MaxLen + 1)
  BY <1>1, LogConstants
<1> DEFINE p == SubSeq(g, 1, Len(t))
<1>3. /\ p \in Seq(Hole..GitHub)
      /\ Len(p) = IF 1 <= Len(t) THEN Len(t) - 1 + 1 ELSE 0
      /\ \A i \in 1..(Len(t) - 1 + 1) : p[i] = g[1 + i - 1]
  BY <1>2, CutPlaces
<1>4. SubSeq(t, 1, Len(t)) = t
  BY WholeText
<1> HIDE DEF p
<1>5. Len(p) = Len(t)
  BY <1>1, <1>3
<1>6. ASSUME NEW i \in 1..Len(t) PROVE p[i] = t[i]
  <2>1. p[i] = g[i] /\ i \in 1..Len(g)
    BY <1>1, <1>3
  <2> QED
    BY <1>1, <2>1
<1>7. p = t
  BY <1>3, <1>5, <1>6, SeqEqual DEF Text
<1> QED
  BY <1>1, <1>4, <1>7 DEF p, IsPrefix

(* The guest's log grows, and no copy changes. *)
LEMMA GrowthKeepsCopies ==
  ASSUME Typed, Copies, collect_live_workflow
  PROVE  Copies'
<1> DEFINE k == Len(guest.text)
           l == Len(guest'.text)
<1>1. /\ guest' = [guest EXCEPT !.text = Append(@, Len(@) + 1)] /\ k < MaxLen /\ guest.text \in Text
      /\ UNCHANGED <<inject, net, host, chunk, job, lastWF, hs, live, db, fetched>>
  BY DEF collect_live_workflow, Typed, GuestTyped, hostVars, agentVars, controlVars
<1>2. guest'.text = Append(guest.text, k + 1)
  BY <1>1 DEF Typed, GuestTyped
<1>3. /\ l = k + 1
      /\ \A i \in 1..(k + 1) : guest'.text[i] = IF i <= k THEN guest.text[i] ELSE k + 1
  BY <1>1, <1>2, GrownPlaces
<1>4. k \in Nat /\ 0 \in 0..MaxLen
  BY <1>1, TextFacts, LogConstants
<1>5. /\ Piece(k, 0, guest.text) /\ Piece(k, 0, inject.log)
      /\ \A m \in net : m.type = "wf" => Piece(k, m.off, m.text)
      /\ Piece(k, 0, host.log) /\ Piece(k, chunk.off, chunk.text) /\ chunk.off <= Len(host.log)
      /\ Piece(k, 0, job.wf) /\ Piece(k, 0, lastWF)
      /\ \A s \in Slots : Sent(k, hs[s])
      /\ ~fetched => /\ \A s \in Slots : Piece(k, 0, hs[s].seen)
                     /\ Piece(k, 0, live) /\ Piece(k, 0, db)
  BY DEF Copies, GuestCopies, MailCopies, AgentCopies, ControlCopies
<1>6. /\ inject.log \in Text /\ host.log \in Text /\ job.wf \in Text /\ lastWF \in Text
      /\ live \in Text /\ db \in Text /\ chunk.off \in 0..MaxLen /\ chunk.text \in Text
      /\ \A s \in Slots : /\ hs[s].full \in Text /\ hs[s].app \in Text /\ hs[s].off \in 0..MaxLen
                           /\ hs[s].seen \in Text
      /\ \A m \in net : m.type = "wf" => m.off \in 0..MaxLen /\ m.text \in Text
  BY DEF Typed, GuestTyped, HostTyped, AgentTyped, ControlTyped, Messages, Chunks, Handlers
<1>7. Piece(l, 0, guest'.text)
  <2>1. \A i \in 1..k : guest.text[i] = i
    BY <1>4, <1>5 DEF Piece
  <2>2. ASSUME NEW i \in 1..l PROVE guest'.text[i] = 0 + i
    BY <1>3, <1>4, <2>1
  <2>3. 0 + l <= l
    BY <1>3, <1>4
  <2> QED
    BY <2>2, <2>3 DEF Piece
<1>8. l \in Nat /\ k <= l
  BY <1>3, <1>4
<1> HIDE DEF k, l
<1>9. ASSUME NEW off \in 0..MaxLen, NEW t \in Text PROVE Piece(k, off, t) => Piece(l, off, t)
  BY <1>4, <1>8, PieceGrows
<1>10. \A s \in Slots : Sent(l, hs[s])
  BY <1>4, <1>5, <1>6, <1>9 DEF Sent
<1>11. GuestCopies'
  BY <1>1, <1>4, <1>5, <1>6, <1>7, <1>9 DEF GuestCopies, l
<1>12. MailCopies'
  BY <1>1, <1>4, <1>5, <1>6, <1>9 DEF MailCopies, l
<1>13. AgentCopies'
  BY <1>1, <1>4, <1>5, <1>6, <1>9, <1>10 DEF AgentCopies, l
<1>14. (~fetched => ControlCopies)'
  BY <1>1, <1>4, <1>5, <1>6, <1>9 DEF ControlCopies, l
<1> QED
  BY <1>11, <1>12, <1>13, <1>14 DEF Copies

LEMMA GuestCopied ==
  ASSUME Typed, Copies, GuestStep, ~collect_live_workflow
  PROVE  Copies'
<1> DEFINE k == Len(guest.text)
<1>1. /\ guest.text \in Text /\ guest.sent \in 0..k /\ k \in Nat
      /\ Piece(k, 0, guest.text) /\ Piece(k, 0, inject.log)
  <2>1. guest.text \in Text /\ guest.sent \in Nat /\ guest.sent <= k
    BY LogConstants DEF Typed, GuestTyped
  <2> QED
    BY <2>1, TextFacts, LogConstants DEF Copies, GuestCopies
<1>2. Piece(k, Frame.off, Frame.text) /\ Frame.type = "wf"
  BY <1>1, PieceRest DEF Frame
<1>3. [type |-> "exit"].type # "wf"
  OBVIOUS
<1>4. /\ UNCHANGED <<host, chunk, job, lastWF, hs, live, db, fetched>>
      /\ guest'.text = guest.text
      /\ inject'.log \in {inject.log, guest.text}
      /\ net' \in {net, net \cup {Frame}, net \cup {[type |-> "exit"]}}
  <2> USE DEF hostVars, agentVars, controlVars
  <2>1. ASSUME NEW ex, WriteInject(ex) PROVE inject'.log \in {inject.log, guest.text}
    BY <2>1 DEF WriteInject
  <2>2. CASE send_workflow_stream
    BY <2>2 DEF send_workflow_stream, Typed, GuestTyped
  <2>3. CASE publish_live_logs
    BY <2>1, <2>3 DEF publish_live_logs
  <2>4. CASE RunnerExits
    BY <2>1, <2>4 DEF RunnerExits, Typed, GuestTyped
  <2>5. CASE write_exit
    BY <2>1, <2>5 DEF write_exit, Typed, GuestTyped
  <2> QED
    BY <2>2, <2>3, <2>4, <2>5 DEF GuestStep
<1>5. Len(guest'.text) = k
  BY <1>4
<1>6. \A m \in net : m.type = "wf" => Piece(k, m.off, m.text)
  BY DEF Copies, MailCopies
<1> HIDE DEF k
<1>7. \A m \in net' : m.type = "wf" => Piece(k, m.off, m.text)
  BY <1>2, <1>3, <1>4, <1>6
<1>8. GuestCopies'
  BY <1>1, <1>4, <1>5 DEF GuestCopies
<1>9. MailCopies' /\ AgentCopies' /\ (~fetched => ControlCopies)'
  BY <1>4, <1>5, <1>7 DEF Copies, MailCopies, AgentCopies, ControlCopies, k
<1> QED
  BY <1>8, <1>9 DEF Copies

LEMMA MailboxCopied ==
  ASSUME Typed, Copies, MailboxStep
  PROVE  Copies'
<1> DEFINE k == Len(guest.text)
<1>1. UNCHANGED <<guest, inject, job, lastWF, hs, live, db, fetched>>
  BY DEF MailboxStep, WriteChunk, ApplyMailboxMessage, Lose, guestVars, agentVars, controlVars
<1>2. GuestCopies' /\ AgentCopies' /\ (~fetched => ControlCopies)'
  BY <1>1 DEF Copies, GuestCopies, AgentCopies, ControlCopies
<1>3. /\ \A m \in net : m.type = "wf" => Piece(k, m.off, m.text)
      /\ Piece(k, 0, host.log) /\ Piece(k, chunk.off, chunk.text) /\ chunk.off <= Len(host.log)
  BY DEF Copies, MailCopies
<1>4. k \in Nat /\ host.log \in Text /\ chunk \in Chunks
  BY TextFacts, LogConstants DEF Typed, GuestTyped, HostTyped
<1>5. Len(guest'.text) = k
  BY <1>1
<1> HIDE DEF k
<1>6. ASSUME NEW m \in net, ApplyMailboxMessage(m) PROVE MailCopies'
  <2>1. net' \subseteq net
    BY <1>6 DEF ApplyMailboxMessage
  <2>2. host'.log = host.log
    BY <1>6 DEF ApplyMailboxMessage, ReceiveChunk, ReceiveExit, Typed, HostTyped
  <2>3. Piece(k, chunk'.off, chunk'.text) /\ chunk'.off <= Len(host.log)
    <3>1. CASE ReceiveExit(m)
      BY <1>3, <3>1 DEF ReceiveExit
    <3>2. CASE ReceiveChunk(m)
      <4>1. Piece(k, m.off, m.text)
        BY <1>3, <3>2 DEF ReceiveChunk
      <4>2. chunk' = chunk \/ (chunk' = [off |-> m.off, text |-> m.text] /\ m.off <= Len(host.log))
        BY <3>2 DEF ReceiveChunk, applyWorkflowChunk
      <4> QED
        BY <1>3, <4>1, <4>2
    <3> QED
      BY <1>6, <3>1, <3>2 DEF ApplyMailboxMessage
  <2> QED
    BY <1>3, <1>5, <2>1, <2>2, <2>3 DEF MailCopies
<1>7. CASE WriteChunk
  <2>1. net' = net /\ chunk' = NoChunk
    BY <1>7 DEF WriteChunk
  <2>2. Piece(k, 0, WriteAt(host.log, chunk.off, chunk.text))
    BY <1>3, <1>4, PieceWrite
  <2>3. host'.log \in {host.log, WriteAt(host.log, chunk.off, chunk.text)}
    BY <1>7 DEF WriteChunk, Typed, HostTyped
  <2>4. host'.log \in Text
    BY <1>4, <2>3, WriteAtPlaces DEF Chunks
  <2>5. Piece(k, NoChunk.off, NoChunk.text) /\ NoChunk.off <= Len(host'.log)
    BY <1>4, <2>4, NoChunkFits
  <2>6. Piece(k, 0, host'.log)
    BY <1>3, <2>2, <2>3
  <2>7. Piece(k, chunk'.off, chunk'.text) /\ chunk'.off <= Len(host'.log)
    BY <2>1, <2>5
  <2>8. \A m \in net' : m.type = "wf" => Piece(k, m.off, m.text)
    BY <1>3, <2>1
  <2> QED
    BY <1>2, <1>5, <2>6, <2>7, <2>8 DEF Copies, MailCopies
<1>8. ASSUME NEW m \in net, Lose(m) PROVE MailCopies'
  <2>1. net' \subseteq net /\ UNCHANGED <<host, chunk>>
    BY <1>8 DEF Lose
  <2> QED
    BY <1>3, <1>5, <2>1 DEF MailCopies
<1> QED
  BY <1>2, <1>6, <1>7, <1>8 DEF MailboxStep, Copies

LEMMA InjectCopied ==
  ASSUME ~TornCopies, Typed, Copies, NEW ex, CopyInjectFiles(ex), UNCHANGED <<guest, net, chunk>>
  PROVE  MailCopies'
<1> DEFINE k == Len(guest.text)
<1>1. /\ \A m \in net : m.type = "wf" => Piece(k, m.off, m.text)
      /\ Piece(k, 0, host.log) /\ Piece(k, chunk.off, chunk.text) /\ chunk.off <= Len(host.log)
      /\ Piece(k, 0, inject.log)
  BY DEF Copies, MailCopies, GuestCopies
<1>2. k \in Nat /\ host.log \in Text /\ inject.log \in Text /\ Len(guest'.text) = k
  BY TextFacts, LogConstants DEF Typed, GuestTyped, HostTyped
<1> HIDE DEF k
<1>3. CASE host' = host
  BY <1>1, <1>2, <1>3 DEF MailCopies
<1>4. CASE host' # host
  <2>1. chunk = NoChunk /\ host'.log \in {host.log, inject.log}
    BY <1>4 DEF CopyInjectFiles, Typed, HostTyped
  <2>2. chunk'.off <= Len(host'.log) /\ Piece(k, chunk'.off, chunk'.text)
    BY <1>2, <2>1, NoChunkFits
  <2> QED
    BY <1>1, <1>2, <2>1, <2>2 DEF MailCopies
<1> QED
  BY <1>3, <1>4

LEMMA DestroyCopied ==
  ASSUME ~TornCopies, Typed, Copies, NEW M \in SUBSET net, DestroyVM(M)
  PROVE  GuestCopies' /\ MailCopies' /\ Len(guest'.text) = Len(guest.text)
<1> DEFINE k == Len(guest.text)
<1>1. k \in Nat /\ guest'.text = guest.text
  BY TextFacts, LogConstants DEF Typed, GuestTyped, DestroyVM
<1>2. /\ \A m \in net : m.type = "wf" => Piece(k, m.off, m.text)
      /\ Piece(k, 0, guest.text)
  BY DEF Copies, MailCopies, GuestCopies
<1>3. inject'.log = <<>> /\ host'.log = <<>> /\ net' \subseteq net /\ chunk' = NoChunk
  BY DEF DestroyVM
<1>4. Len(guest'.text) = k
  BY <1>1
<1> HIDE DEF k
<1>5. Piece(k, 0, <<>>) /\ Piece(k, NoChunk.off, NoChunk.text) /\ NoChunk.off <= Len(<<>>)
  BY <1>1, PieceEmpty, NoChunkFits, EmptyTyped
<1> QED
  BY <1>1, <1>2, <1>3, <1>4, <1>5 DEF GuestCopies, MailCopies, k

LEMMA AgentCopied ==
  ASSUME ~TornCopies, Typed, Copies, AgentStep
  PROVE  Copies'
<1> DEFINE k == Len(guest.text)
<1> USE DEF guestVars, hostVars, agentVars, controlVars
<1>1. /\ k \in Nat /\ Piece(k, 0, <<>>) /\ Piece(k, 0, host.log)
      /\ Piece(k, 0, job.wf) /\ Piece(k, 0, lastWF) /\ \A s \in Slots : Sent(k, hs[s])
  BY PieceEmpty, TextFacts, LogConstants DEF Typed, GuestTyped, Copies, MailCopies, AgentCopies
<1>2. CASE WaitRunner \/ SlowPoll
  <2>1. MailCopies'
    BY <1>2, InjectCopied DEF WaitRunner, SlowPoll
  <2>2. /\ UNCHANGED <<guest, inject, hs, live, db, fetched>>
        /\ job'.wf = job.wf /\ lastWF' \in {lastWF, <<>>}
    BY <1>2 DEF WaitRunner, SlowPoll, stopStream, Typed, AgentTyped
  <2> HIDE DEF k
  <2> QED
    BY <1>1, <2>1, <2>2 DEF k, Copies, GuestCopies, AgentCopies, ControlCopies
<1>3. CASE Deadline \/ CollectJobLogs
  <2>1. /\ UNCHANGED <<guest, inject, net, host, chunk, hs, live, db, fetched>>
        /\ job'.wf \in {job.wf, host.log} /\ lastWF' \in {lastWF, <<>>}
    BY <1>3 DEF Deadline, CollectJobLogs, stopStream, Typed, AgentTyped
  <2> HIDE DEF k
  <2> QED
    BY <1>1, <2>1 DEF k, Copies, GuestCopies, MailCopies, AgentCopies, ControlCopies
<1>4. CASE ReportFinished
  <2> DEFINE r == [Idle EXCEPT !.pc = "net", !.kind = "fin", !.full = job.wf]
  <2>1. GuestCopies' /\ MailCopies' /\ Len(guest'.text) = k
    BY <1>4, DestroyCopied DEF ReportFinished
  <2>2. r.full = job.wf /\ r.app = <<>> /\ r.off = 0 /\ r.seen = <<>>
    BY DEF Idle
  <2>3. /\ UNCHANGED <<lastWF, live, db, fetched>> /\ job'.wf = job.wf
        /\ hs' = hs \/ hs' = [hs EXCEPT !["fin"] = r]
    BY <1>4 DEF ReportFinished, Typed, AgentTyped
  <2>4. Sent(k, r) /\ Piece(k, 0, r.seen)
    BY <1>1, <2>2 DEF Sent
  <2> HIDE DEF k, r
  <2>5. \A s \in Slots : hs'[s] = hs[s] \/ hs'[s] = r
    BY <2>3 DEF Typed, ControlTyped
  <2>6. AgentCopies'
    BY <1>1, <2>1, <2>3, <2>4, <2>5 DEF AgentCopies
  <2>7. (~fetched => ControlCopies)'
    BY <2>1, <2>3, <2>4, <2>5 DEF Copies, ControlCopies, k
  <2> QED
    BY <2>1, <2>6, <2>7 DEF Copies
<1>5. CASE KillVM
  <2>1. /\ UNCHANGED <<guest, inject, net, chunk, job, lastWF, hs, live, db, fetched>>
        /\ host'.log = host.log
    BY <1>5 DEF KillVM, SignalRunnerStopped, Typed, HostTyped
  <2> QED
    BY <2>1 DEF Copies, GuestCopies, MailCopies, AgentCopies, ControlCopies
<1>6. CASE destroyNow
  <2>1. GuestCopies' /\ MailCopies' /\ Len(guest'.text) = Len(guest.text)
    BY <1>6, DestroyCopied DEF destroyNow
  <2>2. UNCHANGED <<job, lastWF, hs, live, db, fetched>>
    BY <1>6 DEF destroyNow
  <2> QED
    BY <2>1, <2>2 DEF Copies, AgentCopies, ControlCopies
<1> QED
  BY <1>2, <1>3, <1>4, <1>5, <1>6 DEF AgentStep

(* An upload brings the whole file or its rest. *)
LEMMA UploadCopied ==
  ASSUME NEW k \in Nat, NEW prev \in Text, NEW cur \in Text, Piece(k, 0, cur)
  PROVE  LET r == nextWorkflowUpload(prev, cur) IN Sent(k, r) /\ r.seen = <<>>
<1>1. ASSUME NEW full, NEW app, NEW off
      PROVE  LET r == Request(full, app, off)
             IN  r.full = full /\ r.app = app /\ r.off = off /\ r.seen = <<>>
  BY DEF Request, Idle
<1>2. Piece(k, 0, <<>>) /\ Len(prev) \in Nat /\ Len(cur) \in Nat
  BY PieceEmpty, TextFacts, LogConstants
<1>3. CASE prev # <<>> /\ IsPrefix(prev, cur)
  <2>1. Len(prev) \in 0..Len(cur)
    BY <1>2, <1>3 DEF IsPrefix
  <2>2. Piece(k, Len(prev), SubSeq(cur, Len(prev) + 1, Len(cur)))
    BY <2>1, PieceRest
  <2>3. nextWorkflowUpload(prev, cur) = Request(<<>>, SubSeq(cur, Len(prev) + 1, Len(cur)), Len(prev))
    BY <1>3 DEF nextWorkflowUpload
  <2> QED
    BY <1>1, <1>2, <2>2, <2>3 DEF Sent
<1>4. CASE ~(prev # <<>> /\ IsPrefix(prev, cur))
  <2>1. nextWorkflowUpload(prev, cur) = Request(cur, <<>>, 0)
    BY <1>4 DEF nextWorkflowUpload
  <2> QED
    BY <1>1, <1>2, <2>1 DEF Sent
<1> QED
  BY <1>3, <1>4

LEMMA StreamCopied ==
  ASSUME Typed, Copies, NEW s \in Posts, StreamFast(s) \/ StreamSlow(s) \/ PostLost(s)
  PROVE  Copies'
<1> DEFINE k == Len(guest.text)
<1> USE DEF guestVars, hostVars, agentVars
<1>1. /\ k \in Nat /\ Piece(k, 0, <<>>) /\ Piece(k, 0, host.log)
      /\ Piece(k, 0, job.wf) /\ Piece(k, 0, lastWF) /\ \A t \in Slots : Sent(k, hs[t])
      /\ Sent(k, Idle) /\ Idle.seen = <<>>
  BY PieceEmpty, TextFacts, LogConstants DEF Typed, GuestTyped, Copies, MailCopies, AgentCopies, Idle
<1>2. UNCHANGED <<guest, inject, net, host, chunk, job, live, db, fetched>>
  BY DEF StreamFast, StreamSlow, PostLost
<1>3. /\ Piece(k, 0, lastWF')
      /\ \E r : hs' = [hs EXCEPT ![s] = r] /\ Sent(k, r) /\ r.seen = <<>>
  <2>1. CASE StreamFast(s)
    <3>1. LET r == nextWorkflowUpload(lastWF, host.log) IN Sent(k, r) /\ r.seen = <<>>
      BY <1>1, UploadCopied DEF Typed, HostTyped, AgentTyped
    <3> QED
      BY <1>1, <2>1, <3>1 DEF StreamFast, Send
  <2>2. CASE StreamSlow(s)
    <3> DEFINE wf == IF Len(host.log) < Len(lastWF) THEN <<>> ELSE host.log
               r == Request(wf, <<>>, 0)
    <3>1. hs' = [hs EXCEPT ![s] = r] /\ lastWF' \in {wf, lastWF}
      BY <2>2 DEF StreamSlow, Send
    <3>2. r.full = wf /\ r.app = <<>> /\ r.off = 0 /\ r.seen = <<>>
      BY DEF Request, Idle
    <3>3. Piece(k, 0, wf)
      BY <1>1
    <3> HIDE DEF wf, r
    <3>4. Sent(k, r)
      BY <1>1, <3>2, <3>3 DEF Sent
    <3> QED
      BY <1>1, <3>1, <3>2, <3>3, <3>4
  <2>3. CASE PostLost(s)
    <3>1. hs' = [hs EXCEPT ![s] = Idle] /\ lastWF' = lastWF
      BY <2>3 DEF PostLost
    <3> QED
      BY <1>1, <3>1
  <2> QED
    BY <2>1, <2>2, <2>3
<1>4. PICK r : hs' = [hs EXCEPT ![s] = r] /\ Sent(k, r) /\ r.seen = <<>>
  BY <1>3
<1>5. \A t \in Slots : hs'[t] = hs[t] \/ hs'[t] = r
  BY <1>4 DEF Typed, ControlTyped
<1>6. GuestCopies' /\ MailCopies'
  BY <1>2 DEF Copies, GuestCopies, MailCopies
<1>7. Len(guest'.text) = k
  BY <1>2
<1> HIDE DEF k
<1>8. AgentCopies'
  BY <1>1, <1>2, <1>3, <1>4, <1>5, <1>7 DEF AgentCopies
<1>9. (~fetched => ControlCopies)'
  BY <1>1, <1>2, <1>4, <1>5, <1>7 DEF Copies, ControlCopies, k
<1> QED
  BY <1>6, <1>8, <1>9 DEF Copies

LEMMA HandlerCopied ==
  ASSUME Typed, Copies, NEW s \in Slots, HandlerStep(s)
  PROVE  Copies'
<1> DEFINE k == Len(guest.text)
           Seen(t) == ~fetched => Piece(k, 0, t)
           Keeps == /\ hs'[s].full = hs[s].full /\ hs'[s].app = hs[s].app /\ hs'[s].off = hs[s].off
                    /\ Seen(hs'[s].seen)
                    /\ \A u \in Slots \ {s} : hs'[u] = hs[u]
           Ends == /\ Sent(k, hs'[s]) /\ hs'[s].seen = <<>>
                   /\ \A u \in Slots \ {s} : hs'[u] = hs[u]
<1> USE DEF guestVars, hostVars, agentVars
<1>1. k \in Nat /\ Piece(k, 0, <<>>) /\ \A t \in Slots : Sent(k, hs[t])
  BY PieceEmpty, TextFacts, LogConstants DEF Typed, GuestTyped, Copies, AgentCopies
<1>2. UNCHANGED <<guest, inject, net, host, chunk, job, lastWF, fetched>>
  BY DEF HandlerStep, Arrive, writeJobLog, rememberWorkflow, applyLiveAppend, SetWorkflowLog,
         AppendJobEvent
<1>3. Seen(live) /\ Seen(db) /\ \A t \in Slots : Seen(hs[t].seen)
  BY DEF Copies, ControlCopies
<1>4. ControlTyped /\ hs[s] \in Handlers /\ live \in Text /\ db \in Text
  BY DEF Typed, ControlTyped
<1>5. Piece(k, 0, hs[s].full) /\ Seen(hs[s].full) /\ Seen(<<>>)
  BY <1>1 DEF Sent
<1>6. ~fetched => Piece(k, 0, ApplyWorkflowAppend(hs[s].seen, hs[s].off, hs[s].app))
  BY <1>1, <1>3, <1>4, PieceAppend DEF Handlers
<1>7. GuestCopies' /\ MailCopies' /\ Len(guest'.text) = k
  BY <1>2 DEF Copies, GuestCopies, MailCopies
<1>8. Becomes(s, Idle) => Ends
  BY <1>1, <1>4, PieceEmpty, BecomesSlot DEF Idle
<1>9. Becomes(s, Done(s)) => Ends
  <2> DEFINE d == [Idle EXCEPT !.pc = "event", !.kind = "event"]
  <2>1. d.full = <<>> /\ d.app = <<>> /\ d.off = 0 /\ d.seen = <<>>
    BY DEF Idle
  <2>2. Sent(k, d)
    BY <1>1, <2>1 DEF Sent
  <2>3. Done(s) \in {d, Idle}
    BY DEF Done
  <2> HIDE DEF d, k
  <2>4. Becomes(s, d) => Ends
    BY <1>4, <2>1, <2>2, BecomesSlot
  <2> QED
    BY <1>8, <2>3, <2>4
<1>10. ASSUME NEW pc, NEW kind, NEW t, Read(s, pc, kind, t), Seen(t) PROVE Keeps
  BY <1>4, <1>10, ReadSlot
<1>11. ASSUME NEW pc, NEW t, MoveTo(s, pc, t), Seen(t) PROVE Keeps
  BY <1>4, <1>11, MoveSlot
<1> HIDE DEF k, Keeps, Ends
<1>12. (Keeps \/ Ends) /\ Seen(live') /\ Seen(db')
  <2>1. CASE Arrive(s)
    <3>1. Seen(IF live # <<>> THEN live ELSE db)
      BY <1>3
    <3> HIDE DEF Seen
    <3> QED
      BY <1>3, <1>8, <1>10, <2>1, <3>1 DEF Arrive
  <2>2. CASE writeJobLog(s)
    <3>1. db' \in {hs[s].full, hs[s].seen} /\ live' = live
      BY <2>2 DEF writeJobLog
    <3>2. Becomes(s, Idle) \/ MoveTo(s, "live", <<>>)
      BY <2>2 DEF writeJobLog, MoveTo
    <3> HIDE DEF Seen
    <3> QED
      BY <1>3, <1>5, <1>8, <1>11, <3>1, <3>2
  <2>3. CASE rememberWorkflow(s)
    <3>1. Seen(WorkflowOf(s))
      BY <1>3, <1>5 DEF WorkflowOf
    <3>2. live' \in {live, WorkflowOf(s)} /\ db' = db
      BY <2>3 DEF rememberWorkflow
    <3>3. Becomes(s, Done(s)) \/ MoveTo(s, "store", WorkflowOf(s))
      BY <2>3 DEF rememberWorkflow, MoveTo
    <3> HIDE DEF Seen
    <3> QED
      BY <1>3, <1>9, <1>11, <3>1, <3>2, <3>3
  <2>4. CASE applyLiveAppend(s)
    <3> DEFINE next == ApplyWorkflowAppend(hs[s].seen, hs[s].off, hs[s].app)
    <3>1. Seen(next)
      BY <1>6
    <3>2. live' \in {live, next} /\ db' = db /\ (Becomes(s, Idle) \/ MoveTo(s, "store", next))
      BY <2>4 DEF applyLiveAppend, MoveTo
    <3> HIDE DEF Seen, next
    <3> QED
      BY <1>3, <1>8, <1>11, <3>1, <3>2
  <2>5. CASE SetWorkflowLog(s)
    <3>1. live' = live /\ db' = hs[s].seen /\ Becomes(s, Done(s))
      BY <2>5 DEF SetWorkflowLog
    <3> HIDE DEF Seen
    <3> QED
      BY <1>3, <1>9, <3>1
  <2>6. CASE AppendJobEvent(s)
    <3>1. live' = live /\ db' = db /\ Read(s, "write", "event", db)
      BY <2>6 DEF AppendJobEvent
    <3> HIDE DEF Seen
    <3> QED
      BY <1>3, <1>10, <3>1
  <2> QED
    BY <2>1, <2>2, <2>3, <2>4, <2>5, <2>6 DEF HandlerStep
<1>13. \A t \in Slots : Sent(k, hs'[t])
  BY <1>1, <1>12 DEF Keeps, Ends, Sent
<1>14. \A t \in Slots : Seen(hs'[t].seen)
  BY <1>1, <1>3, <1>12 DEF Keeps, Ends
<1>15. AgentCopies'
  BY <1>2, <1>7, <1>13 DEF Copies, AgentCopies, k
<1>16. (~fetched => ControlCopies)'
  BY <1>2, <1>7, <1>12, <1>14 DEF ControlCopies
<1> QED
  BY <1>7, <1>15, <1>16 DEF Copies

LEMMA CopiesInit ==
  ASSUME LogsInit
  PROVE  Copies
<1>1. guest.text = <<>> /\ Len(guest.text) = 0 /\ Piece(0, 0, <<>>) /\ Sent(0, Idle)
  BY PieceEmpty, EmptyTyped DEF LogsInit
<1>2. Piece(0, NoChunk.off, NoChunk.text) /\ NoChunk.off <= Len(<<>>)
  BY NoChunkFits, EmptyTyped
<1>3. GuestCopies
  BY <1>1 DEF LogsInit, GuestCopies
<1>4. MailCopies
  BY <1>1, <1>2 DEF LogsInit, MailCopies
<1>5. AgentCopies
  BY <1>1 DEF LogsInit, AgentCopies
<1>6. ControlCopies
  BY <1>1 DEF LogsInit, ControlCopies, Idle
<1> QED
  BY <1>3, <1>4, <1>5, <1>6 DEF Copies

LEMMA CopiesStep ==
  ASSUME ~TornCopies, Typed, Copies, [LogsNext]_logVars
  PROVE  Copies'
<1>1. CASE ensureWorkflowLog
  <2>1. fetched' = TRUE /\ UNCHANGED <<guest, inject, net, host, chunk, job, lastWF, hs>>
    BY <1>1 DEF ensureWorkflowLog, guestVars, hostVars, agentVars
  <2> QED
    BY <2>1 DEF Copies, GuestCopies, MailCopies, AgentCopies
<1>2. CASE ControlRestart
  <2> DEFINE k == Len(guest.text)
  <2>1. /\ UNCHANGED <<guest, inject, net, host, chunk, job, lastWF, db, fetched>>
        /\ live' = <<>> /\ \A s \in Slots : hs'[s] = Idle
    BY <1>2 DEF ControlRestart, guestVars, hostVars, agentVars
  <2>2. k \in Nat /\ Piece(k, 0, <<>>) /\ Sent(k, Idle) /\ Idle.seen = <<>> /\ Len(guest'.text) = k
    BY <2>1, PieceEmpty, TextFacts, LogConstants DEF Typed, GuestTyped, Idle
  <2> HIDE DEF k
  <2>3. GuestCopies' /\ MailCopies'
    BY <2>1 DEF Copies, GuestCopies, MailCopies
  <2>4. AgentCopies'
    BY <2>1, <2>2 DEF Copies, AgentCopies, k
  <2>5. (~fetched => ControlCopies)'
    BY <2>1, <2>2 DEF Copies, ControlCopies, k
  <2> QED
    BY <2>3, <2>4, <2>5 DEF Copies
<1>3. CASE UNCHANGED logVars
  BY <1>3 DEF logVars, guestVars, hostVars, agentVars, controlVars, Copies, GuestCopies, MailCopies,
    AgentCopies, ControlCopies
<1>4. CASE StreamStep
  BY <1>4, StreamCopied DEF StreamStep
<1>5. CASE \E s \in Slots : HandlerStep(s)
  BY <1>5, HandlerCopied
<1> QED
  BY <1>1, <1>2, <1>3, <1>4, <1>5, GrowthKeepsCopies, GuestCopied, MailboxCopied, AgentCopied
  DEF LogsNext, ControlStep

LEMMA CopiesInvariant ==
  ASSUME ~TornCopies
  PROVE  LogsSpec => [](Typed /\ Copies)
<1>1. LogsInit => Copies
  BY CopiesInit
<1>2. Typed /\ Copies /\ [LogsNext]_logVars => Copies'
  BY CopiesStep
<1> QED
  BY <1>1, <1>2, TypedInvariant, PTL DEF LogsSpec

\* Losses, repetitions and reorderings in the mailbox, stale copies of the inject drive,
\* lost and late uploads and restarts leave every copy of the guest's log a beginning of
\* it, provided no copy of the drive comes between the check and the write of a chunk.
THEOREM EveryCopyIsAPrefix ==
  ASSUME ~TornCopies
  PROVE  LogsSpec => []CopiesArePrefixes
<1>1. ASSUME Typed, Copies, ~fetched, NEW t \in Views PROVE IsPrefix(t, guest.text)
  <2>1. guest.text \in Text /\ Piece(Len(guest.text), 0, guest.text)
    BY <1>1 DEF Typed, GuestTyped, Copies, GuestCopies
  <2>2. t \in Text
    BY <1>1 DEF Views, Typed, HostTyped, AgentTyped, ControlTyped, Handlers
  <2>3. Piece(Len(guest.text), 0, t)
    BY <1>1 DEF Views, Copies, MailCopies, AgentCopies, ControlCopies, Sent
  <2> QED
    BY <2>1, <2>2, <2>3, PieceIsPrefix
<1>2. Typed /\ Copies => CopiesArePrefixes
  BY <1>1 DEF CopiesArePrefixes
<1> QED
  BY <1>2, CopiesInvariant, PTL

\* "do not create a holey file" (applyWorkflowChunk), under the same proviso; this holds
\* on the host whatever GitHub's log replaces later.
THEOREM NeverHoley ==
  ASSUME ~TornCopies
  PROVE  LogsSpec => []NotHoley
<1>1. ASSUME Typed, Copies PROVE NotHoley
  <2>1. /\ host.log \in Text /\ Len(host.log) \in Nat
        /\ \A i \in 1..Len(host.log) : host.log[i] = 0 + i
    BY <1>1, TextFacts, LogConstants DEF Typed, HostTyped, Copies, MailCopies, Piece
  <2>2. DOMAIN host.log = 1..Len(host.log)
    BY <2>1 DEF Text
  <2>3. \A i \in DOMAIN host.log : host.log[i] # 0
    BY <2>1, <2>2
  <2> QED
    BY <2>3 DEF NotHoley, ToSet, Hole
<1> QED
  BY <1>1, CopiesInvariant, PTL
=============================================================================
