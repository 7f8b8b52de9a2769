-------------------------- MODULE AgentWorkerProofs --------------------------
(***************************************************************************)
(* Proofs about the admission arithmetic and the worker that asks it, for   *)
(* any jobs, hosts and VM sizes.                                            *)
(*                                                                         *)
(* First what the arithmetic computes, for every host sample and every VM    *)
(* size.  The model's numbers are naturals, as main configures them: a size  *)
(* that is not 0 is positive.                                               *)
(*                                                                         *)
(* Then the worker: it takes a job when its snapshot showed a free slot, and *)
(* the numbers in the snapshot are of different moments.  What makes this    *)
(* safe is that only the loop itself adds to inflight: what it read is never *)
(* less than what inflight is when the job it claims arrives.               *)
(***************************************************************************)
EXTENDS AgentWorker, FiniteSetTheorems, TLAPS

-----------------------------------------------------------------------------
(* The admission arithmetic. *)

\* Go's integer division rounds down on numbers that are not negative: n units of size
\* b fit into x exactly when n is at most the quotient.
LEMMA FitsIffQuotient ==
  ASSUME NEW x \in Nat, NEW b \in Nat \ {0}, NEW n \in Nat
  PROVE  x \div b \in Nat /\ (n * b <= x <=> n <= x \div b)
<1> DEFINE q == x \div b
           r == x % b
<1>1. /\ q \in Int /\ r \in 0..(b - 1)
      /\ x = b * q + r
  OBVIOUS
<1>2. q >= 0
  BY <1>1
<1>3. ASSUME n <= q PROVE n * b <= x
  <2>1. n * b <= q * b
    BY <1>1, <1>2, <1>3
  <2> QED BY <2>1, <1>1, <1>2
<1>4. ASSUME n > q PROVE n * b > x
  <2>1. n * b >= (q + 1) * b
    BY <1>1, <1>2, <1>4
  <2>2. (q + 1) * b = q * b + b
    BY <1>1, <1>2
  <2> QED BY <2>1, <2>2, <1>1, <1>2
<1> HIDE DEF q, r
<1>5. n * b \in Nat
  OBVIOUS
<1>6. q \in Nat
  BY <1>1, <1>2
<1>7. n * b <= x <=> n <= q
  BY <1>3, <1>4, <1>5, <1>6
<1> QED BY <1>6, <1>7 DEF q

\* The size admission calculates with is positive.
LEMMA MemoryPositive ==
  ASSUME NEW a \in Admissions(Nat)
  PROVE  memory(a) \in Nat \ {0}
BY DEF Admissions, memory

\* MaxFit is the greatest number of VMs whose memory and, when their disk size is known,
\* whose disk fits beside the reserves of the empty host.
THEOREM MaxFitIsGreatest ==
  ASSUME NEW a \in Admissions(Nat), NEW inv \in Samples(Nat), NEW n \in Nat
  PROVE  n <= MaxFit(a, inv) <=>
           /\ n * memory(a) <= AtLeast0(inv.total - a.reserveRAM)
           /\ a.disk > 0 => n * a.disk <= AtLeast0(inv.disk - a.reserveDisk)
<1> DEFINE ram  == AtLeast0(inv.total - a.reserveRAM)
           disk == AtLeast0(inv.disk - a.reserveDisk)
<1>1. ram \in Nat /\ disk \in Nat /\ a.disk \in Nat
  BY DEF Samples, Admissions, AtLeast0
<1>2. ram \div memory(a) \in Nat /\ (n * memory(a) <= ram <=> n <= ram \div memory(a))
  <2> HIDE DEF ram
  <2> QED BY <1>1, MemoryPositive, FitsIffQuotient
<1>3. CASE a.disk > 0
  <2>1. disk \div a.disk \in Nat /\ (n * a.disk <= disk <=> n <= disk \div a.disk)
    <3> HIDE DEF disk
    <3> QED BY <1>1, <1>3, FitsIffQuotient
  <2>2. MaxFit(a, inv) = Least(disk \div a.disk, ram \div memory(a))
    BY <1>3 DEF MaxFit
  <2> HIDE DEF ram, disk
  <2>3. n <= Least(disk \div a.disk, ram \div memory(a))
          <=> n <= disk \div a.disk /\ n <= ram \div memory(a)
    BY <1>2, <2>1 DEF Least
  <2>4. n <= MaxFit(a, inv) <=> n * memory(a) <= ram /\ n * a.disk <= disk
    BY <1>2, <2>1, <2>2, <2>3
  <2> QED BY <2>4, <1>3 DEF ram, disk
<1>4. CASE ~(a.disk > 0)
  <2>1. MaxFit(a, inv) = ram \div memory(a)
    BY <1>4 DEF MaxFit
  <2> HIDE DEF ram, disk
  <2>2. n <= MaxFit(a, inv) <=> n * memory(a) <= ram
    BY <1>2, <2>1
  <2> QED BY <2>2, <1>4 DEF ram
<1> QED BY <1>3, <1>4

(* The host when k more VMs have been created and use all they were given. *)
After(a, inv, k) ==
  [total |-> inv.total, avail |-> inv.avail - k * memory(a), disk |-> inv.disk - k * a.disk]

\* One create more, written with the number of VMs that must fit.
LEMMA CanCreateAfter ==
  ASSUME NEW a \in Admissions(Nat), NEW inv \in Samples(Nat),
         NEW allocated \in Nat, NEW k \in Nat
  PROVE  CanCreate(a, After(a, inv, k), allocated + k) <=>
           /\ (k + 1) * memory(a) <= inv.total - a.reserveRAM - allocated * memory(a)
           /\ (k + 1) * memory(a) <= inv.avail
           /\ a.disk > 0 => (k + 1) * a.disk <= inv.disk - a.reserveDisk
<1> DEFINE m == memory(a)
<1>1. m \in Nat /\ m > 0
  BY MemoryPositive
<1>2. /\ inv.total \in Nat /\ inv.avail \in Nat /\ inv.disk \in Nat
      /\ a.reserveRAM \in Nat /\ a.reserveDisk \in Nat /\ a.disk \in Nat
  BY DEF Samples, Admissions
<1> HIDE DEF m
<1>3. /\ k * m \in Nat /\ allocated * m \in Nat /\ k * a.disk \in Nat
      /\ (k + 1) * m = k * m + m
      /\ (k + 1) * a.disk = k * a.disk + a.disk
      /\ (allocated + k) * m = allocated * m + k * m
  BY <1>1, <1>2
<1>4. CanCreate(a, After(a, inv, k), allocated + k) <=>
        /\ (allocated + k) * m + m <= inv.total - a.reserveRAM
        /\ m <= inv.avail - k * m
        /\ a.disk > 0 => a.disk + a.reserveDisk <= inv.disk - k * a.disk
  <2>1. allocated + k \in Nat /\ (allocated + k) * m \in Nat
    BY <1>1, <1>3
  <2>2. AtLeast0(allocated + k) = allocated + k /\ AtLeast0((allocated + k) * m) = (allocated + k) * m
    BY <2>1 DEF AtLeast0
  <2>3. CanCreate(a, After(a, inv, k), allocated + k)
          <=> CanCreateMemory(a, After(a, inv, k), (allocated + k) * m, m)
    BY <2>2 DEF CanCreate, m
  <2>4. ~(m <= 0)
    BY <1>1
  <2>5. CanCreateMemory(a, After(a, inv, k), (allocated + k) * m, m) <=>
          /\ (allocated + k) * m + m <= inv.total - a.reserveRAM
          /\ m <= inv.avail - k * m
          /\ a.disk > 0 => a.disk + a.reserveDisk <= inv.disk - k * a.disk
    BY <2>2, <2>4 DEF CanCreateMemory, After, m
  <2> QED BY <2>3, <2>5
<1> DEFINE km == k * m
           am == allocated * m
           kd == k * a.disk
<1>5. /\ km \in Nat /\ am \in Nat /\ kd \in Nat
      /\ (k + 1) * m = km + m /\ (k + 1) * a.disk = kd + a.disk
      /\ (allocated + k) * m = am + km
  BY <1>3
<1>6. CanCreate(a, After(a, inv, k), allocated + k) <=>
        /\ am + km + m <= inv.total - a.reserveRAM
        /\ m <= inv.avail - km
        /\ a.disk > 0 => a.disk + a.reserveDisk <= inv.disk - kd
  BY <1>4, <1>5
<1>7. allocated * m = am
  OBVIOUS
<1> HIDE DEF km, am, kd
<1>8. CanCreate(a, After(a, inv, k), allocated + k) <=>
        /\ (k + 1) * m <= inv.total - a.reserveRAM - allocated * m
        /\ (k + 1) * m <= inv.avail
        /\ a.disk > 0 => (k + 1) * a.disk <= inv.disk - a.reserveDisk
  <2> DEFINE K == (k + 1) * m
             L == (k + 1) * a.disk
             A == allocated * m
             C == CanCreate(a, After(a, inv, k), allocated + k)
  <2>1. K = km + m /\ L = kd + a.disk /\ A = am
    BY <1>5, <1>7
  <2>2. C <=> /\ am + km + m <= inv.total - a.reserveRAM
              /\ m <= inv.avail - km
              /\ a.disk > 0 => a.disk + a.reserveDisk <= inv.disk - kd
    BY <1>6
  <2> HIDE DEF K, L, A, C
  <2>3. am + km + m <= inv.total - a.reserveRAM <=> K <= inv.total - a.reserveRAM - A
    BY <1>1, <1>2, <1>5, <2>1
  <2>4. m <= inv.avail - km <=> K <= inv.avail
    BY <1>1, <1>2, <1>5, <2>1
  <2>5. a.disk + a.reserveDisk <= inv.disk - kd <=> L <= inv.disk - a.reserveDisk
    BY <1>1, <1>2, <1>5, <2>1
  <2>6. C <=> /\ K <= inv.total - a.reserveRAM - A
              /\ K <= inv.avail
              /\ a.disk > 0 => L <= inv.disk - a.reserveDisk
    BY <2>2, <2>3, <2>4, <2>5, Zenon
  <2> QED BY <2>6 DEF K, L, A, C
<1> QED BY <1>8 DEF m

\* "Remaining is how many additional creates would still pass CanCreate": every one of so
\* many creates in a row passes, and the next does not, when each takes its memory and disk.
THEOREM RemainingIsExact ==
  ASSUME NEW a \in Admissions(Nat), NEW inv \in Samples(Nat), NEW allocated \in Nat
  PROVE  /\ Remaining(a, inv, allocated) \in Nat
         /\ \A k \in Nat : CanCreate(a, After(a, inv, k), allocated + k)
                             <=> k < Remaining(a, inv, allocated)
<1> DEFINE m == memory(a)
           usable == inv.total - a.reserveRAM - allocated * m
           free == inv.disk - a.reserveDisk
           R == Remaining(a, inv, allocated)
           Fits(k) == /\ (k + 1) * m <= usable
                      /\ (k + 1) * m <= inv.avail
                      /\ a.disk > 0 => (k + 1) * a.disk <= free
<1>1. m \in Nat \ {0}
  BY MemoryPositive
<1>2. /\ inv.avail \in Nat /\ inv.disk \in Nat /\ a.disk \in Nat /\ allocated * m \in Nat
      /\ usable \in Int /\ free \in Int
  BY <1>1 DEF Samples, Admissions
<1>3. \A k \in Nat : CanCreate(a, After(a, inv, k), allocated + k) <=> Fits(k)
  BY CanCreateAfter
<1>4. CanCreate(a, inv, allocated) <=> Fits(0)
  <2>1. After(a, inv, 0) = inv
    <3>1. 0 * m = 0 /\ 0 * a.disk = 0
      BY <1>1, <1>2
    <3> QED BY <3>1, <1>2 DEF After, Samples
  <2>2. allocated + 0 = allocated
    OBVIOUS
  <2>3. CanCreate(a, After(a, inv, 0), allocated + 0) <=> Fits(0)
    BY <1>3
  <2> QED BY <2>1, <2>2, <2>3
<1>5. SUFFICES R \in Nat /\ \A k \in Nat : Fits(k) <=> k < R
  BY <1>3
<1>6. CASE ~Fits(0)
  <2>1. R = 0
    BY <1>4, <1>6 DEF Remaining
  <2>2. ASSUME NEW k \in Nat, Fits(k) PROVE FALSE
    <3> HIDE DEF usable, free, m
    <3>1. (k + 1) * m >= (0 + 1) * m /\ (k + 1) * a.disk >= (0 + 1) * a.disk
      <4>1. /\ k * m \in Nat /\ (k + 1) * m = k * m + m /\ (0 + 1) * m = m
            /\ k * a.disk \in Nat /\ (k + 1) * a.disk = k * a.disk + a.disk
            /\ (0 + 1) * a.disk = a.disk
        BY <1>1, <1>2
      <4> QED BY <4>1, <1>1, <1>2
    <3>2. (k + 1) * m \in Nat /\ (0 + 1) * m \in Nat /\ (k + 1) * a.disk \in Nat /\ (0 + 1) * a.disk \in Nat
      BY <1>1, <1>2
    <3>3. Fits(0)
      BY <2>2, <3>1, <3>2, <1>2
    <3> QED BY <1>6, <3>3
  <2> QED BY <2>1, <2>2
<1>7. CASE Fits(0)
  <2>1. usable \in Nat /\ (a.disk > 0 => free \in Nat)
    <3>1. (0 + 1) * m = m /\ (0 + 1) * a.disk = a.disk
      BY <1>1, <1>2
    <3> QED BY <3>1, <1>1, <1>2, <1>7
  <2> DEFINE u == usable \div m
             v == inv.avail \div m
             d == free \div a.disk
  <2>2. /\ u \in Nat /\ v \in Nat
        /\ \A k \in Nat : (k + 1) * m <= usable <=> k + 1 <= u
        /\ \A k \in Nat : (k + 1) * m <= inv.avail <=> k + 1 <= v
    <3> HIDE DEF m, usable
    <3>1. \A n \in Nat : /\ usable \div m \in Nat /\ (n * m <= usable <=> n <= usable \div m)
                         /\ inv.avail \div m \in Nat /\ (n * m <= inv.avail <=> n <= inv.avail \div m)
      BY <1>1, <1>2, <2>1, FitsIffQuotient
    <3>2. u \in Nat /\ v \in Nat
      BY <3>1
    <3>3. \A k \in Nat : k + 1 \in Nat
      OBVIOUS
    <3> QED BY <3>1, <3>2, <3>3
  <2>3. a.disk > 0 => d \in Nat /\ \A k \in Nat : (k + 1) * a.disk <= free <=> k + 1 <= d
    <3> HIDE DEF m, usable, free
    <3>1. a.disk > 0 => \A n \in Nat : free \div a.disk \in Nat /\ (n * a.disk <= free <=> n <= free \div a.disk)
      BY <1>2, <2>1, FitsIffQuotient
    <3>2. \A k \in Nat : k + 1 \in Nat
      OBVIOUS
    <3> QED BY <3>1, <3>2
  <2>4. R = IF a.disk > 0 THEN Least(d, AtLeast0(Least(v, u))) ELSE AtLeast0(Least(v, u))
    BY <1>4, <1>7 DEF Remaining
  <2> HIDE DEF u, v, d, R, m, usable, free
  <2>5. AtLeast0(Least(v, u)) = Least(v, u)
    BY <2>2 DEF AtLeast0, Least
  <2>6. R \in Nat
    BY <2>2, <2>3, <2>4, <2>5 DEF Least
  <2>7. ASSUME NEW k \in Nat PROVE Fits(k) <=> k < R
    <3>1. Fits(k) <=> k + 1 <= u /\ k + 1 <= v /\ (a.disk > 0 => k + 1 <= d)
      <4>1. (k + 1) * m <= usable <=> k + 1 <= u
        BY <2>2, Zenon
      <4>2. (k + 1) * m <= inv.avail <=> k + 1 <= v
        BY <2>2, Zenon
      <4>3. a.disk > 0 => ((k + 1) * a.disk <= free <=> k + 1 <= d)
        BY <2>3, Zenon
      <4> QED BY <4>1, <4>2, <4>3, Zenon
    <3> HIDE DEF Fits
    <3>2. k + 1 <= u /\ k + 1 <= v /\ (a.disk > 0 => k + 1 <= d) <=> k < R
      BY <2>2, <2>3, <2>4, <2>5 DEF Least
    <3> QED BY <3>1, <3>2
  <2> QED BY <2>6, <2>7
<1> QED BY <1>6, <1>7

-----------------------------------------------------------------------------
(* The worker. *)

(* The places of a job that has a goroutine. *)
Running == {"bind", "cold", "busy", "dying", "report"}

(* The inductive invariant beside the types. *)
Slots ==
  /\ inflight = Cardinality(In(Running)) /\ inflight <= capacity
  /\ loop.at = "inflight" => inflight <= loop.n
  /\ loop.at \in {"claim", "reply"} => inflight < capacity
  /\ \A i, j \in Jobs : At(i, "sent") /\ At(j, "sent") => i = j
  /\ \A j \in Jobs : At(j, "sent") => loop.at = "reply"
  /\ loop.at = "done" => Held = {}
  /\ Stopping /\ ~expired => loop.at = "done"

-----------------------------------------------------------------------------
(* Lemmas. *)

(* Moving a job changes a set of jobs by place as expected. *)
LEMMA GotoFacts ==
  ASSUME WorkerTypeOK, NEW j \in Jobs, NEW p \in Places, Goto(j, p), NEW P
  PROVE  /\ jobs' \in [Jobs -> Places]
         /\ In(P)' = IF p \in P THEN In(P) \cup {j} ELSE In(P) \ {j}
         /\ \A i \in Jobs : jobs'[i] = IF i = j THEN p ELSE jobs[i]
BY DEF WorkerTypeOK, Goto, In

LEMMA CountsAreNat ==
  ASSUME NEW P
  PROVE  IsFiniteSet(In(P)) /\ Cardinality(In(P)) \in Nat
<1>1. IsFiniteSet(Jobs) /\ In(P) \subseteq Jobs
  BY WorkerConstants DEF In
<1> QED BY <1>1, FS_Subset, FS_CardinalityType

LEMMA MaxFitType ==
  ASSUME NEW a \in Admissions(Nat), NEW inv \in Samples(Nat)
  PROVE  MaxFit(a, inv) \in Nat
<1> DEFINE ram  == AtLeast0(inv.total - a.reserveRAM)
           disk == AtLeast0(inv.disk - a.reserveDisk)
<1>1. ram \in Nat /\ disk \in Nat /\ a.disk \in Nat
  BY DEF Samples, Admissions, AtLeast0
<1>2. ram \div memory(a) \in Nat
  <2> HIDE DEF ram
  <2> QED BY <1>1, MemoryPositive, FitsIffQuotient
<1>3. a.disk > 0 => disk \div a.disk \in Nat
  <2> HIDE DEF disk
  <2> QED BY <1>1, FitsIffQuotient
<1> HIDE DEF ram, disk
<1>4. a.disk > 0 => Least(disk \div a.disk, ram \div memory(a)) \in Nat
  BY <1>2, <1>3 DEF Least
<1> QED BY <1>2, <1>4 DEF MaxFit, ram, disk

(* A snapshot with a free slot has read fewer jobs than there are slots. *)
LEMMA FreeSlotMeansRoom ==
  ASSUME WorkerTypeOK, NEW r \in Nat, FreeSlots(r) > 0
  PROVE  loop.n < capacity
<1> DEFINE used == IF loop.n > loop.busy THEN loop.n ELSE loop.busy
           room == AtLeast0(capacity - used)
           open == loop.warm + r - AtLeast0(loop.n - loop.busy)
<1>1. /\ capacity \in Nat /\ loop.n \in Nat /\ loop.busy \in Nat /\ loop.warm \in Nat
  BY WorkerConstants DEF WorkerTypeOK
<1>2. used \in Nat /\ loop.n <= used /\ open \in Int
  BY <1>1 DEF AtLeast0
<1>3. AtLeast0(Least(room, open)) > 0
  BY DEF FreeSlots
<1> HIDE DEF used, open
<1>4. room \in Nat /\ (room > 0 => loop.n < capacity)
  BY <1>1, <1>2 DEF AtLeast0
<1> HIDE DEF room
<1> QED BY <1>2, <1>3, <1>4 DEF Least, AtLeast0

LEMMA RemainingType ==
  ASSUME WorkerTypeOK, NEW inv \in Hosts
  PROVE  Remaining(Adm, inv, Allocated) \in Nat
<1>1. Allocated \in Nat
  BY CountsAreNat DEF WorkerTypeOK, Allocated
<1>2. Adm \in Admissions(Nat) /\ inv \in Samples(Nat)
  BY WorkerConstants
<1> QED BY <1>1, <1>2, RemainingIsExact

-----------------------------------------------------------------------------
(* Types. *)

LEMMA TypesInit == WorkerInit => WorkerTypeOK
<1> SUFFICES ASSUME WorkerInit PROVE WorkerTypeOK
  OBVIOUS
<1>1. PICK inv \in Hosts : capacity = ClampPoolToHost(Cfg, Adm, inv).max
  BY DEF WorkerInit
<1>2. capacity = Least(MaxFit(Adm, inv), Cfg.max)
  BY <1>1 DEF ClampPoolToHost
<1>3. MaxFit(Adm, inv) \in Nat /\ Cfg.max \in Nat
  BY WorkerConstants, MaxFitType
<1>4. capacity \in 0..Cfg.max
  BY <1>2, <1>3 DEF Least
<1>5. /\ jobs \in [Jobs -> Places] /\ faults \in 0..MaxFaults /\ inflight \in Nat
      /\ pool \in [warm : Nat, boot : Nat, dying : Nat]
      /\ loop \in [at : {"top", "counts", "inflight", "claim", "reply", "drain", "done"},
                    warm : Nat, busy : Nat, n : Nat]
  BY WorkerConstants DEF WorkerInit, Places
<1>6. term \in BOOLEAN /\ expired \in BOOLEAN /\ main \in {"run", "drain", "shutdown", "exit"}
  BY Zenon DEF WorkerInit
<1> QED BY <1>4, <1>5, <1>6 DEF WorkerTypeOK

LEMMA TypesStep ==
  ASSUME WorkerTypeOK, [WorkerNext]_workerVars
  PROVE  WorkerTypeOK'
<1>1. faults' \in 0..MaxFaults
  <2> SUFFICES Fault \/ Fine
    BY WorkerConstants DEF Fault, Fine, WorkerTypeOK
  <2>1. CASE RunStep
    BY <2>1 DEF RunStep, Counts, inFlight, snapshot, NoClaim, drainReturn, Claim, ClaimLost, Run
  <2>2. ASSUME NEW j \in Jobs, handleJob(j) \/ KillVM(j) PROVE Fault \/ Fine
    BY <2>2 DEF handleJob, KillVM, BindWarm, BindCold, BindFails, ColdBooted, JobFinished,
                Destroyed, finish
  <2>3. CASE PoolStep \/ Signal \/ Shutdown \/ Exit \/ UNCHANGED workerVars
    BY <2>3 DEF PoolStep, replenish, BootEnds, recycle, DestroyEnds, Signal, Shutdown, Exit,
                Fine, workerVars
  <2> QED BY <2>1, <2>2, <2>3 DEF WorkerNext
<1>2. CASE RunStep
  <2>1. CASE Counts
    <3>1. Busy \in Nat
      BY CountsAreNat DEF Busy
    <3> QED BY <2>1, <3>1, <1>1 DEF Counts, Loop, WorkerTypeOK
  <2>2. CASE inFlight
    BY <2>2, <1>1 DEF inFlight, WorkerTypeOK
  <2>3. CASE snapshot
    BY <2>3, <1>1 DEF snapshot, Loop, WorkerTypeOK
  <2>4. CASE NoClaim \/ drainReturn
    BY <2>4, <1>1 DEF NoClaim, drainReturn, Loop, WorkerTypeOK
  <2>5. ASSUME NEW j \in Jobs, Claim(j) \/ ClaimLost(j) \/ Run(j) PROVE WorkerTypeOK'
    <3>1. jobs' \in [Jobs -> Places]
      BY <2>5, GotoFacts DEF Claim, ClaimLost, Run, Places
    <3> QED BY <2>5, <3>1, <1>1 DEF Claim, ClaimLost, Run, Loop, WorkerTypeOK
  <2> QED BY <1>2, <2>1, <2>2, <2>3, <2>4, <2>5 DEF RunStep
<1>3. ASSUME NEW j \in Jobs, handleJob(j) \/ KillVM(j) PROVE WorkerTypeOK'
  <2>1. jobs' \in [Jobs -> Places]
    BY <1>3, GotoFacts DEF handleJob, KillVM, BindWarm, BindCold, BindFails, ColdBooted, JobFinished,
                           Destroyed, finish, addInFlight, Places
  <2>2. pool' \in [warm : Nat, boot : Nat, dying : Nat]
    BY <1>3 DEF WorkerTypeOK, handleJob, KillVM, BindWarm, BindCold, BindFails, ColdBooted, JobFinished,
                Destroyed, finish, addInFlight
  <2>3. inflight' \in Nat
    BY <1>3 DEF WorkerTypeOK, handleJob, KillVM, BindWarm, BindCold, BindFails, ColdBooted, JobFinished,
                Destroyed, finish, addInFlight, AtLeast0
  <2> QED
    BY <1>1, <1>3, <2>1, <2>2, <2>3
       DEF WorkerTypeOK, handleJob, KillVM, BindWarm, BindCold, BindFails, ColdBooted, JobFinished,
           Destroyed, finish, addInFlight
<1>4. CASE PoolStep
  <2>1. pool' \in [warm : Nat, boot : Nat, dying : Nat]
    <3>1. pool \in [warm : Nat, boot : Nat, dying : Nat]
      BY DEF WorkerTypeOK
    <3>2. CASE replenish
      BY <3>1, <3>2 DEF replenish
    <3>3. CASE BootEnds
      <4>1. pool.boot - 1 \in Nat /\ pool.warm + 1 \in Nat
        BY <3>1, <3>3 DEF BootEnds
      <4>2. pool' = [pool EXCEPT !.boot = @ - 1, !.warm = @ + 1] \/ pool' = [pool EXCEPT !.boot = @ - 1]
        BY <3>3 DEF BootEnds
      <4> QED BY <3>1, <4>1, <4>2
    <3>4. CASE recycle \/ DestroyEnds
      <4>1. pool.warm > 0 => pool.warm - 1 \in Nat
        BY <3>1
      <4>2. pool.dying > 0 => pool.dying - 1 \in Nat
        BY <3>1
      <4>3. pool.dying + 1 \in Nat
        BY <3>1
      <4>4. \/ pool.warm > 0 /\ pool' = [pool EXCEPT !.warm = @ - 1, !.dying = @ + 1]
            \/ pool.dying > 0 /\ pool' = [pool EXCEPT !.dying = @ - 1]
        BY <3>4 DEF recycle, DestroyEnds
      <4> QED BY <3>1, <4>1, <4>2, <4>3, <4>4
    <3> QED BY <1>4, <3>2, <3>3, <3>4 DEF PoolStep
  <2>2. UNCHANGED <<capacity, loop, jobs, inflight, term, main, expired>>
    BY <1>4 DEF PoolStep, replenish, BootEnds, recycle, DestroyEnds
  <2> QED BY <1>1, <2>1, <2>2 DEF WorkerTypeOK
<1>5. CASE Signal \/ Shutdown \/ Exit
  <2>1. term' \in BOOLEAN /\ expired' \in BOOLEAN
    BY <1>5, Zenon DEF Signal, Shutdown, Exit, WorkerTypeOK
  <2>2. main' \in {"run", "drain", "shutdown", "exit"}
    BY <1>5 DEF Signal, Shutdown, Exit
  <2>3. pool' \in [warm : Nat, boot : Nat, dying : Nat]
    BY <1>5 DEF Signal, Shutdown, Exit, WorkerTypeOK
  <2>4. UNCHANGED <<capacity, loop, jobs, inflight>>
    BY <1>5 DEF Signal, Shutdown, Exit
  <2> QED BY <1>1, <2>1, <2>2, <2>3, <2>4 DEF WorkerTypeOK
<1>6. CASE UNCHANGED workerVars
  BY <1>6 DEF workerVars, WorkerTypeOK
<1> QED BY <1>2, <1>3, <1>4, <1>5, <1>6 DEF WorkerNext

\* The worker's variables keep their types, for any jobs, any host and any VM size.
THEOREM WorkerTypeCorrect == WorkerSpec => []WorkerTypeOK
<1>1. WorkerTypeOK /\ [WorkerNext]_workerVars => WorkerTypeOK'
  BY TypesStep
<1> QED BY <1>1, TypesInit, PTL DEF WorkerSpec

-----------------------------------------------------------------------------
(* Slots. *)

LEMMA SlotsInit == WorkerInit /\ WorkerTypeOK => Slots
<1> SUFFICES ASSUME WorkerInit, WorkerTypeOK PROVE Slots
  OBVIOUS
<1>1. In(Running) = {}
  BY DEF WorkerInit, In, Running
<1>2. Cardinality(In(Running)) = 0
  BY <1>1, FS_EmptySet
<1>3. capacity >= 0 /\ inflight = 0
  BY WorkerConstants DEF WorkerTypeOK, WorkerInit
<1> QED BY <1>2, <1>3 DEF WorkerInit, Slots, At, Stopping

(* A step of the loop that changes no job. *)
LEMMA LoopSteps ==
  ASSUME WorkerTypeOK, Slots, Counts \/ inFlight \/ snapshot \/ NoClaim \/ drainReturn
  PROVE  Slots'
<1>1. jobs' = jobs /\ inflight' = inflight /\ capacity' = capacity /\ main' = main /\ expired' = expired
  BY DEF Counts, inFlight, snapshot, NoClaim, drainReturn
<1>2. In(Running)' = In(Running) /\ (\A j \in Jobs : At(j, "sent")' <=> At(j, "sent")) /\ Held' = Held
  BY <1>1 DEF In, At, Held
<1>3. Stopping' <=> Stopping
  BY <1>1 DEF Stopping
<1>4. loop.at \notin {"reply", "done"}
  BY DEF Counts, inFlight, snapshot, NoClaim, drainReturn
<1>5. \A j \in Jobs : ~At(j, "sent")
  BY <1>4 DEF Slots
<1>6. ~(Stopping /\ ~expired)
  BY <1>4 DEF Slots
<1>7. /\ Counts => loop'.at \in {"counts", "drain"}
      /\ inFlight => loop'.at = "inflight" /\ loop'.n = inflight
      /\ snapshot => loop'.at \in {"claim", "top"}
      /\ NoClaim => loop'.at = "top"
      /\ drainReturn => loop'.at = "done"
  <2>1. Counts => loop'.at \in {"counts", "drain"}
    BY DEF Counts, Loop
  <2>2. inFlight => loop'.at = "inflight" /\ loop'.n = inflight
    BY DEF inFlight, WorkerTypeOK
  <2>3. snapshot => loop'.at \in {"claim", "top"}
    BY DEF snapshot, Loop
  <2>4. (NoClaim => loop'.at = "top") /\ (drainReturn => loop'.at = "done")
    BY DEF NoClaim, drainReturn, Loop
  <2> QED BY <2>1, <2>2, <2>3, <2>4
<1>8. loop'.at # "reply" /\ (loop'.at = "inflight" => inflight <= loop'.n)
  <2>1. inflight <= inflight
    BY DEF WorkerTypeOK
  <2> QED BY <1>7, <2>1
<1>9. loop'.at = "claim" => inflight < capacity
  <2> SUFFICES ASSUME loop'.at = "claim" PROVE inflight < capacity
    OBVIOUS
  <2>1. snapshot
    BY <1>7
  <2>2. PICK inv \in Hosts : FreeSlots(Remaining(Adm, inv, Allocated)) > 0
    BY <2>1 DEF snapshot, Loop
  <2>3. loop.n < capacity
    BY <2>2, RemainingType, FreeSlotMeansRoom
  <2>4. inflight <= loop.n
    BY <2>1 DEF snapshot, Slots
  <2> QED BY <2>3, <2>4, WorkerConstants DEF WorkerTypeOK
<1>10. loop'.at = "done" => Held = {}
  <2> SUFFICES ASSUME loop'.at = "done" PROVE Held = {}
    OBVIOUS
  <2>1. drainReturn
    BY <1>7
  <2>2. In(Places \ {"queued", "sent", "done", "lost"}) = {}
    BY <2>1 DEF drainReturn
  <2> QED BY <2>2, <1>5 DEF Held, In, At
<1> QED
  BY <1>1, <1>2, <1>3, <1>5, <1>6, <1>7, <1>8, <1>9, <1>10 DEF Slots

LEMMA ClaimSteps ==
  ASSUME WorkerTypeOK, Slots, NEW j \in Jobs, Claim(j) \/ ClaimLost(j) \/ Run(j)
  PROVE  Slots'
<1>1. capacity' = capacity /\ main' = main /\ expired' = expired /\ (Stopping' <=> Stopping)
  BY DEF Claim, ClaimLost, Run, Stopping
<1>2. loop.at \in {"claim", "reply"} /\ inflight < capacity /\ ~(Stopping /\ ~expired)
  BY DEF Claim, ClaimLost, Run, Slots
<1>3. inflight \in Nat /\ capacity \in Nat /\ jobs \in [Jobs -> Places]
  BY WorkerConstants DEF WorkerTypeOK
<1>4. CASE Claim(j)
  <2>1. In(Running)' = In(Running) /\ \A i \in Jobs : jobs'[i] = IF i = j THEN "sent" ELSE jobs[i]
    <3>1. At(j, "queued") /\ Goto(j, "sent")
      BY <1>4 DEF Claim
    <3>2. In(Running)' = In(Running) \ {j}
      BY <3>1, GotoFacts DEF Places, Running
    <3>3. j \notin In(Running)
      BY <3>1 DEF In, At, Running
    <3> QED BY <3>1, <3>2, <3>3, GotoFacts DEF Places
  <2>2. \A i \in Jobs : ~At(i, "sent")
    BY <1>4 DEF Claim, Slots
  <2>3. loop'.at = "reply" /\ inflight' = inflight
    BY <1>4 DEF Claim, Loop
  <2> QED BY <1>1, <1>2, <2>1, <2>2, <2>3 DEF Slots, At
<1>5. CASE ClaimLost(j)
  <2>1. In(Running)' = In(Running) /\ \A i \in Jobs : jobs'[i] = IF i = j THEN "lost" ELSE jobs[i]
    <3>1. At(j, "sent") /\ Goto(j, "lost")
      BY <1>5 DEF ClaimLost
    <3>2. In(Running)' = In(Running) \ {j}
      BY <3>1, GotoFacts DEF Places, Running
    <3>3. j \notin In(Running)
      BY <3>1 DEF In, At, Running
    <3> QED BY <3>1, <3>2, <3>3, GotoFacts DEF Places
  <2>2. \A i \in Jobs : At(i, "sent") => i = j
    BY <1>5 DEF ClaimLost, Slots
  <2>3. loop'.at = "top" /\ inflight' = inflight
    BY <1>5 DEF ClaimLost, Loop
  <2> QED BY <1>1, <1>2, <2>1, <2>2, <2>3 DEF Slots, At
<1>6. CASE Run(j)
  <2>1. /\ In(Running)' = In(Running) \cup {j} /\ j \notin In(Running)
        /\ \A i \in Jobs : jobs'[i] = IF i = j THEN "bind" ELSE jobs[i]
    <3>1. At(j, "sent") /\ Goto(j, "bind")
      BY <1>6 DEF Run
    <3>2. In(Running)' = In(Running) \cup {j}
      BY <3>1, GotoFacts DEF Places, Running
    <3>3. j \notin In(Running)
      BY <3>1 DEF In, At, Running
    <3> QED BY <3>1, <3>2, <3>3, GotoFacts DEF Places
  <2>2. \A i \in Jobs : At(i, "sent") => i = j
    BY <1>6 DEF Run, Slots
  <2>3. loop'.at = "top" /\ inflight' = inflight + 1
    BY <1>6 DEF Run, Loop
  <2>4. Cardinality(In(Running)') = Cardinality(In(Running)) + 1
    BY <2>1, CountsAreNat, FS_AddElement
  <2>5. inflight' = Cardinality(In(Running)') /\ inflight' <= capacity
    BY <2>3, <2>4, <1>2, <1>3 DEF Slots
  <2> QED BY <1>1, <1>2, <2>1, <2>2, <2>3, <2>5 DEF Slots, At
<1> QED BY <1>4, <1>5, <1>6

LEMMA JobSteps ==
  ASSUME WorkerTypeOK, Slots, NEW j \in Jobs, handleJob(j) \/ KillVM(j)
  PROVE  Slots'
<1>1. capacity' = capacity /\ main' = main /\ expired' = expired /\ loop' = loop
  BY DEF handleJob, KillVM, BindWarm, BindCold, BindFails, ColdBooted, JobFinished, Destroyed, finish, addInFlight
<1>2. Stopping' <=> Stopping
  BY <1>1 DEF Stopping
<1>3. jobs[j] \in Running
  BY DEF handleJob, KillVM, BindWarm, BindCold, BindFails, ColdBooted, JobFinished, Destroyed, finish,
         addInFlight, At, Running
<1>4. j \in In(Running) /\ ~At(j, "sent") /\ j \in Held
  BY <1>3 DEF In, Running, At, Held, Places
<1>5. loop.at # "done"
  BY <1>4 DEF Slots
<1>6. inflight \in Nat /\ capacity \in Nat /\ loop.n \in Nat
  BY WorkerConstants DEF WorkerTypeOK
<1>7. CASE finish(j)
  <2>1. Goto(j, "done") /\ inflight' = AtLeast0(inflight - 1)
    BY <1>7 DEF finish, addInFlight
  <2>2. In(Running)' = In(Running) \ {j} /\ \A i \in Jobs : jobs'[i] = IF i = j THEN "done" ELSE jobs[i]
    BY <2>1, GotoFacts DEF Places, Running
  <2>3. Cardinality(In(Running)') = Cardinality(In(Running)) - 1
    BY <2>2, <1>4, CountsAreNat, FS_RemoveElement
  <2>4. Cardinality(In(Running)') \in Nat
    BY <2>2, <2>3, <1>4, CountsAreNat, FS_RemoveElement, FS_CardinalityType
  <2>5. inflight' = Cardinality(In(Running)') /\ inflight' <= inflight /\ inflight' \in Nat
    BY <2>1, <2>3, <2>4, <1>6 DEF Slots, AtLeast0
  <2>6. \A i \in Jobs : At(i, "sent")' => At(i, "sent")
    BY <2>2, <1>4 DEF At
  <2>7. /\ inflight' <= capacity
        /\ loop.at = "inflight" => inflight' <= loop.n
        /\ loop.at \in {"claim", "reply"} => inflight' < capacity
    BY <1>6, <2>5 DEF Slots
  <2>8. \A i \in Jobs : At(i, "sent")' => loop.at = "reply" /\ \A k \in Jobs : At(k, "sent")' => i = k
    BY <2>6 DEF Slots
  <2> QED BY <1>1, <1>2, <1>5, <2>5, <2>7, <2>8 DEF Slots
<1>8. CASE ~finish(j)
  <2>1. PICK p \in Running : Goto(j, p)
    <3>1. CASE KillVM(j)
      BY <3>1 DEF KillVM, Running
    <3>2. CASE BindWarm(j) \/ BindCold(j) \/ BindFails(j)
      BY <3>2 DEF BindWarm, BindCold, BindFails, Running
    <3>3. CASE ColdBooted(j) \/ JobFinished(j) \/ Destroyed(j)
      BY <3>3 DEF ColdBooted, JobFinished, Destroyed, Running
    <3> QED BY <1>8, <3>1, <3>2, <3>3 DEF handleJob
  <2>2. inflight' = inflight
    BY <1>8 DEF handleJob, KillVM, BindWarm, BindCold, BindFails, ColdBooted, JobFinished, Destroyed
  <2>3. p \in Places
    BY DEF Running, Places
  <2>4. In(Running)' = In(Running) /\ \A i \in Jobs : jobs'[i] = IF i = j THEN p ELSE jobs[i]
    <3>1. In(Running)' = In(Running) \cup {j}
      BY <2>1, <2>3, GotoFacts
    <3>2. \A i \in Jobs : jobs'[i] = IF i = j THEN p ELSE jobs[i]
      BY <2>1, <2>3, GotoFacts
    <3> QED BY <3>1, <3>2, <1>4
  <2>5. \A i \in Jobs : At(i, "sent")' => At(i, "sent")
    BY <2>4 DEF At, Running
  <2> QED BY <1>1, <1>2, <1>5, <2>2, <2>4, <2>5 DEF Slots
<1> QED BY <1>7, <1>8

LEMMA OtherSteps ==
  ASSUME WorkerTypeOK, Slots, PoolStep \/ Signal \/ Shutdown \/ Exit \/ UNCHANGED workerVars
  PROVE  Slots'
<1>1. jobs' = jobs /\ inflight' = inflight /\ capacity' = capacity /\ loop' = loop
  BY DEF PoolStep, replenish, BootEnds, recycle, DestroyEnds, Signal, Shutdown, Exit, workerVars
<1>2. In(Running)' = In(Running) /\ (\A j \in Jobs : At(j, "sent")' <=> At(j, "sent")) /\ Held' = Held
  BY <1>1 DEF In, At, Held
<1>3. Stopping' /\ ~expired' => loop.at = "done"
  <2>1. CASE Shutdown
    BY <2>1, Zenon DEF Shutdown
  <2>2. CASE ~Shutdown
    <3>1. (Stopping' => Stopping) /\ expired' = expired
      BY <2>2 DEF PoolStep, replenish, BootEnds, recycle, DestroyEnds, Signal, Exit, workerVars, Stopping
    <3> QED BY <3>1 DEF Slots
  <2> QED BY <2>1, <2>2
<1> QED BY <1>1, <1>2, <1>3 DEF Slots

LEMMA SlotsInvariant == WorkerSpec => [](WorkerTypeOK /\ Slots)
<1>1. WorkerTypeOK /\ Slots /\ [WorkerNext]_workerVars => Slots'
  <2> SUFFICES ASSUME WorkerTypeOK, Slots, [WorkerNext]_workerVars PROVE Slots'
    OBVIOUS
  <2>1. CASE RunStep
    BY <2>1, LoopSteps, ClaimSteps DEF RunStep
  <2>2. CASE \E j \in Jobs : handleJob(j) \/ KillVM(j)
    BY <2>2, JobSteps
  <2>3. CASE PoolStep \/ Signal \/ Shutdown \/ Exit \/ UNCHANGED workerVars
    BY <2>3, OtherSteps
  <2> QED BY <2>1, <2>2, <2>3 DEF WorkerNext
<1> QED BY <1>1, TypesInit, SlotsInit, WorkerTypeCorrect, PTL DEF WorkerSpec

-----------------------------------------------------------------------------

\* For every capacity and any host: claimed jobs never outnumber max_ready as clamped to
\* the host, although the snapshot mixes counts of different moments.
THEOREM CapacityRespected == WorkerSpec => []WithinCapacity
<1>1. WorkerTypeOK /\ Slots => WithinCapacity
  <2> SUFFICES ASSUME WorkerTypeOK, Slots PROVE Cardinality(Held) <= capacity
    BY DEF WithinCapacity
  <2>1. inflight \in Nat /\ capacity \in Nat /\ jobs \in [Jobs -> Places]
    BY WorkerConstants DEF WorkerTypeOK
  <2>2. Held = In(Running) \cup {j \in Jobs : At(j, "sent")}
    BY <2>1 DEF Held, In, At, Running, Places
  <2>3. CASE \A j \in Jobs : ~At(j, "sent")
    <3>1. Held = In(Running)
      BY <2>2, <2>3
    <3> QED BY <3>1 DEF Slots
  <2>4. ASSUME NEW j \in Jobs, At(j, "sent") PROVE Cardinality(Held) <= capacity
    <3>1. Held = In(Running) \cup {j} /\ j \notin In(Running) /\ inflight < capacity
      BY <2>2, <2>4 DEF Slots, In, At, Running
    <3>2. Cardinality(Held) = inflight + 1
      BY <3>1, CountsAreNat, FS_AddElement DEF Slots
    <3> QED BY <2>1, <3>1, <3>2
  <2> QED BY <2>3, <2>4
<1> QED BY <1>1, SlotsInvariant, PTL

\* Main reaches Shutdown with a job in hand only by giving up the wait: Run returns when
\* every goroutine has, and a claim under way at the signal is answered before that.
THEOREM DrainWaitsForJobs == WorkerSpec => []DrainSparesJobs
<1>1. Slots => DrainSparesJobs
  BY DEF Slots, DrainSparesJobs
<1> QED BY <1>1, SlotsInvariant, PTL
=============================================================================
