------------------------------ MODULE Admission ------------------------------
(***************************************************************************)
(* The agent's admission arithmetic (internal/agent/admission.go): how     *)
(* many VMs of one size a host holds, and whether one more may be created. *)
(*                                                                         *)
(* A host sample is [total, avail, disk], the memory of the machine, the   *)
(* memory free now and the free disk; an admission is [mem, disk,           *)
(* reserveRAM, reserveDisk].  Everything is in MiB.  Go's integer division  *)
(* is only ever applied to numbers that are not negative, where it is \div. *)
(***************************************************************************)
EXTENDS Integers

Samples(S) == [total : S, avail : S, disk : S]
Admissions(S) == [mem : S, disk : S, reserveRAM : S, reserveDisk : S]

AtLeast0(x) == IF x < 0 THEN 0 ELSE x
Least(x, y) == IF x < y THEN x ELSE y

(* The default size when none is configured. *)
memory(a) == IF a.mem <= 0 THEN 2048 ELSE a.mem

(* How many VMs fit on the empty host; a disk size of 0 is unknown. *)
MaxFit(a, inv) ==
  LET ram  == AtLeast0(inv.total - a.reserveRAM) \div memory(a)
      disk == AtLeast0(inv.disk - a.reserveDisk) \div a.disk
  IN  IF a.disk > 0 THEN Least(disk, ram) ELSE ram

(* One more VM of size next, when VMs of committed MiB are allocated. *)
CanCreateMemory(a, inv, committed, next) ==
  LET size == IF next <= 0 THEN memory(a) ELSE next
  IN  /\ AtLeast0(committed) + size <= inv.total - a.reserveRAM
      /\ size <= inv.avail
      /\ a.disk > 0 => a.disk + a.reserveDisk <= inv.disk

CanCreate(a, inv, allocated) ==
  CanCreateMemory(a, inv, AtLeast0(allocated) * memory(a), memory(a))

(* "how many additional creates would still pass CanCreate" *)
Remaining(a, inv, allocated) ==
  LET usable == inv.total - a.reserveRAM - allocated * memory(a)
      ram    == AtLeast0(Least(inv.avail \div memory(a), usable \div memory(a)))
  IN  IF ~CanCreate(a, inv, allocated) THEN 0
      ELSE IF a.disk > 0 THEN Least((inv.disk - a.reserveDisk) \div a.disk, ram) ELSE ram

(* min_ready and max_ready, lowered to what fits. *)
ClampPoolToHost(cfg, a, inv) ==
  LET max == Least(MaxFit(a, inv), cfg.max)
  IN  [max |-> max, min |-> IF cfg.max > max THEN Least(cfg.min, max) ELSE cfg.min]
=============================================================================
