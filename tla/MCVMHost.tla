------------------------------ MODULE MCVMHost ------------------------------
(* Instances of VMHost for TLC. *)
EXTENDS VMHost, TLC
=============================================================================
