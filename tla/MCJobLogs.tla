------------------------------ MODULE MCJobLogs ------------------------------
(* Instances of JobLogs for TLC. *)
EXTENDS JobLogs
=============================================================================
