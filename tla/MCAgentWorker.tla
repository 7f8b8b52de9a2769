---------------------------- MODULE MCAgentWorker ----------------------------
(* Instances of AgentWorker for TLC. *)
EXTENDS AgentWorker, TLC

\* VMs of 2 MiB on a host with room for two; at times its live memory is too low for one.
MCCfg   == [min |-> 1, max |-> 3]
MCAdm   == [mem |-> 2, disk |-> 1, reserveRAM |-> 1, reserveDisk |-> 1]
MCHosts == {[total |-> 5, avail |-> 4, disk |-> 4], [total |-> 5, avail |-> 1, disk |-> 4]}
=============================================================================
