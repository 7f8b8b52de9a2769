SPECIFICATION WorkerSpec
CONSTANTS
  Jobs = {j1, j2, j3}
  Cfg <- MCCfg
  Adm <- MCAdm
  Hosts <- MCHosts
  MaxFaults = 1
CHECK_DEADLOCK FALSE
INVARIANTS WithinCapacity DrainSparesJobs
  
