SPECIFICATION Spec
CONSTANTS
  j1 = j1
  j2 = j2
  r1 = r1
  r2 = r2
  Jobs = {j1, j2}
  Agents = {a1}
  VMs = {}
  Repos = {r1, r2}
  RepoOf <- MCRepoOf
  Outcomes = {"cancelled"}
  NoAgent = NoAgent
  NoVM = NoVM
  PersistMayFail = TRUE
  MaxClock = 3
  MaxFlush = 1
INVARIANTS QueueCoversMinted QueueNoDup 
PROPERTIES QueueOrderStable
