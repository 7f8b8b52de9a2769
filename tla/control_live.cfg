SPECIFICATION CPLive
CONSTANTS
  j1 = j1
  j2 = j2
  r1 = r1
  Jobs = {j1}
  Agents = {a1}
  VMs = {v1}
  Repos = {r1}
  RepoOf <- MCRepoOf
  Outcomes = {"success", "error", "stuck", "cancelled"}
  NoAgent = NoAgent
  NoVM = NoVM
  NoJob = NoJob
  Conclusion = "success"
  PersistMayFail = FALSE
  StuckCheck = TRUE
  StaleCheck = TRUE
  MayCrash = TRUE
  MaxClock = 2
  MaxFlush = 1
  MaxStimuli = 2
PROPERTIES StuckEventuallyCleared StoreSpec
