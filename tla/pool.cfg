SPECIFICATION PoolSpec
CONSTANTS
  j1 = j1
  j2 = j2
  small = small
  large = large
  Ids = {i1, i2}
  Jobs = {j1, j2}
  Shapes = {small}
  MemOf <- MCOneMem
  ShapeOf <- MCOneShape
  MinReady <- MCOneReady
  MaxReady = 1
  MaxTotalVMs = 2
  RAMBudget = 2
  NoId = NoId
  NoJob = NoJob
  InventoryMayRefuse = FALSE
  BootWaitMayExpire = TRUE
  BootMayFail = TRUE
  DestroyMayFail = TRUE
  IdleRecycle = TRUE
  MayDrain = TRUE
  MayKill = TRUE
  MayStop = TRUE
  MayCrash = TRUE
  MaxOrphans = 0
SYMMETRY IdSymmetry
INVARIANTS OneJobPerVM JobVMTracked BusyHasOwner HostAccounted
