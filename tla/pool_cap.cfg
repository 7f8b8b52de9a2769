SPECIFICATION PoolSpec
CONSTANTS
  j1 = j1
  j2 = j2
  small = small
  large = large
  Ids = {i1, i2, i3}
  Jobs = {j1, j2}
  Shapes = {small, large}
  MemOf <- MCMemOf
  ShapeOf <- MCShapeOf
  MinReady <- MCMinReady
  MaxReady = 1
  MaxTotalVMs = 2
  RAMBudget = 3
  NoId = NoId
  NoJob = NoJob
  InventoryMayRefuse = TRUE
  BootWaitMayExpire = TRUE
  BootMayFail = TRUE
  DestroyMayFail = TRUE
  IdleRecycle = FALSE
  MayDrain = FALSE
  MayKill = TRUE
  MayStop = FALSE
  MayCrash = FALSE
  MaxOrphans = 1
SYMMETRY IdSymmetry
INVARIANTS WithinMaxTotal WithinRAMBudget
