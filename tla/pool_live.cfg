SPECIFICATION PoolLive
CONSTANTS
  j1 = j1
  j2 = j2
  small = small
  large = large
  Ids = {i1, i2, i3}
  Jobs = {j1, j2}
  Shapes = {small}
  MemOf <- MCOneMem
  ShapeOf <- MCOneShape
  MinReady <- MCOneReady
  MaxReady = 1
  MaxTotalVMs = 1
  RAMBudget = 2
  NoId = NoId
  NoJob = NoJob
  InventoryMayRefuse = FALSE
  BootWaitMayExpire = TRUE
  BootMayFail = TRUE
  DestroyMayFail = TRUE
  IdleRecycle = FALSE
  MayDrain = FALSE
  MayKill = FALSE
  MayStop = FALSE
  MaxOrphans = 1
  MayCrash = FALSE
PROPERTIES BindReturns TeardownCompletes Restocked
