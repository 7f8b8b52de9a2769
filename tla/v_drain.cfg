SPECIFICATION PoolSpec
CONSTANTS
  j1 = j1
  j2 = j2
  small = small
  large = large
  Ids = {i1}
  Jobs = {j1}
  Shapes = {small}
  MemOf <- MCOneMem
  ShapeOf <- MCOneShape
  MinReady <- MCOneReady
  MaxReady = 1
  MaxTotalVMs = 1
  RAMBudget = 1
  NoId = NoId
  NoJob = NoJob
  InventoryMayRefuse = FALSE
  BootWaitMayExpire = TRUE
  BootMayFail = FALSE
  DestroyMayFail = FALSE
  IdleRecycle = FALSE
  MayDrain = TRUE
  MayKill = FALSE
  MayStop = FALSE
  MaxOrphans = 1
  MayCrash = FALSE
PROPERTIES DrainSparesBusy
