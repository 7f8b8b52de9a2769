SPECIFICATION HostSpec
CONSTANTS
  Ids = {vm1, vm2}
  MaxFaults = 2
  MayOverlap = FALSE
CHECK_DEADLOCK FALSE
  
PROPERTIES  TeardownEnds
