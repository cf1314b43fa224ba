CONSTANTS
  Servers = {"s1"}
  Names = {"a"}
  FirstName <- OneName
  Grabs <- MoreGrabs
  Items <- SomeItems
  Window = 1
  MaxKept = 2
  LastSearch = 2
  MaxTime = 4
  MaxInserts = 2
  MaxRenames = 0
  MaxFaults = 0
SPECIFICATION Spec
CHECK_DEADLOCK FALSE
INVARIANT OnlyMostRecentIsCredited
