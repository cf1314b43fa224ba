CONSTANTS
  Servers = {"s1", "s2"}
  Names = {"a", "b"}
  FirstName <- TwoNames
  Grabs <- SomeGrabs
  Items <- SomeItems
  Window = 1
  MaxKept = 1
  LastSearch = 1
  MaxTime = 3
  MaxInserts = 3
  MaxRenames = 1
  MaxFaults = 1
SPECIFICATION FairSpec
CHECK_DEADLOCK FALSE
INVARIANTS TypeOK FoundIsExact PendingBounded
PROPERTIES VerdictsLast NothingOverlooked EverySearchSettles
