CONSTANTS
  Packs <- SomePacks
  Targets <- SomeTargets
  Window = 1
  Escalation = 1
  MaxLists = 1
  MaxLookups = 1
  LastSearch = 1
  MaxTime = 4
  MaxRows = 2
  MaxFaults = 1
SPECIFICATION FairSpec
CHECK_DEADLOCK FALSE
INVARIANTS TypeOK CreditFits NoCollision
PROPERTIES CreditsOnce NewestIsCredited NothingOverlooked EverySearchSettles
