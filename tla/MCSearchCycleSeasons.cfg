CONSTANTS
  a = a
  b = b
  c = c
  Items = {a, b, c}
  Configs <- SeasonsConfigs
  WantedLists <- SeasonsLists
  Unfetched = Unfetched
  CrossQueueDedup = TRUE
  PassModulus = 2
  FailureCap = 1
  MaxFaults = 2
SPECIFICATION FairSpec
INVARIANTS OneDispatchPerSeason MarkedWasAttempted
PROPERTIES PassMeansCovered EveryItemSearched
