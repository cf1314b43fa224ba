CONSTANTS
  a = a
  b = b
  c = c
  Items = {a, b}
  Configs <- MoviesConfigs
  WantedLists <- MoviesLists
  Unfetched = Unfetched
  CrossQueueDedup = FALSE
  PassModulus = 2
  FailureCap = 1
  MaxFaults = 1
SPECIFICATION Spec
INVARIANTS UnfetchedIsFailed
