CONSTANTS
  Names = {"Default", "b"}
  IdOf <- MCIdOf
  FirstDbs <- MCFirstDbs
  FirstLogs = {0, 1}
  MaxRows = 6
  MaxFaults = 1
SPECIFICATION FairSpec
INVARIANT UpIsWhole
