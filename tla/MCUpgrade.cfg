CONSTANTS
  Names = {"Default", "b"}
  IdOf <- MCIdOf
  FirstDbs <- MCFirstDbs
  FirstLogs = {0, 1}
  MaxRows = 6
  MaxFaults = 3
SPECIFICATION FairSpec
INVARIANTS TypeOK RestartIsSafe CutoverParts
PROPERTIES UpgradeEnds
