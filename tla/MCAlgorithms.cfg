CONSTANTS
  MaxCount = 6
  MaxHard = 9
  Items = {a, b, c, d}
  MaxLength = 4
  MaxSize = 5
SPECIFICATION Spec
INVARIANTS InvConserved InvShare LeastRecentFirst ExclusionKeepsPlace PassEndsOnTime
