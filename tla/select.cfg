SPECIFICATION SelSpec
CONSTANTS
  Named = 2
  MaxLen = 7
  MaxMixed = 4
  MaxLimit = 5
INVARIANTS
  FillsTree
  EveryClientCarried
  SharesWithinOne
CHECK_DEADLOCK FALSE
