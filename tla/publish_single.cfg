SPECIFICATION Spec
CONSTANTS
  Crawlers = {c1}
  None = None
  Networks = {mainnet, sepolia}
  Counts <- CountsFullOrGutted
  MinCurrent = 0
  MaxCollapsePct = 50
  ForkTimes <- ForkAtThree
  ForcePublish = TRUE
  Keep = 1
  Verified = TRUE
  LateWrites = FALSE
  ClockStepsBack = FALSE
  MaxClock = 4
  MaxRuns = 2
INVARIANTS
  ManifestBacked
  ForcedOnce
SYMMETRY NetworkSymmetry
CHECK_DEADLOCK FALSE
