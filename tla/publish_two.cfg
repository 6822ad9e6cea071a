SPECIFICATION Spec
CONSTANTS
  Crawlers = {c1, c2}
  None = None
  Networks = {mainnet}
  Counts <- CountsOne
  MinCurrent = 0
  MaxCollapsePct = 50
  ForkTimes <- NoForks
  ForcePublish = TRUE
  Keep = 0
  Verified = FALSE
  LateWrites = TRUE
  ClockStepsBack = TRUE
  MaxClock = 3
  MaxRuns = 3
PROPERTIES GenerationsAdvance NoLostCommit
CHECK_DEADLOCK FALSE
