SPECIFICATION FairReadSpec
CONSTANTS
  Crawlers = {c1}
  None = None
  Networks = {mainnet, sepolia}
  Counts <- CountsOne
  MinCurrent = 0
  MaxCollapsePct = 50
  ForkTimes <- NoForks
  ForcePublish = TRUE
  Keep = 1
  Verified = TRUE
  LateWrites = FALSE
  ClockStepsBack = TRUE
  MaxClock = 3
  MaxRuns = 2
  MaxReadFaults = 1
INVARIANTS
  TablesMatchServed
PROPERTIES
  ImplementsFeed
  CatchesUp
CHECK_DEADLOCK FALSE
