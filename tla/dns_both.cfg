SPECIFICATION Spec
CONSTANTS
  Capabilities <- BothCapabilities
  Entries = {"a", "b"}
  Picks <- PicksTwo
  MinTreeNodes = 1
  MaxDropPct = 50
  ForkTimes <- ForkAtTwo
  MaxSnapshotAge = 1
  MaxCycles = 2
  MaxFaults = 2
  MaxGen = 3
INVARIANTS
  RootResolvable
  BaselineServed
  RetainedWalk
  CleanCycleHeals
PROPERTIES
  SequenceIncreases
  DropNeedsFork
CHECK_DEADLOCK FALSE
