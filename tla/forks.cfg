SPECIFICATION Spec
CONSTANTS
  Grace = 4
  Far = 99
  BPONames <- Names
  Rollouts <- Accepted
  Interval = 2
  DenseInterval = 1
  DenseWindow = 1
  Retention = 4
  MaxPoints = 1
  MaxTime = 9
  MaxFaults = 1
INVARIANTS
  SqlMirrorsGo
  EraExplains
  VerdictSound
  SeriesContinues
  OneCurve
PROPERTY PointsKept
CHECK_DEADLOCK FALSE
CONSTRAINT Followed
