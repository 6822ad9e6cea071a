SPECIFICATION DialSpec
CONSTANTS
  Ids = {n1, n2}
  Values = {v}
  NoEntry = NoEntry
  TTL = 2
  Max = 1
  Lag = 1
  MaxClock = 6
  MaxSeq = 3
  Workers = {w1, w2}
  Cost = 2
  Burst = 1
  Limit = 1
  BudgetTTL = 3
  MaxOthers = 1
INVARIANTS
  OnlyDialsSpend
  BudgetHonoured
\* A refinement without liveness: symmetry and view are sound for it.
PROPERTY ImplementsTtlMap
SYMMETRY DialSymmetry
VIEW DialView
CHECK_DEADLOCK FALSE
