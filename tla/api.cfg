SPECIFICATION FairApiSpec
CONSTANTS
  Requests <- ThreeRequests
  None <- NoRequest
  Workloads <- AllEndpoints
  Capacity = 1
  StableAttempts = 2
  MaxGen = 2
  MaxFaults = 1
INVARIANTS
  ResponseFresh
  BreakdownKept
  NoInheritedCancel
PROPERTIES
  Answered
CHECK_DEADLOCK FALSE
