SPECIFICATION FpSpec
CONSTANTS
  e1 = e1
  e2 = e2
  n1 = n1
  None = None
  Ids = {a, b}
  Endpoints = {e1, e2}
  Nets = {n1}
  ELClients = {g}
  CLClients = {l}
  Records <- Moving
  Requests <- Nobody
  Seeds = {}
  Devnet = n1
  Removals = TRUE
  Slots = {s1, s2}
  Max = 1
  Batch = 1
  CandidateLimit = 1
  MaxAttempts = 1
PROPERTIES
  ProbesReturn
  ShutsDown
