SPECIFICATION FpSpec
CONSTANTS
  e1 = e1
  e2 = e2
  n1 = n1
  None = None
  Ids = {a}
  Endpoints = {e1, e2}
  Nets = {n1}
  ELClients = {g}
  CLClients = {l}
  Records <- Everything
  Requests <- Signed
  Seeds = {a}
  Devnet = n1
  Removals = FALSE
  Slots = {s1, s2}
  Max = 1
  Batch = 1
  CandidateLimit = 1
  MaxAttempts = 2
SYMMETRY SlotSymmetry
INVARIANTS
  ClaimHasOneOwner
  VerifiedSinceClaim
  CandidatesExact
  HeadMatches
  IdentityOfLayer
