SPECIFICATION LiveSpec
CONSTANTS
  Readers = {r1}
  Workers = {w1}
  Loops = {l1}
  Probers = {p1}
  Requests = {h1}
  Peers = {c1}
  Refresher = refresh
  el = el
  cl = cl
  Identities <- JustConsensus
  Consensus <- OfConsensus
  NodesCap = 1
  QueueCap = 1
PROPERTIES
  Stops
CHECK_DEADLOCK FALSE
