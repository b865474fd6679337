SPECIFICATION Spec
CONSTANTS
  c1 = c1
  c2 = c2
  Engine = "sqlite"
  Writer = {w1, w2}
  MaxSeq = 3
  Quiet = FALSE
  Conn <- TwoClients
  Wants <- MCWants
  Pump = {p1, p2}
  Batch = 1
  QueueLimit = 1
  BacklogLimit = 1
  RetryLimit = 1
  MaxFaults = 1
  NoPump = NoPump
  Returning <- Former
SYMMETRY WriterSymmetry
INVARIANTS
  TypeOK
  NothingSkipped
  OneReader
PROPERTIES
  ImplementsFeed
  AcceptedResumeIsComplete
