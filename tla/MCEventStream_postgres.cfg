SPECIFICATION Spec
CONSTANTS
  c1 = c1
  c2 = c2
  Engine = "postgres"
  Writer = {w1, w2}
  MaxSeq = 3
  Quiet = FALSE
  Conn <- OneClient
  Wants <- MCWants
  Pump = {p1, p2}
  Batch = 1
  QueueLimit = 1
  BacklogLimit = 1
  RetryLimit = 1
  MaxFaults = 0
  NoPump = NoPump
  Returning <- Former
INVARIANTS
  NothingSkipped
