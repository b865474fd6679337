SPECIFICATION LiveSpec
CONSTANTS
  c1 = c1
  c2 = c2
  Engine = "sqlite"
  Writer = {w1}
  MaxSeq = 4
  Quiet = FALSE
  Conn <- OneClient
  Wants <- MCWants
  Pump = {p1, p2}
  Batch = 1
  QueueLimit = 1
  BacklogLimit = 1
  RetryLimit = 1
  MaxFaults = 0
  NoPump = NoPump
  Returning <- Former
PROPERTIES
  LiveGetsEvents
