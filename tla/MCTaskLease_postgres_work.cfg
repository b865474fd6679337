SPECIFICATION Spec
CONSTANTS
  Task = {t1}
  Client = {w1, w2}
  Sweeper = sweeper
  Status <- MCStatus
  Initial = "todo"
  Terminal = {"done"}
  Completes = {"done"}
  Edge <- MCEdge
  RevertTo <- MCRevertTo
  Recurring = {t1}
  TTL <- OneTick
  OwnLease = FALSE
  Engine = "postgres"
  Ops <- WriteRace
  SweepLimit = 1
  MaxTime = 1
  MaxTokens = 0
  MaxVersion = 3
SYMMETRY ClientSymmetry
PROPERTIES
  SnoozeIsKept
