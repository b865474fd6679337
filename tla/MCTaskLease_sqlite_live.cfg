SPECIFICATION FairSpec
CONSTANTS
  Task = {t1, t2}
  Client = {w1}
  Sweeper = sweeper
  Status <- MCStatus
  Initial = "todo"
  Terminal = {"done"}
  Completes = {"done"}
  Edge <- MCEdge
  RevertTo <- MCRevertTo
  Recurring = {}
  TTL <- OneTick
  OwnLease = FALSE
  Engine = "sqlite"
  Ops <- LiveOps
  SweepLimit = 1
  MaxTime = 2
  MaxTokens = 2
  MaxVersion = 2
PROPERTIES
  LapsedIsSwept
  PassedSnoozeIsCleared
