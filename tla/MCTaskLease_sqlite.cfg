SPECIFICATION Spec
CONSTANTS
  Task = {t1}
  Client = {w1, w2}
  Sweeper = sweeper
  Status <- MCStatus
  Initial = "todo"
  Terminal = {"done"}
  Completes = {"done"}
  Edge <- MCEdge
  RevertTo <- MCRevertTo
  Recurring = {t1}
  TTL <- OneLength
  OwnLease = FALSE
  Engine = "sqlite"
  Ops <- EveryOp
  SweepLimit = 1
  MaxTime = 2
  MaxTokens = 2
  MaxVersion = 6
SYMMETRY ClientSymmetry
INVARIANTS
  ToldIsStored
  ChecksStillHold
  OneSuccessor
  FinishedIsCompleted
PROPERTIES
  LiveLeaseEndsOnlyOnPurpose
  ImplementsContract
  StatusFollowsWorkflow
  FinishedIsNeverClaimed
