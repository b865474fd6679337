SPECIFICATION ExecSpec
CONSTANTS
  Task = {t1}
  Expiry <- UpToTheLast
  MaxTime = 9
  MaxTokens = 2
  Worker = {w1, w2}
  Length = {6, 7}
  MinInterval = 1
  Delay = 1
  MaxFaults = 1
SYMMETRY WorkerSymmetry
CHECK_DEADLOCK FALSE
INVARIANTS ExecTypeOK LeasedWhileRenewed LeftBehindLapses
PROPERTIES ZombieTouchesNothing
