SPECIFICATION Spec
CONSTANTS
  Engine = "sqlite"
  w1 = w1
  w2 = w2
  Runner <- TwoRunners
  Records = 2
  Paged = TRUE
  PageSize = 1
  Touched = {1}
  Contended = {1}
  MaxTime = 2
  MaxCopies = 2
SYMMETRY RunnerSymmetry
INVARIANTS
  TypeOK
  NothingPassedOver
  ImportedOnce
  FinishedRunIsComplete
PROPERTIES
  CursorFallsOnPurpose
