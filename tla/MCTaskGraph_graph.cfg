SPECIFICATION Spec
CONSTANTS
  Task = {t1, t2, t3}
  Client = {c1, c2}
  Engine = "sqlite"
  Root = Root
SYMMETRY Interchangeable
INVARIANTS NoParentCycle NoDependencyCycle SoundImportIsWhole WalkFindsTheCycle
PROPERTIES DeleteOrphansNobody
