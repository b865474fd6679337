SPECIFICATION LiveSpec
CONSTANTS
  full = full
  bare = bare
  registrar = registrar
  sweeper = sweeper
  dispatcher = dispatcher
  Server = {full, bare}
  Worker = {registrar, sweeper, dispatcher}
  Registrar = registrar
  Staff <- Configured
  Prearmed = {dispatcher}
  Stale = 0
  Forget = 0
  MaxFaults = 1
INVARIANTS StoppedLeavesNoRow
PROPERTIES SelfArmedWorkerWorks RunningServerIsListed ServeReturns
