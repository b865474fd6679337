SPECIFICATION LiveSpec
CONSTANTS
  full = full
  bare = bare
  registrar = registrar
  sweeper = sweeper
  dispatcher = dispatcher
  Server = {full}
  Worker = {registrar, sweeper, dispatcher}
  Registrar = registrar
  Staff <- Configured
  Prearmed = {dispatcher}
  Stale = 0
  Forget = 1
  MaxFaults = 1
PROPERTIES EveryWorkerWorks
