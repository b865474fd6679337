SPECIFICATION FairSpec
CONSTANTS
  server = server
  inline = inline
  Endpoint = {hook}
  Dispatcher = {server, inline}
  Mortal = {inline}
  Batch <- Batches
  Lease = 2
  Retries = 2
  Backoff <- TwoRetries
  MaxSeq = 1
  MaxRequeues = 1
  MaxErrors = 1
INVARIANTS OneLiveClaim DeliveredWasAccepted
PROPERTIES SettledReopensOnlyLate FailedOnlyWhenSpent EverySettles
