\* One job, a replayed request, one pause: the ledger is JobLedger, and settles.
SPECIFICATION Spec
CONSTANTS
  Jobs = {j1}
  MaxTries = 1
  SvcRetries <- NoRetries
  TimeoutRetries <- NoRetries
  TaskTimeout <- MCTaskTimeout
  QueuedStale = 1
  RunningStale = 3
  MaxSends = 2
  MaxPauses = 1
  DescribeMayFail = FALSE
PROPERTIES ImplementsLedger RunningSettles QueuedSettles
