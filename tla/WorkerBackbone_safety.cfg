\* One job, one retry of each kind, one pause.
SPECIFICATION Spec
CONSTANTS
  Jobs = {j1}
  MaxTries = 3
  SvcRetries <- MCSvcRetries
  TimeoutRetries <- MCTimeoutRetries
  TaskTimeout <- MCTaskTimeout
  QueuedStale = 1
  RunningStale = 3
  MaxSends = 1
  MaxPauses = 1
  DescribeMayFail = FALSE
INVARIANTS TypeOK EndedMeansSettled PausedNeverReaped
PROPERTIES TerminalIsFinal SfnDecidesBeforeReaper
