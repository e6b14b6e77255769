\* One report, one service retry.
SPECIFICATION PipeSpec
CONSTANTS
  Jobs = {j1}
  MaxTries = 2
  SvcRetries <- OneSvcRetry
  TimeoutRetries <- NoRetries
  TaskTimeout <- OneTick
  QueuedStale = 1
  RunningStale = 2
  MaxSends = 1
  MaxPauses = 0
  MaxBeats = 1
  DescribeMayFail = FALSE
INVARIANTS SuccessSettlesReport
PROPERTIES ReportIsFinal RenderingNotReaped
