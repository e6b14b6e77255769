\* One report, no retries, one pause: every report settles.
SPECIFICATION PipeSpec
CONSTANTS
  Jobs = {j1}
  MaxTries = 1
  SvcRetries <- NoRetries
  TimeoutRetries <- NoRetries
  TaskTimeout <- OneTick
  QueuedStale = 1
  RunningStale = 2
  MaxSends = 1
  MaxPauses = 1
  MaxBeats = 1
  DescribeMayFail = FALSE
PROPERTIES ReportSettles
