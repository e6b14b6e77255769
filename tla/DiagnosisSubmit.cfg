\* Three concurrent requests, one worker.
SPECIFICATION Spec
CONSTANTS
  Requests = {r1, r2, r3}
  Workers = {w1}
  Job = job
  NoReport = none
SYMMETRY Interchangeable
INVARIANTS TypeOK AnswerNamesTheJobsReport OneReportAtATime HandedOutIsKept NoOrphans GoneIsTrue
CHECK_DEADLOCK FALSE
