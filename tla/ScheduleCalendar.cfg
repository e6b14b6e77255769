\* Sixteen months from a Friday on, all boundary schedules.
SPECIFICATION Spec
CONSTANTS
  Absent = Absent
  FirstWeekday = 5
  Lates <- MCLates
  MonthStart <- MCMonthStart
  Schedules <- MCSchedules
  SaveTimes <- MCSaveTimes
INVARIANTS TypeOK FirstAndNextAgree AsConfigured
PROPERTIES NoDoubleRun NoDrift
\* the calendar ends
CHECK_DEADLOCK FALSE
