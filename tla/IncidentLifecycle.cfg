\* Two jobs for one condition, a sub-agent, one retry of each Task, and one
\* invocation at a time that nobody awaits.
SPECIFICATION Spec
CHECK_DEADLOCK FALSE  \* the jobs are spent
CONSTANTS
  Keys = {k1}
  Blank = blank
  Jobs = {j1, j2}
  Agents = {a1}
  None = none
  MaxTries = 1
  MaxLate = 1
INVARIANTS SingleInvestigation SecondNeedsOverlap
PROPERTIES SettledIsFinal RunningStageSettles
