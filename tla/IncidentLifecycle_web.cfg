\* One alert, accepted by the web tier and enqueued.
SPECIFICATION Spec
CHECK_DEADLOCK FALSE  \* the job is spent
CONSTANTS
  Keys = {k1}
  Blank = blank
  Jobs = {j1}
  Agents = {a1}
  None = none
  MaxTries = 0
  MaxLate = 0
INVARIANTS NewIsInvestigated
