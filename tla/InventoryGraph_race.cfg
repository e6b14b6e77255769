\* Two syncs of the host alone and two rebuilds, of two processes, whose
\* attempts begin at one instant or at two.
SPECIFICATION Spec
SYMMETRY Alike
CHECK_DEADLOCK FALSE  \* the runs and the rebuilds are spent
CONSTANTS
  Runs = {r1, r2}
  Members = {}
  Self = self
  Ids = {i1}
  None = none
  MaxChanges = 0
  Builders = {b1, b2}
  Limit = 1
  MaxClock = 2
INVARIANTS RetainedIsTold
PROPERTIES NoStepBack
