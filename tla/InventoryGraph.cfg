\* Two syncs of the host and a member, whose scope or connection changes once,
\* and one rebuild of one account.
SPECIFICATION Spec
SYMMETRY Alike
CHECK_DEADLOCK FALSE  \* the runs and the rebuilds are spent
CONSTANTS
  Runs = {r1, r2}
  Members = {m1}
  Self = self
  Ids = {i1}
  None = none
  MaxChanges = 1
  Builders = {b1}
  Limit = 1
  MaxClock = 1
INVARIANTS SucceededIsSnapshot GraphIsWhole
