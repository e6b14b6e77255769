\* Two users, two saves of one of them, two rows coming due.
SPECIFICATION Spec
CONSTANTS
  u1 = u1
  u2 = u2
  weekly = weekly
  monthly = monthly
  dated = dated
  Users = {u1, u2}
  Types = {weekly, monthly}
  Configs = {plain, dated}
  Detailed = {dated}
  Tables <- MCTables
  Savers <- MCSavers
  Runs = {a}
  MaxSaves = 2
  MaxDues = 2
  None = None
INVARIANTS ActiveIsAsSaved NextMatchesConfig
PROPERTIES ConflictMeansConcurrent DueIsClaimed
\* saves, due dates and runs are bounded
CHECK_DEADLOCK FALSE
