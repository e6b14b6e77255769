\* Two reports, two runs, a death, a change of the flag, the migration to come.
SPECIFICATION Spec
CONSTANTS
  Reports = {r1, r2}
  Runs = {a, b}
  Topic = TRUE
  Migrated = FALSE
  MaxDeaths = 1
  MaxToggles = 1
  LostAnswers = TRUE
  NoRun = NoRun
INVARIANTS TypeOK EmailedIsTrue RepeatsAreExplained
PROPERTIES StampedIsDone BacklogDrains
