CONSTANTS
  Paths = {a, b}
  Dir = Dir
  Contents = {x, y}
  Absent = Absent
  Unknown = Unknown
  MaxEdits = 2
  MaxCommits = 1
  MaxLosses = 1
  MaxErrors = 1
  Swaps = FALSE

SPECIFICATION Spec
SYMMETRY Symmetry
CHECK_DEADLOCK FALSE
INVARIANTS TypeOK SettledIsReported RestsWhenSettled
PROPERTIES OwnCommitsAreNotTheirs
