CONSTANTS
  Paths = {a, b}
  Contents = {x, y}
  Absent = Absent
  Unfit = Unfit
  Blocked = Blocked
  Linked = Linked
  Obstacles = {Blocked, Linked}
  Agreed = Agreed
  Unread = Unread
  MaxChanges = 3
  MaxCommands = 2
  MaxFaults = 1

SPECIFICATION Spec
SYMMETRY Symmetry
CHECK_DEADLOCK FALSE
INVARIANTS TypeOK TheirsAsRecorded CaughtUp
PROPERTIES EditsAreKept ReplacedWasMerged
