CONSTANTS
  Paths = {a}
  Commits = {c1, c2}
  Requests <- MCRequests
  MaxFailures = 1
  MaxTheirs = 2
  Follower = Follower
  Supervisor = Supervisor
  Inner = Inner

SPECIFICATION Spec
SYMMETRY Symmetry
CHECK_DEADLOCK FALSE
INVARIANTS TypeOK OnTheirWay KindIsLatest NoLostWakeUp EndIsTheEnd
