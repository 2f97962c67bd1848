CONSTANTS
  Stores = {s1, s2}
  MaxTime = 1
  Retention = 0
  MaxCommits = 3
  MaxRemovals = 1
  RemovedWhileOpening = FALSE

SPECIFICATION Spec
SYMMETRY Symmetry
INVARIANTS TypeOK NothingIsLost HeardOnceInOrder OriginIsTrue OnTheDatabaseThere
PROPERTIES MissedOnlyIfSo
