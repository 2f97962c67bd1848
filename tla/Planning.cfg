SPECIFICATION Spec
CONSTANTS
  x = x
  y = y
  Paths <- MCPaths
  Prefixes <- MCPrefixes
  Fold <- MCFold
  Rank <- MCRank
  Contents <- MCContents
  Absent = Absent
  Keep = Keep
  Anything = Anything
  Needs <- MCNeeds
  Start <- MCStart
  None = None
  Tasks = {t1, t2}
  Store = Store
  Elsewhere = Elsewhere
  MaxCalls = 3
  MaxCommits = 2
SYMMETRY Symmetry
INVARIANTS
  NothingClashes
PROPERTIES
  MadeAsStaged
  RefusedForAReason
  MadeAsAsked
CHECK_DEADLOCK FALSE
