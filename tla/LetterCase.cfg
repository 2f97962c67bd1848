SPECIFICATION Spec
CONSTANTS
  x = x
  y = y
  Paths <- MCCasePaths
  Prefixes <- MCPrefixes
  Fold <- MCFold
  Rank <- MCRank
  Contents <- MCContents
  Absent = Absent
  Keep = Keep
  Anything = Anything
  Needs <- MCNeeds
  Start <- MCCaseStart
  None = None
  Tasks = {t1, t2}
  Store = Store
  Elsewhere = Elsewhere
  MaxCalls = 3
  MaxCommits = 2
SYMMETRY Symmetry
INVARIANTS
  NoTwoPathsFoldTheSame
CHECK_DEADLOCK FALSE
