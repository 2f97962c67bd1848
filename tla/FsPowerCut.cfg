CONSTANTS
  a = a
  b = b
  v = v
  w = w
  da = da
  db = db
  Paths <- MCPaths
  Contents <- MCContents
  Absent = Absent
  Keep = Keep
  Anything = Anything
  Requests <- MCRequests
  Stores = {s1, s2}
  Ids = {c1, c2}
  NoRequest = NoRequest
  NoStore = NoStore
  NoId = NoId
  Torn = Torn
  Directory <- MCDirectory
  Retries = 1
  Faults = {"power", "write", "journalWrite", "journalRead"}
  NoRead = NoRead

SPECIFICATION ReadSpec
SYMMETRY Symmetry
INVARIANT SurvivesPowerCut ReadsAreTrue
