CONSTANTS
  a = a
  b = b
  v = v
  w = w
  da = da
  db = db
  Paths <- MCPaths
  Contents <- MCContents
  Absent = Absent
  Keep = Keep
  Anything = Anything
  Requests <- MCRequests
  Stores = {s1}
  Ids = {c1}
  NoRequest = NoRequest
  NoStore = NoStore
  NoId = NoId
  Torn = Torn
  Directory <- MCDirectory
  Retries = 1
  Faults = {"rename", "power"}

SPECIFICATION Spec
INVARIANT SurvivesPowerCut
