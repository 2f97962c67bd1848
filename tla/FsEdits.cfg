CONSTANTS
  a = a
  b = b
  v = v
  w = w
  da = da
  db = db
  Paths <- MCPaths
  Contents <- MCContents
  Absent = Absent
  Keep = Keep
  Anything = Anything
  Requests <- MCRequests
  Stores = {s1}
  Ids = {c1}
  NoRequest = NoRequest
  NoStore = NoStore
  NoId = NoId
  Torn = Torn
  Directory <- MCDirectory
  Retries = 2
  Faults = {"process", "rename", "external", "power", "journalSync", "journalRead"}

SPECIFICATION FairSpec
PROPERTY FinishingShowsNothing
PROPERTY LockIsGivenBack
