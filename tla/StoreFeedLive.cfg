CONSTANTS
  Paths = {a}
  Commits = {c1, c2}
  Requests <- MCWrites
  MaxFailures = 1
  MaxTheirs = 1
  Follower = Follower
  Supervisor = Supervisor
  Inner = Inner

SPECIFICATION FairSpec
CHECK_DEADLOCK FALSE
PROPERTIES ChangesAreTold CommitsAnswer FeedEnds
