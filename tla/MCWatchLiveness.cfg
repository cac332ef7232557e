SPECIFICATION FairSpec
CONSTANTS
  Logins = {ann}
  PRs = {"pr1"}
  Tokens = {t1}
  Ids = {w1}
  Callers = {c1}
  Observable = {"PENDING", "COMPLETED"}
  Errors = {"GITHUB_ERROR"}
  Threshold = 2
  MaxTriggers = 2
  MaxFaults = 1
  MaxCrashes = 1
  Nil = Nil
PROPERTIES
  WatchEnds
  WorkerExits
  EndIsLearnt
CHECK_DEADLOCK FALSE
