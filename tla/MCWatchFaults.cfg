SPECIFICATION Spec
CONSTANTS
  Logins = {ann}
  PRs = {"pr1"}
  Tokens = {t1, t2}
  Ids = {w1, w2}
  Callers = {c1, c2}
  Observable = {"PENDING", "COMPLETED"}
  Errors = {"AUTH_EXPIRED"}
  Threshold = 2
  MaxTriggers = 0
  MaxFaults = 1
  MaxCrashes = 0
  Nil = Nil
SYMMETRY Symmetry
INVARIANTS
  TypeOK
  LiveWatchHasActiveRow
  ReleasedIffEnded
  LiveWatchHasWorker
  SubscribersCurrent
PROPERTIES
  EndedForGood
CHECK_DEADLOCK FALSE
