SPECIFICATION Spec
CONSTANTS
  Logins = {ann}
  PRs = {"pr1"}
  Tokens = {t1}
  Ids = {w1, w2}
  Callers = {c1}
  Observable = {"PENDING", "COMPLETED"}
  Errors = {"AUTH_EXPIRED"}
  Threshold = 1
  MaxTriggers = 0
  MaxFaults = 1
  MaxCrashes = 0
  Nil = Nil
SYMMETRY Symmetry
INVARIANTS
  FinishedKeyIsFree
CHECK_DEADLOCK FALSE
