SPECIFICATION Spec
CONSTANTS
  Requesters = {r1}
  Observers = {o1}
  States = {"COMMENTED"}
  Skew = 0
  Lag = 0
  Automatic = FALSE
  CallTime = 0
  ReviewTime = 1
  MaxTime = 3
  MaxReviews = 1
  MaxRows = 2
  Nil = Nil
INVARIANT GetLatestReturnsNewest
CHECK_DEADLOCK FALSE
