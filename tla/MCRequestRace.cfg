SPECIFICATION Spec
CONSTANTS
  Requesters = {r1, r2}
  Observers = {o1}
  States = {"CHANGES_REQUESTED"}
  Skew = 0
  Lag = 0
  Automatic = TRUE
  CallTime = 0
  ReviewTime = 1
  MaxTime = 3
  MaxReviews = 2
  MaxRows = 2
  Nil = Nil
SYMMETRY Alike
INVARIANT DuplicatesAreRaces
INVARIANT SettledByAnswer
INVARIANT StatusFollowsRequest
CHECK_DEADLOCK FALSE
