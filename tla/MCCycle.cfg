SPECIFICATION CycleSpec
CONSTANTS
  Requesters = {r1}
  Observers = {c1}
  States = {"COMMENTED"}
  Skew = 0
  Lag = 0
  Automatic = TRUE
  CallTime = 0
  ReviewTime = 1
  MaxTime = 2
  MaxReviews = 1
  MaxRows = 1
  Nil = Nil
  FixTypes = {"logic", "none"}
  MaxCycles = 1
  Threads = {t1}
  Agents = {a1}
  Reviewer = Reviewer
  MaxComments = 2
INVARIANT CycleTypeOK
PROPERTY ReviewedBeforeActing
CHECK_DEADLOCK FALSE
