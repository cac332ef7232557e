SPECIFICATION CycleSpec
CONSTANTS
  Requesters = {r1}
  Observers = {c1}
  States = {"COMMENTED"}
  Skew = 0
  Lag = 0
  Automatic = TRUE
  CallTime = 0
  ReviewTime = 1
  MaxTime = 3
  MaxReviews = 2
  MaxRows = 2
  Nil = Nil
  FixTypes = {"none"}
  MaxCycles = 1
  Threads = {t1}
  Agents = {a1}
  Reviewer = Reviewer
  MaxComments = 2
PROPERTY ReadyHasNoUnresolved
CHECK_DEADLOCK FALSE
