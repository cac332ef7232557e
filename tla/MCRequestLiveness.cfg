SPECIFICATION FairWaitSpec
CONSTANTS
  Requesters = {r1}
  Observers = {v1}
  Waiters = {v1}
  IntervalArgs = {900}
  PollArgs = {1, 3}
  States = {"CHANGES_REQUESTED"}
  Skew = 0
  Lag = 0
  Automatic = FALSE
  CallTime = 0
  ReviewTime = 1
  MaxTime = 3
  MaxReviews = 2
  MaxRows = 1
  Nil = Nil
INVARIANT WaitTypeOK
PROPERTY WaitIsStatusCalls
PROPERTY DoneFreesRequest
PROPERTY TimeoutHidesNoAnswer
PROPERTY AnsweredIsSettled
PROPERTY WaitReturns
CHECK_DEADLOCK FALSE
