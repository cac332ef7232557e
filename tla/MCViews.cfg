SPECIFICATION ViewSpec
CONSTANTS
  Ids <- Numbered
  Keys <- Pairs
  pr1 = pr1
  pr2 = pr2
  EndStatus = {"FAILED", "STALE", "CANCELLED"}
  Nil = Nil
  Readers = {r1}
  Login = "ann"
  Limits = {1, 2}
  Grain = 4
  Origins = {0, 3}
  MaxTicks = 4
SYMMETRY Symmetry
INVARIANTS
  ViewTypeOK
  LatestNeverGoesBack
  EndIsShownForGood
  CancelOverlooksNothing
  LimitHidesTheLast
CHECK_DEADLOCK FALSE
