SPECIFICATION Spec
CONSTANTS
  Logins = {ann, bob}
  PRs = {"pr1"}
  Tokens = {t1}
  Ids = {w1, w2}
  Callers = {c1}
  Observable = {"BLOCKED"}
  Errors = {}
  Threshold = 1
  MaxTriggers = 1
  MaxFaults = 1
  MaxCrashes = 1
  Nil = Nil
SYMMETRY Symmetry
INVARIANTS
  ActiveIndexExact
  RowMirrorsMemory
  ActiveRowIsLatest
  CancelSettlesItsTrigger
PROPERTIES
  ImplementsRegistry
  DoneAfterItsRequest
CHECK_DEADLOCK FALSE
