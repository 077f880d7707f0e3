CONSTANTS
  Callers = {c1, c2}
  Prints = {o1, o2}
  Timeout = 4
  TTL = 5
  MaxDelay = 1
  RenewEvery = 1
  MaxErrors = 0
  Outlasts = TRUE
SPECIFICATION Spec
INVARIANTS OneOperation
