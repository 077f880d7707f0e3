CONSTANTS
  Callers = {c1, c2, c3}
  Prints = {o1, o2}
  Timeout = 4
  TTL = 5
  MaxDelay = 1
  RenewEvery = 1
  MaxErrors = 1
  Outlasts = FALSE
SPECIFICATION FairSpec
INVARIANTS OneOperation LeaseCovers
PROPERTIES LeaseEnds
