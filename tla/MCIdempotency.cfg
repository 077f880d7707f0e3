CONSTANTS
  Callers = {c1, c2, c3}
  Prints = {p1, p2}
  Timeout = 2
  TTL = 3
  MaxDelay = 1
  Backoff = 1
  MaxRun = 1
SPECIFICATION FairSpec
INVARIANTS OneExecutor AckedIsRecorded ReplayIsOwn RepeatReplays
PROPERTIES RunsOnce KeyFreed
