CONSTANTS
  Requests = {r1, r2}
  Funds = 3
  Cost = 2
  Reserve = 0
  QueueSize = 1
  MaxTopUps = 1
  MaxFaults = 1
SPECIFICATION FairSpec
INVARIANTS ChargedOnce
PROPERTIES SpentThenRefused
