CONSTANTS
  Requests = {r1, r2, r3}
  User = user
  Accounts = {a1}
  Limit <- MCLimit
  Queue = 1
  TTL = 2
  MaxAttempts = 1
  MaxFaults = 1
SPECIFICATION FairSpec
INVARIANTS SlotLimit QueueLimit SlotsFollowRequest
PROPERTIES SlotsFreed
