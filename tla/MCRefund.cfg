CONSTANTS
    Workers = {w1, w2}
    Async = {FALSE, TRUE}
    Traced = {FALSE, TRUE}
    FaultKinds = {"error", "rollback", "audit", "reply", "abandon"}
    MaxFaults = 1
    MaxCrossed = 1
SPECIFICATION FairSpec
INVARIANTS DeductedOnce RefundOnRecord
PROPERTIES RefundedIsDeducted RefundedIsFinal KeepsAccount RefundingEnds
CHECK_DEADLOCK FALSE
