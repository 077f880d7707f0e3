CONSTANTS
    Orders = {o1}
    Workers = {w1, w2}
    NoOrder = NoOrder
    FaultKinds = {"error", "reply", "audit", "abandon", "query", "lookup"}
    MaxFaults = 1
    MaxRetries = 1
SPECIFICATION Spec
SYMMETRY WorkerSymmetry
INVARIANTS CreditedOnce CreditNeedsPayment
    CompletedIsCredited AckedIsRecorded
PROPERTIES KeepsBooks
CHECK_DEADLOCK FALSE
