CONSTANTS
    Orders = {o1}
    Workers = {w1, w2}
    NoOrder = NoOrder
    FaultKinds = {"error", "abandon"}
    MaxFaults = 2
    MaxRetries = 0
SPECIFICATION FairSpec
PROPERTIES PaidCompletes PaidSettles
CHECK_DEADLOCK FALSE
