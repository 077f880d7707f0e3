CONSTANTS
    NumBuckets = 2
    Conns = {c1, c2}
    Procs = {p1, p2}
    BatchSize = 1
    MaxLog = 3
    AbandonedMayLand = TRUE
    Missing = Missing
    NoProc = NoProc
    NoConn = NoConn
    r1 = r1
    r2 = r2
    Rows = {r1, r2}
    Invalid = Invalid
    RowOf <- RowOfDistinct
    MaxItems = 2
    MaxFaults = 1
SPECIFICATION FairSpec
PROPERTIES Converges
