SPECIFICATION FairSpec
CONSTANTS
    A = A
    B = B
    v = v
    w = w
    x = x
    y = y
    ChainA = A
    ChainB = B
    MaxClient = 1
    MaxConn = 1
    Delays = {0}
    Ports = {p}
    Orders = {"ORDERED", "UNORDERED"}
    ChanVersions = {v}
    MaxChan = 1
    MaxSeq = 2
    Data = {x, y}
    Expired = {y}
    Acks = {ok}
PROPERTY PacketsComplete
CHECK_DEADLOCK FALSE
