SPECIFICATION RelayFairSpec
CONSTANTS
    A = A
    B = B
    v = v
    x = x
    y = y
    ChainA = A
    ChainB = B
    MaxClient = 1
    MaxConn = 1
    Delays = {0}
    Ports = {p}
    Orders = {"ORDERED", "UNORDERED"}
    ChanVersions = {v}
    MaxChan = 1
    MaxSeq = 2
    Data = {x, y}
    Expired = {y}
    Acks = {ok}
    Sources = {A}
    Limits = {1, 2}
    MaxLost = 1
INVARIANTS RelayTypeOK FetchedIsProved
PROPERTIES RelayerCompletes RelaysInOrder
CHECK_DEADLOCK FALSE
