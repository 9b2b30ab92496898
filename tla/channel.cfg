SPECIFICATION Spec
CONSTANTS
    A = A
    B = B
    v = v
    w = w
    x = x
    y = y
    ChainA = A
    ChainB = B
    MaxClient = 1
    MaxConn = 1
    Delays = {0}
    Ports = {p}
    Orders = {"ORDERED", "UNORDERED"}
    ChanVersions = {v}
    MaxChan = 2
    MaxSeq = 0
    Data = {x}
    Expired = {}
    Acks = {ok}
INVARIANTS
    ChanOpenAgrees
    ChanOpenIsPaired
PROPERTY ChannelGoesForward
SYMMETRY Symmetry
CHECK_DEADLOCK FALSE
