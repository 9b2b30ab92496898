SPECIFICATION Spec
CONSTANTS
    A = A
    B = B
    v = v
    w = w
    x = x
    y = y
    ChainA = A
    ChainB = B
    MaxClient = 1
    MaxConn = 1
    Delays = {0}
    Ports = {p}
    Orders = {"ORDERED", "UNORDERED"}
    ChanVersions = {v, w}
    MaxChan = 1
    MaxSeq = 2
    Data = {x, y}
    Expired = {}
    Acks = {ok}
INVARIANTS
    TypeOK
    ExactlyOnce
    InOrder
    AckedWasReceived
    OrderedWindow
    ChanOpenIsPaired
SYMMETRY Symmetry
CHECK_DEADLOCK FALSE
