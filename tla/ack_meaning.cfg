SPECIFICATION Spec
CONSTANTS
    A = A
    B = B
    v = v
    w = w
    x = x
    y = y
    ChainA = A
    ChainB = B
    MaxClient = 1
    MaxConn = 1
    Delays = {0}
    Ports = {p}
    Orders = {"UNORDERED"}
    ChanVersions = {v}
    MaxChan = 2
    MaxSeq = 1
    Data = {x}
    Expired = {}
    Acks = {ok}
PROPERTY AckMeansReceived
SYMMETRY Symmetry
CHECK_DEADLOCK FALSE
