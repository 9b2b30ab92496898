SPECIFICATION ConnFairSpec
CONSTANTS
    A = A
    B = B
    ChainA = A
    ChainB = B
    MaxClient = 1
    MaxConn = 2
    Delays = {0, 1}
INVARIANTS
    ConnTypeOK
    OpenAgrees
    OpenIsPaired
PROPERTIES
    HandshakeGoesForward
    OpenSpreads
CHECK_DEADLOCK FALSE
