SPECIFICATION ConnSpec
CONSTANTS
    A = A
    B = B
    ChainA = A
    ChainB = B
    MaxClient = 1
    MaxConn = 2
    Delays = {0, 1}
INVARIANT ConfirmIsProvable
CHECK_DEADLOCK FALSE
