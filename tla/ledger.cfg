SPECIFICATION SetUpSpec
CONSTANTS
    m = m
    n = n
    Node = {m, n}
    MaxGenesis = 2
    MaxTx = 7
    MaxFlows = 2
    MaxClient = 1
    MaxConn = 1
    MaxChan = 1
INVARIANTS
    LedgerTypeOK
    IdsAreUnique
    IssuedOnce
PROPERTY ExecutedSerially
SYMMETRY Symmetry
CHECK_DEADLOCK FALSE
