SPECIFICATION BankSpec
CONSTANTS
    A = A
    B = B
    alice = alice
    bob = bob
    ChainA = A
    ChainB = B
    MaxClient = 1
    MaxConn = 1
    Delays = {0}
    Ports = {p}
    Orders = {"UNORDERED"}
    ChanVersions = {v}
    MaxChan = 2
    MaxSeq = 1
    Data <- TransferData
    Expired = {}
    Acks = {"result", "error"}
    Bases = {usd}
    Addresses = {alice, bob}
    Malformed = {}
    Amounts = {1}
    MaxFund = 1
    Funded = {A, B}
INVARIANTS
    BankTypeOK
    Backed
    VouchersResolve
PROPERTIES
    OwnersKeepTheirFunds
    ImplementsPeg
SYMMETRY Symmetry
CHECK_DEADLOCK FALSE
