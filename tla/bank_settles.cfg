SPECIFICATION BankFairSpec
CONSTANTS
    A = A
    B = B
    alice = alice
    bob = bob
    ChainA = A
    ChainB = B
    MaxClient = 1
    MaxConn = 1
    Delays = {0}
    Ports = {p}
    Orders = {"UNORDERED"}
    ChanVersions = {v}
    MaxChan = 1
    MaxSeq = 1
    Data <- TransferData
    Expired = {}
    Acks = {"result", "error"}
    Bases = {usd}
    Addresses = {alice, bob}
    Malformed = {junk}
    Amounts <- SignedAmounts
    MaxFund = 2
    Funded = {A}
INVARIANTS
    NoOverdraft
    Backed
PROPERTIES
    ImplementsPeg
    TransfersSettle
CHECK_DEADLOCK FALSE
