SPECIFICATION CashFairSpec
CONSTANTS
    A = A
    B = B
    alice = alice
    owner = owner
    usd = usd
    ChainA = A
    ChainB = B
    MaxClient = 1
    MaxConn = 1
    Delays = {0}
    Ports = {p}
    Orders = {"UNORDERED"}
    ChanVersions = {v}
    MaxChan = 2
    MaxSeq = 1
    Data <- TransferData
    Expired = {}
    Acks = {"result"}
    Bases = {usd}
    Addresses = {alice, owner}
    Malformed = {junk}
    Amounts = {0, 1}
    MaxFund = 2
    IssuedAt <- IssuedAtA
    BankOwner <- OneOwner
    Lockers = {alice}
INVARIANTS
    CashTypeOK
    SupplyCirculates
    Covered
PROPERTIES
    ImplementsPeg
    CashTransfersSettle
CHECK_DEADLOCK FALSE
