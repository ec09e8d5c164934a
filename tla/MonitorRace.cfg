SPECIFICATION Spec
CONSTANTS
    p1 = p1
    p2 = p2
    r1 = r1
    deployer = deployer
    relayer = relayer
    NoStatus = NoStatus
    Payments = {p1, p2}
    Addresses = {r1}
    Payer <- OnePayer
    Keys = {deployer, relayer}
    Txs <- MCTxs
    BusyKeys = {}
    Others <- OtherTxs
    AttestKey = deployer
    ExecuteKey = deployer
    Durable = TRUE
    MaxAttempts = 2
    MaxTxs = 4
    MaxCalls <- OnceEach
    MaxCrashes = 0
INVARIANTS
    ActiveMeansExecuted
CHECK_DEADLOCK FALSE
