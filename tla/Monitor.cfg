SPECIFICATION ScenarioSpec
CONSTANTS
    p1 = p1
    p2 = p2
    r1 = r1
    deployer = deployer
    relayer = relayer
    NoStatus = NoStatus
    Payments = {p1, p2}
    Addresses = {r1}
    Payer <- OnePayer
    Keys = {deployer, relayer}
    Txs <- MCTxs
    BusyKeys = {deployer}
    Others <- OtherTxs
    AttestKey = deployer
    ExecuteKey = relayer
    Durable = TRUE
    MaxAttempts = 2
    MaxTxs = 4
    MaxCalls <- TwiceEach
    MaxCrashes = 2
INVARIANTS
    TypeOK
    AttestationsUnreplaced
    IdleMeansTerminal
    ActiveUnlessReplaced
PROPERTIES
    RunsEnd
CHECK_DEADLOCK FALSE
