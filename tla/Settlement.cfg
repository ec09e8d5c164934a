SPECIFICATION ScenarioSpec
CONSTANTS
    f1 = f1
    f2 = f2
    l1 = l1
    Zero = Zero
    FXRP = FXRP
    USDT0 = USDT0
    WFLR = WFLR
    r1 = r1
    r2 = r2
    NoRouter = NoRouter
    Followers = {f1, f2}
    Leads = {l1}
    Amounts = {0, 1}
    Settlements <- NoSettlements
    Accruals <- MCAccruals
    Foreign <- MCForeign
    MaxFunds = 2
    Rates = {1000}
    Profits = {0, 1, 20}
    FeeSeeds = {9}
    MaxFeeFunds = 18
    Tokens = {FXRP, USDT0, WFLR}
    Routers = {r1}
    MaxFills = 2
    MaxForeign = 1
    MaxBatches = 1
    MaxPool = 1
    MaxAdmin = 0
INVARIANTS
    LocksMatchFills
    FundsCovered
    SettledByOwnSwap
    NoFillStarved
    FeesPaidOncePerFill
PROPERTIES
    LedgerKept
    WithdrawalPaidUnderNonce
CHECK_DEADLOCK FALSE
