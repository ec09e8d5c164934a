SPECIFICATION Spec
CONSTANTS
    f1 = f1
    f2 = f2
    l1 = l1
    Zero = Zero
    FXRP = FXRP
    USDT0 = USDT0
    WFLR = WFLR
    r1 = r1
    r2 = r2
    NoRouter = NoRouter
    Followers = {f1}
    Leads = {l1}
    Amounts = {0, 1}
    Settlements <- NoSettlements
    Accruals <- NoAccruals
    Foreign <- MCForeign
    MaxFunds = 1
    Rates = {1000}
    Profits = {0, 20}
    FeeSeeds = {9}
    MaxFeeFunds = 18
    Tokens = {FXRP, USDT0}
    Routers = {r1}
    MaxFills = 1
    MaxForeign = 0
    MaxBatches = 1
    MaxPool = 0
    MaxAdmin = 0
INVARIANTS
    FeeWithinRate
CHECK_DEADLOCK FALSE
