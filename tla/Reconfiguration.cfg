SPECIFICATION Spec
CONSTRAINT OwnerOrOthers
SYMMETRY RouterSymmetry
CONSTANTS
    f1 = f1
    f2 = f2
    l1 = l1
    Zero = Zero
    FXRP = FXRP
    USDT0 = USDT0
    WFLR = WFLR
    r1 = r1
    r2 = r2
    NoRouter = NoRouter
    Followers = {f1}
    Leads = {l1, Zero}
    Amounts = {0, 1}
    Settlements <- MCSettlements
    Accruals <- NoAccruals
    Foreign <- OneForeign
    MaxFunds = 2
    Rates = {1000}
    Profits = {0}
    FeeSeeds = {0}
    MaxFeeFunds = 0
    Tokens = {FXRP, USDT0}
    Routers = {r1, r2}
    MaxFills = 2
    MaxForeign = 1
    MaxBatches = 1
    MaxPool = 1
    MaxAdmin = 2
INVARIANTS
    LocksMatchFills
    FundsCovered
    LockedCovered
    NonceGuardsReplay
PROPERTIES
    OutflowCharged
CHECK_DEADLOCK FALSE
