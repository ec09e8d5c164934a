SPECIFICATION Spec

CONSTANTS
    f1 = f1
    f2 = f2
    Users = {f1, f2}
    PriceOne = 100
    FxrpPrices = {100, 115}
    Usdt0Prices = {100, 104}
    MaxTime = 2
    AnchorInterval = 1
    NotionalThreshold = 100
    MaxDivergence = 500
    Snapshots <- MCSnapshots
    SeedTarget = 200
    SwapUnit = 40
    SeedFunds <- MCSeedFunds
    MaxRuns = 2
    CdpPrices = {100, 60}
    CdpThresholds = {15000, 11000}
    CdpAmounts = {0, 1, 3}
    MaxCollateral = 5
    Assets = {1, 4}
    Yields = {0, 3}
    MaxAssets = 6
    SwapCap = 222
    MockCap = 8
    Window = 0
    Venues = {"mock-sparkdex", "blazeswap-v2", "enosys-cdp", "firelight-strategy"}
    Signals <- MCSignals
    TradeSizes = {30, 120}
    PairTrades = {50}
    MaxPairSwaps = 3

INVARIANTS
    VenueBooks
PROPERTIES
    UserCallsKeepCdpSafe
    ShareValueKept
    LargeSwapsStayClose
    ValueKept
    SeededAtFeedPrice
    SlippageBounded
CHECK_DEADLOCK FALSE
