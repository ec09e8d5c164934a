SPECIFICATION AgentSpec

CONSTANTS
    f1 = f1
    f2 = f2
    l1 = l1
    l2 = l2
    Duties = {"health"}
    Users = {f1, f2}
    Follower = f1
    PriceOne = 100
    KineticThresholds = {11000, 12000}
    DeployedThreshold = 11000
    PoolSeed = 200
    PoolAmounts = {30}
    MaxSupply = 60
    LiquidationAlert = 13000
    CanarySupply = 100
    CanaryBorrow = 60
    CanaryMaxTopUp = 200
    CanaryDefaultTopUp = 30
    CanaryDrop = 70
    MaxCanaries = 2
    MaxCycles = 1
    FirstCounts <- MCFirstCounts
    Alerters = {"canary", "healthMonitor", "driftMonitor", "driftCanary"}
    Sinks = {"recorder", "echo", "store", "unset"}
    SinkOf <- MCSinkOf
    KeptAlerts = 2
    PnlUnit = 500
    ScoreWindow = 3
    ScoreTarget = 4
    DriftThreshold = 55
    FixtureDays = 5
    ScoredLeads = {l1}
    EventLists <- MCEventLists
    Outcomes <- MCOutcomes
    FirstDay = 100
    MaxOutcomes = 2
    MaxDays = 101
    MaxRequests = 2
    LeadAddresses = {l1, l2}
    NoAddress = "0x0"
    Attestations = {"live", "derived"}
    Signers = {"agent", "other"}
    PublisherKey = "agent"
    PublishedScores = {7, 101}
    CanaryLead1 = l1
    CanaryLead2 = l2
    CanaryScores = {57}
    LiveId = "live"
    DerivedId = "derived"
    MaxPublishes = 1
    MaxScoreCanaries = 1
    WatchedLeads <- MCWatchedLeads
    InjectAt = 1
    DriftCycles = 3
    StableCycles = 50

PROPERTIES
    TopUpsAuthorized

CHECK_DEADLOCK FALSE
