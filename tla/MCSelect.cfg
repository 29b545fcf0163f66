SPECIFICATION SelectSpec
CONSTANTS
    PoolServer = {"a", "b", "c"}
    Request = {r1, r2}
    Conversation = {"x", "y"}
    RuleVersions <- MCRules
    StickyTTL = 1
    StickySweepAt = 1
    RotationSweepAt = 1
    MaxFallbacks = 1
    MaxTurns = 3
    MaxEdits = 1
    JevRequest = {"r1"}
    Pools <- MCPools
    DefaultTiers = {2}
    MinConfidence = 5
    Security = TRUE
    Turns <- MCTurns
    Answers <- MCAnswers
    Listings = {"silent", "blind", "audio"}
    CacheTTL = 1
    JevStickyTTL = 1
    CapsTTL = 1
    JevSweepAt = 1
    MaxJevTurns = 3
    MaxListings = 1
INVARIANTS FairShare PinHonoured   LoopKeepsModel
PROPERTY SweepsExact
CHECK_DEADLOCK FALSE
SYMMETRY Handlers
