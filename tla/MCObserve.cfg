SPECIFICATION ObserveSpec
CONSTANTS
    Handler = {h1, h2}
    Model = {"m", "n"}
    Server = {"a", "b"}
    AudioServer = {"b"}
    Outcomes <- MCOutcomes
    Windows <- MCWindows
    LatencyBuckets <- MCBuckets
    MaxRecent = 2
    MaxTrace = 2
    MaxResponseBytes = 2
    MaxChunks = 3
    MaxRequests = 3
    MaxCommands = 1
SYMMETRY Handlers
INVARIANTS MetricsFaithful 
CHECK_DEADLOCK FALSE
