SPECIFICATION Spec
CONSTANTS
    Contents = {"a", "b"}
    Window = 2
    KeepAliveIdle = 1
    WaitSignalIdle = 1
    StreamIdleTimeout = 1
    UpstreamDrainTimeout = 1
    MaxTranslatedBody = 2
    Modes <- AllModes
    MaxCells = 3
INVARIANTS   RetryOnlyUnsent
PROPERTIES SilentAfterReturn StreamEnds
CHECK_DEADLOCK FALSE
