CONSTANTS
    Server = {s1}
    Window = 2
    Thresholds = {1, 2}
    Durations = {2}
    Overrides = {0, 3}
    HintMin = 2
    HintMax = 4
    Statuses <- MCStatuses
    Hints = {0, 1, 6}
    MaxTime = 5
    MaxEntries = 3
SPECIFICATION Spec
INVARIANTS BenchBounded ReasonMatches
PROPERTIES ExpiryFrozen RefusalBenches
CHECK_DEADLOCK FALSE
