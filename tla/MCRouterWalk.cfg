CONSTANTS
    s1 = s1
    s2 = s2
    s3 = s3
    Server = {s1, s2, s3}
    Request = {r1, r2}
    Chains <- FailoverOrMisfit
    Replies <- ControlReplies
    Cap <- CapOne
    Overflow = {s3}
    Refusing = {}
    BadBody = {}
    Converting = {s3}
    Unconvertible = {s3}
    NumRetries = 1
    Explicit = TRUE
    UseHealth = TRUE
    UseRateLimit = TRUE
    UseQuota = FALSE
    FailWindow = 1
    Thresholds = {1}
    Durations = {1}
    Overrides = {0}
    HintMin = 1
    HintMax = 1
    Hints = {0}
    QuotaWindow = 1
    TPMs = {0}
    RPMs = {0}
    Estimates = {0}
    Usages = {0}
    MaxTime = 0
SPECIFICATION Spec
SYMMETRY RequestSymmetry
INVARIANTS TypeOK InflightExact ChainExhausted DownForCause
CHECK_DEADLOCK FALSE
