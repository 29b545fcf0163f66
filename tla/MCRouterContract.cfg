CONSTANTS
    s1 = s1
    s2 = s2
    s3 = s3
    Server = {s1, s2, s3}
    Request = {r1, r2}
    Chains <- Mixed
    Replies <- ServedOrLost
    Cap <- NoCap
    Overflow = {}
    Refusing = {s3}
    BadBody = {}
    Converting = {}
    Unconvertible = {}
    NumRetries = 1
    Explicit = FALSE
    UseHealth = FALSE
    UseRateLimit = FALSE
    UseQuota = TRUE
    FailWindow = 1
    Thresholds = {1}
    Durations = {1}
    Overrides = {0}
    HintMin = 1
    HintMax = 1
    Hints = {0}
    QuotaWindow = 1
    TPMs = {2}
    RPMs = {1}
    Estimates = {2}
    Usages = {1}
    MaxTime = 1
SPECIFICATION FairSpec
PROPERTIES QuotaContract RequestsEnd
CHECK_DEADLOCK FALSE
