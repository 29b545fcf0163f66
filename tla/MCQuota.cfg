CONSTANTS
    Server = {s1}
    QuotaWindow = 2
    TPMs = {2, 3}
    RPMs = {0, 1}
    Request = {r1, r2}
    Estimates = {0, 2}
    Reports = {0, 1, 2}
    MaxPrompt = 0
    Edits <- Moves
    MaxEvents = 2
    MaxTime = 3
SPECIFICATION AuditSpec
SYMMETRY RequestSymmetry
INVARIANTS NeverUndercounts ReservedExact 
CHECK_DEADLOCK FALSE
