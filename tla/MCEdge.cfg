SPECIFICATION EdgeSpec
CONSTANTS
    Request = {q1, q2}
    Visits <- MCVisits
    Settings <- MCSettings
    Unit = 2
    InboundSweepAt = 1
    MaxReloads = 1
    DedupWindow = 2
    MaxEdges = 2
INVARIANTS SweepCostsNothing  
PROPERTY SignalEnds
CHECK_DEADLOCK FALSE
