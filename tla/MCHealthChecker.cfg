CONSTANTS
    Server = {s1, s2}
SPECIFICATION FairSpec
PROPERTIES RecoveryNoticed GhostSwept
CHECK_DEADLOCK FALSE
