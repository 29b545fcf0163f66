SPECIFICATION ConvertSpec
CONSTANTS
    Protocols <- MCProtocols
    Forced <- MCForced
    Asks <- MCAsks
    Frames <- MCFrames
    ReuseFor = {"messages"}
    MaxFrames = 5
INVARIANTS  ResultsFollowCalls  
CHECK_DEADLOCK FALSE
