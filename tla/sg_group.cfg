SPECIFICATION FairSpec
CONSTANTS
    Kinds <- CmdBridgeCmd
    Fed = 1
    Capacity = 1
    Output <- TwoThenOne
    Merged = {3}
    Sinks <- NoneOrBoth
    Lingering = {1}
INVARIANTS Inv NothingLost
PROPERTIES StopEndsGroup AbortEndsWorkers GroupEnds
