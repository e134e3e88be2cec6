SPECIFICATION FairSpec
CONSTANTS
    Count = 4
    Workers = {1, 2}
    Endless = {2}
INVARIANTS Inv NoErrorLost QuietWhenOver FirstFailureReported
PROPERTIES RaiseEndsEach
