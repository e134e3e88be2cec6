SPECIFICATION FairSpec
CONSTANTS
    p1 = p1  p2 = p2  int = int  term = term
    timeout = timeout  handler = handler  none = none
    Procs = {p1, p2}
    Signals = {int, term}
    Timeout = timeout
    Handler = handler
    None = none
INVARIANTS Inv ResultTellsWhy DeliveredAfterCleanup NothingLeftBehind ReturnedSignalDelivered
PROPERTIES StoppedRunEnds
