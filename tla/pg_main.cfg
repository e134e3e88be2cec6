SPECIFICATION FairSpec
CONSTANTS
    p1 = p1  p2 = p2  g1 = g1  g2 = g2
    timer = timer  signal = signal  second = second  abort = abort  none = none
    Procs = {p1, p2}
    Groups = {g1}
    Stoppers = {timer, signal, abort}
    Timeout = timer
    Handler = signal
    Second = second
    OnMain = {g1, signal, abort}
    Stubborn = {p1}
    GraceCoversSpawn = TRUE
    None = none
INVARIANTS NoChildMissed
PROPERTIES StopEndsRun AbortEndsGroup
