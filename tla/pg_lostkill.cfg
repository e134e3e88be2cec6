SPECIFICATION FairSpec
CONSTANTS
    p1 = p1  p2 = p2  g1 = g1  g2 = g2
    timer = timer  signal = signal  second = second  abort = abort  none = none
    Procs = {p1}
    Groups = {g1}
    Stoppers = {timer}
    Timeout = timer
    Handler = signal
    Second = none
    OnMain = {g1}
    Stubborn = {p1}
    GraceCoversSpawn = FALSE
    None = none
PROPERTIES StopEndsRun
