SPECIFICATION Spec
CONSTANTS
    p1 = p1  p2 = p2  g1 = g1  g2 = g2
    timer = timer  signal = signal  second = second  abort = abort  none = none
    Procs = {p1, p2}
    Groups = {g1, g2}
    Stoppers = {timer, signal}
    Timeout = timer
    Handler = signal
    Second = none
    OnMain = {signal}
    Stubborn = {}
    GraceCoversSpawn = FALSE
    None = none
SYMMETRY Symmetric
INVARIANTS Inv CloseReleasesTimers
PROPERTIES ImplementsSupervision
