SPECIFICATION FairSpec
CONSTANTS
    Procs = {p1, p2, p3}
    C = 2
INVARIANTS
    LeakTypeOK
    NeverBroken
    NoLostWakeup
    OnlyFreshLeaksReported
PROPERTIES
    DrainEnds
    ImplementsWindow
