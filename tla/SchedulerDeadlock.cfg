SPECIFICATION Spec
CONSTANTS
    Main = main
    Coroutines = {main, c1, c2}
    Scheduler = Scheduler
    NoCo = NoCo
    Few = {c1, c2}
    Programs <- AllWaiting
INVARIANTS
    DeadlockMeansAllAsleep
SYMMETRY Symmetry
CHECK_DEADLOCK FALSE
