SPECIFICATION Spec
CONSTANTS
    Main = main
    Coroutines = {main, c1, c2, c3}
    NoCo = NoCo
    SchedulerExposed = TRUE
INVARIANTS
    OneList
    CountIsExact
PROPERTIES
    ImplementsCallStack
SYMMETRY Symmetry
