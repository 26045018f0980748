SPECIFICATION FairSpec
CONSTANTS
    Main = main
    Coroutines = {main, c1, c2, c3}
    Scheduler = Scheduler
    NoCo = NoCo
    Few = {c1, c2}
    Programs <- OrderlyAndNot
INVARIANTS
    OrderlyDeadlockIsReal
    SchedulerLeavesOnlyWhenClosed
    WaitersAreQueued
    NotifyFindsWaiter
PROPERTIES
    WaitAllMeansAllDone
    ControlIsCallStack
    SleepersWake
CHECK_DEADLOCK FALSE
