SPECIFICATION FairSpec
CONSTANTS
    Main = main
    Coroutines = {main, c1, c2}
    Scheduler = Scheduler
    NoCo = NoCo
    MaxId = 3
    Budget = 6
    MutualKills = FALSE
    LateStarts = FALSE
INVARIANTS
    TraceIsCallStackUncrossed
    VictimIsTheSame
    OnlyTheLivingHaveControl
    ShutdownKillsAll
PROPERTIES
    KillReturns
CHECK_DEADLOCK FALSE
