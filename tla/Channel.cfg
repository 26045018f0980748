SPECIFICATION FairSpec
CONSTANTS
    Coroutines = {c1, c2, c3, c4}
    Values = {v1, v2}
    Capacities <- RendezvousOrTwo
    NoCo = NoCo
    NoItem = NoItem
INVARIANTS
    WaitersAreQueued
    NobodyWaitsInVain
    RendezvousIsPaired
    NobodyWaitsAfterClose
PROPERTIES
    ImplementsFifoChannel
    AcceptAfterCloseOnlyFromWaiters
    CloseEndsAllWaits
