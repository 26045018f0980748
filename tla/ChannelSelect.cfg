SPECIFICATION Spec
CONSTANTS
    Coroutines = {c1, c2, c3, c4}
    Direct = Direct
    Buffered = Buffered
    Channels <- TwoChannels
    Capacity <- Capacities
    Selections <- ClosedLast
    Closable = {Direct}
    NoCo = NoCo
INVARIANTS
    NobodyWaitsInVain
    WokenSelectCanGoOn
    ReadyIsPossible
    NodesAreAlive
    NoHalfRendezvous
SYMMETRY Symmetry
