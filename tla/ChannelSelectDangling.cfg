SPECIFICATION Spec
CONSTANTS
    Coroutines = {c1, c2}
    Direct = Direct
    Buffered = Buffered
    Channels <- TwoChannels
    Capacity <- Capacities
    Selections <- OneSided
    Closable = {Direct}
    NoCo = NoCo
INVARIANTS
    NodesAreAlive
SYMMETRY Symmetry
