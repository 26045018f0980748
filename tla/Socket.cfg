SPECIFICATION FairSpec
CONSTANTS
    Sockets = {s1, s2}
    Internals = {i1, i2}
    Coroutines = {c1, c2, c3}
    Null = Null
    NoCo = NoCo
    Kinds = {"stream", "datagram"}
    MaxFlight = 3
    Allowed <- NoMisuse
INVARIANTS
    WaitersAreKnown
    NobodyUsesTheClosed
    NobodyWritesAfterATornWrite
    RequestsAreDistinct
PROPERTIES
    CloseEndsEverything
