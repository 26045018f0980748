SPECIFICATION Spec
CONSTANTS
    Buffers = {b1, b2}
    Variables = {v1}
    Coroutines = {c1, c2}
    Strings = {s1, s2}
    Literals = {l1}
    Bytes = {x, y}
    x = x
    Content <- MCContent
    Junk = Junk
    Null = Null
    NoCo = NoCo
    MaxSize = 2
    Alignment = 1
    Callers <- SharedReaders
INVARIANTS
    HeldStringsNeverChange
SYMMETRY Symmetry
