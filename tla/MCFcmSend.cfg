SPECIFICATION SendSpec
CONSTANTS
    Tasks = {t1, t2}
    NoTask = NoTask
    Skew = 3
    Timeout = 1
    Lifetimes = {3, 5, 6}
    MaxSpan = 5
    Window = 1
    BatchSize = 2
INVARIANTS
    SendTypeOK
    NoExpiredTokenSent
    SendEndsInTime
SYMMETRY Symmetry
