SPECIFICATION FairSpec
CONSTANTS
    Threads = {t1, t2}
    NoThread = NoThread
    Validity = 2
    Limit = 4
    SignTime = 1
    UseTime = 2
    Offsets <- WallErrors
    BeforeEpoch = BeforeEpoch
INVARIANTS
    LockHeldBySigner
    NoRedundantSigning
    HonestJwtInTime
PROPERTIES
    PanicIsNotContagious
    RecoversWithTheClock
