SPECIFICATION FairSpec
CONSTANTS
    Tasks = {t1, t2, t3}
    NoTask = NoTask
    Skew = 2
    Timeout = 1
    Lifetimes <- MCLifetimes
    MaxSpan = 4
INVARIANTS
    LockHeldByRefresher
    NoRedundantExchange
    CacheMovesForward
    ExpiryErrorBounded
PROPERTIES
    HandedOutWithMargin
    EveryCallReturns
    RevokedTokenRetires
