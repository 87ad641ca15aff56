SPECIFICATION ExpirySpec
CONSTANTS
    Tasks = {t1, t2}
    NoTask = NoTask
    Skew = 2
    Timeout = 1
    Lifetimes = {2, 4, 5}
    MaxSpan = 4
INVARIANT OneExchangePerExpiry
