SPECIFICATION FairSpec
CONSTANTS
    Tasks = {t1, t2}
    Hosts = {h1, h2}
    Addresses <- MCAddresses
    Internal <- MCInternal
    Loopback <- MCLoopback
    MaxClients = 1
    TTL = 2
    ConnectTimeout = 1
INVARIANTS
    PinnedIsVetted
    CacheBounded
    AnswerAgeBounded
PROPERTY EveryCallReturns
