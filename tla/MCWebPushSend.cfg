SPECIFICATION SendSpec
CONSTANTS
    Tasks = {t1, t2}
    Hosts = {"push.example", "cdn.example"}
    Addresses = {"public4", "10.0.0.1", "127.0.0.1"}
    Internal = {"10.0.0.1", "127.0.0.1"}
    Loopback = {"127.0.0.1"}
    MaxClients = 1
    TTL = 2
    ConnectTimeout = 1
    RequestTimeout = 1
INVARIANTS
    SendTypeOK
    ConnectsOnlyWherePermitted
    SendEndsInTime
SYMMETRY Symmetry
