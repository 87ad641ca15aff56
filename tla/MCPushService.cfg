SPECIFICATION FairSpec
CONSTANTS
    Devices = {d1}
    MaxProviders = 3
    TransientStatuses = {401, 503}
INVARIANTS
    NoLiveDeviceRemoved
    RoutedToTheIssuer
    UnanimousRemovalReported
    DuplicateOnlyAfterLostAnswer
PROPERTIES
    EveryCallEnds
CHECK_DEADLOCK FALSE
