SPECIFICATION EntitySpec
CONSTANTS
    Zones <- MCOneZone
    SpillZone = 0
    ListenOnly = FALSE
    EnablePolling = FALSE
    PollInterval = 0
    TxIdleGuard = 1
    StatusTimeout = 3
    ResponseTimeout = 1
    TransactionGap = 2
    FrameTimeout = 1
    AskedZones <- MCAskedZones
    RxCap = 1
PROPERTIES
    RequestResolves
INVARIANTS
    EntitiesAgree
