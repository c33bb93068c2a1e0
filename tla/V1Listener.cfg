SPECIFICATION Spec
CONSTANTS
    Zones <- MCZones
    SpillZone = 2
    ListenOnly = TRUE
    EnablePolling = FALSE
    PollInterval = 3
    TxIdleGuard = 1
    StatusTimeout = 3
    ResponseTimeout = 1
    TransactionGap = 2
    FrameTimeout = 1
    AskedZones <- MCAskedZones
    RxCap = 1
INVARIANTS
    ListenerIsSilent
