SPECIFICATION Spec
CONSTANTS
    Zones <- MCZones
    SpillZone = 2
    ListenOnly = TRUE
    EnablePolling = FALSE
    PollInterval = 2
    TxIdleGuard = 1
    StatusTimeout = 3
    Sources <- MCSources
    TxFallback = 64
    RestoreNode = TRUE
    Confirmations = 2
    MismatchThreshold = 2
    OfflineThreshold = 2
    FlowPin = TRUE
    RetryInterval = 1
    AssertDelay = 2
    SeqMax = 2
    RxCap = 1
INVARIANTS
    DirectionAgrees
