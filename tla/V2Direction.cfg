SPECIFICATION FairSpec
CONSTANTS
    Zones <- MCOneZone
    SpillZone = 0
    ListenOnly = FALSE
    EnablePolling = TRUE
    PollInterval = 1
    TxIdleGuard = 1
    StatusTimeout = 2
    Sources <- MCSource
    TxFallback = 64
    RestoreNode = FALSE
    Confirmations = 1
    MismatchThreshold = 1
    OfflineThreshold = 2
    FlowPin = TRUE
    RetryInterval = 1
    AssertDelay = 2
    SeqMax = 2
    RxCap = 1
INVARIANTS
    DirectionAgrees
PROPERTIES
    SendsAfterRelease
    DirectionReleased
