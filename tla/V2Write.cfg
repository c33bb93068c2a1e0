SPECIFICATION Spec
CONSTANTS
    Zones <- MCZones
    SpillZone = 2
    ListenOnly = FALSE
    EnablePolling = TRUE
    PollInterval = 2
    TxIdleGuard = 1
    StatusTimeout = 3
    Sources <- MCSource
    TxFallback = 64
    RestoreNode = FALSE
    Confirmations = 1
    MismatchThreshold = 1
    OfflineThreshold = 2
    FlowPin = FALSE
    RetryInterval = 1
    AssertDelay = 0
    SeqMax = 2
    RxCap = 1
INVARIANTS
    TypeOK
PROPERTIES
    NoBlindToggle
    ToggleFromLiveStatus
    KeepsPromise
