SPECIFICATION EntitySpec
CONSTANTS
    Zones <- MCOneZone
    SpillZone = 0
    ListenOnly = FALSE
    EnablePolling = TRUE
    PollInterval = 1
    TxIdleGuard = 1
    StatusTimeout = 2
    Sources <- MCSources
    TxFallback = 64
    RestoreNode = TRUE
    Confirmations = 2
    MismatchThreshold = 2
    OfflineThreshold = 2
    FlowPin = FALSE
    RetryInterval = 1
    AssertDelay = 0
    SeqMax = 2
    RxCap = 1
INVARIANTS
    IInv
    OnlineIsKnown
    EntitiesAgree
PROPERTIES
    LockIsEarned
    StoredIsEarned
    NoBlindToggle
