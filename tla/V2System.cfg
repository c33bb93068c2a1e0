SPECIFICATION SystemSpec
CONSTANTS
    Zones <- MCOneZone
    SpillZone = 0
    ListenOnly = FALSE
    EnablePolling = TRUE
    PollInterval = 1
    TxIdleGuard = 1
    StatusTimeout = 3
    Sources <- MCSource
    TxFallback = 64
    RestoreNode = FALSE
    Confirmations = 2
    MismatchThreshold = 2
    OfflineThreshold = 2
    FlowPin = FALSE
    RetryInterval = 1
    AssertDelay = 0
    SeqMax = 2
    RxCap = 3
    MaxStall = 1
    Budgets <- MCBudgets
INVARIANTS
    SystemInv
PROPERTIES
    TogglesTowardsAim
    EndsInAgreement
    RequestEnds
