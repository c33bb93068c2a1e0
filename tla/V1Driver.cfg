SPECIFICATION Spec
CONSTANTS
    Zones <- MCZones
    SpillZone = 2
    ListenOnly = FALSE
    EnablePolling = TRUE
    PollInterval = 2
    TxIdleGuard = 1
    StatusTimeout = 3
    ResponseTimeout = 1
    TransactionGap = 2
    FrameTimeout = 1
    AskedZones <- MCAskedZones
    RxCap = 1
INVARIANTS
    TypeOK
    NoStrandedRequest
    AwaitingIsLive
    IInv
PROPERTIES
    ToggleJustified
    ToggleFromLiveStatus
    SpillStaysOpen
    KeepsPromise
