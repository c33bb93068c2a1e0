SPECIFICATION Spec
CONSTANTS
    ZoneCount = 2
    Bytes <- MCBytes
    FrameTimeout = 2
    TxIdleGuard = 2
INVARIANTS
    TypeOK
    Aligned
    PrefixIsRecent
    AnswerHeard
    OutcomeTells
    BusReleased
PROPERTIES
    StatusesFound
