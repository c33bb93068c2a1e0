SPECIFICATION Spec
CONSTANTS
    Bytes <- MCBytes
    FrameTimeout = 1
INVARIANTS
    TypeOK
    Aligned
    ChecksumAsDocumented
PROPERTIES
    FramesFound
