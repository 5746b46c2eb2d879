SPECIFICATION Spec
CONSTANTS
    Threads = {t1, t2, t3}
    MaxViewers = 2
CHECK_DEADLOCK FALSE
INVARIANTS
    TypeOK
    FlagNeedsViewer
    OneLateFrame
    FeedLostOnlyByFailure
PROPERTIES
    IdleCameraDrains
