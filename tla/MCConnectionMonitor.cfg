SPECIFICATION MonitorSpec
CONSTANT Replaced = TRUE
CHECK_DEADLOCK FALSE
INVARIANTS
    MonitorTypeOK
    HandshakeNotDenied
    DeliveredNeverFails
    FailIsExplained
    BlameFits
