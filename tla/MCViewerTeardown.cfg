SPECIFICATION Spec
CONSTANTS
    Sessions = {s1, s2, s3}
    Viewers = {v1, v2}
    None = None
CHECK_DEADLOCK FALSE
SYMMETRY Symmetry
INVARIANTS
    TypeOK
    ReportIsFinal
    StoppedIsSilent
