SPECIFICATION Spec
CONSTANTS
    Sessions = {s1, s2}
    Viewers = {v1, v2}
    None = None
CHECK_DEADLOCK FALSE
PROPERTIES
    RemovalEnds
