SPECIFICATION Spec
CONSTANTS
    MainLoop = FALSE
    Cooldown = 4
    MaxHold = 2
    Interval = 2
    StalledWindows = 2
    DtlsThreshold = 2
    DtlsWindow = 2
    BusRate = 2
PROPERTIES
    ErrorReachesGate
