SPECIFICATION Spec
CONSTANTS
    MainLoop = TRUE
    Cooldown = 4
    MaxHold = 2
    Interval = 2
    StalledWindows = 2
    DtlsThreshold = 2
    DtlsWindow = 2
    BusRate = 2
INVARIANTS
    TypeOK
    WaiterHoldsBack
PROPERTIES
    RestartsAreSpaced
    StallIsRestarted
