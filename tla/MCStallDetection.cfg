SPECIFICATION FairSpec
CONSTANTS
    LogIntervals = {0, 3}
    Interval = 2
    StalledWindows = 2
    Cooldown = 5
INVARIANTS
    TypeOK
PROPERTIES
    RestartOnlyWhenQuiet
    StallIsRestarted
    RestartsEndWithInput
