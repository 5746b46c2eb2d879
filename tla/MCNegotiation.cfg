SPECIFICATION FairSpec
CONSTANTS
    MaxSessions = 2
    MaxOffers = 3
    MaxAttempts = 1
    Cooldown = 1
    Request = Request
    Disconnect = Disconnect
    None = None
CHECK_DEADLOCK FALSE
INVARIANTS
    TypeOK
    SettledAgrees
PROPERTIES
    NegotiationCompletes
    GrantedRestartRuns
