SPECIFICATION Spec
CONSTANTS
    Rooms = {r1, r2}
    JwtConfigs = {"none", "self-signed", "pre-built"}
    Refusals = {{}, {"expired", "wrong"}, {"none", "expired", "wrong"}}
    MaxAttempts = 3
INVARIANTS
    TypeOK
    NoStreamForgotten
PROPERTIES
    FirstConnectionMade
    OfflineOnlyGivenUp
