SPECIFICATION Spec
CONSTANTS
    Rooms = {r1, r2}
    ViewerIds = {v1, v2, v3}
    Branches = {b1, b2, b3}
    MaxViewersPerCamera = 2
    MaxViewersPerGateway = 2
    NoPeer = NoPeer
    NoBranch = NoBranch
    NoRoom = NoRoom
    NoSlot = NoSlot
SYMMETRY Symmetry
INVARIANTS
    TypeOK
    WithinLimit
    RoutedToLiveBranch
    NoIdleConsumption
    EntryIsFed
PROPERTIES
    AdmissionSpec
    DisconnectLeavesNoOrphan
