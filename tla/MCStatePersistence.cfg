SPECIFICATION Spec
CONSTANTS
    Rooms = {r1, r2}
    BootModes = {"restore", "test"}
    Faults = {"crash", "copy", "write", "start", "stop"}
    Absent = Absent
    Torn = Torn
SYMMETRY Symmetry
INVARIANTS
    TypeOK
    AckedIsRecoverable
    RegistryIsMarked
PROPERTIES
    LossIsConfined
