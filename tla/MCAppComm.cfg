CONSTANTS
    Task = {"USB", "BLE"}
    MaxLength = 2
    Lengths = {0, 2}
    StreamLen = 1
    Window = 3
SPECIFICATION Spec
INVARIANTS
    TransferConsistent
    ListenerFree
    LockLostOnlyWhenCrowded
PROPERTY
    AppliesTheWhole
CHECK_DEADLOCK FALSE
