SPECIFICATION StableSpec
CONSTANTS
    Version <- MCVersion
    NoPackage = NoPackage
    NoFirmware = NoFirmware
    Faults = TRUE
INVARIANTS
    ApplicationConfirmed
    ChipsAgree
    RollbackPackageFits
PROPERTIES
    KeepsPackage
    UpdateEnds
