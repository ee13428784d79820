CONSTANTS
    Packages <- MCPackages
    PacketLen = 2
    ChunkLen = 8
    HeaderLen = 3
    NextField = 1
    ObjectLen = 8
    NbTries = 3
    MaxLate = 3
    MaxLost = 3
SPECIFICATION FairSpec
INVARIANTS
    NrfUpdateTypeOK
    InstalledUnlessUnreported
    IgnoresOnlyOlder
    PacketFitsObject
    TakenOnceInOrder
PROPERTY
    TransferEnds
CHECK_DEADLOCK FALSE
