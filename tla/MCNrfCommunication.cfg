CONSTANTS
    p1 = p1
    p2 = p2
    p3 = p3
    Packets = {p1, p2, p3}
    NoPacket = NoPacket
    QueueLen = 8
    Configuration <- MCConfiguration
    MaxFrames = 2
    Faults = {}
SPECIFICATION FairSpec
INVARIANTS
    ChipFollows
    AdvertisesConfigured
PROPERTY AdvertisingStarts
