CONSTANTS
    p1 = p1
    p2 = p2
    Packets = {p1, p2}
    NoPacket = NoPacket
    QueueLen = 3
    Configuration <- MCShortConfiguration
    MaxFrames = 2
    Faults = {"restart", "loss", "hurry", "late"}
SPECIFICATION Spec
INVARIANTS
    PacketsOwned
    OrdersUnderMutex
