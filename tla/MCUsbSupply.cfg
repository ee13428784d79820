CONSTANTS
    BatteryLevels = {10}
    BatteryThresholds = {20}
    PowerManagerQueueLen = 2
    TimerQueueLen = 1
    Interrupts <- AllInterrupts
SPECIFICATION SupplyFairSpec
INVARIANTS
    QuiescentSupplyRight
    BatteryFollowsSupply
PROPERTY
    SupplyFoundOut
