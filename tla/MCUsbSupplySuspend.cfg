CONSTANTS
    BatteryLevels = {}
    BatteryThresholds = {}
    PowerManagerQueueLen = 2
    TimerQueueLen = 2
    Interrupts <- AllInterrupts
SPECIFICATION SupplySpec
PROPERTY
    SuspendedOnlyFromPc
