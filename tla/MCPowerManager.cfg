CONSTANTS
    Delay <- MCDelay
    INFINITE_DELAY = "infinite"
    TimeoutSets <- MCTimeoutSets
    DefaultTimeouts <- MCDefaultTimeouts
    BatteryLevels = {}
    BatteryThresholds = {100}
    ActivityQueueLen = 1
    PowerManagerQueueLen = 1
    TimerQueueLen = 1
    Interrupts = {"CONNECT", "DISCONNECT"}
    Requests <- MCAllRequests
SPECIFICATION PMFairSpec
INVARIANTS
    PMTypeOK
    SupplyForwarded
    BatteryStateFresh
PROPERTIES
    NoShutdownOnUsbPower
    Spec
    SupplyReachesStateMachine
    IdleOnBatteryShutsDown
