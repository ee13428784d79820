CONSTANTS
    Delay <- MCDelay
    INFINITE_DELAY = "infinite"
    TimeoutSets <- MCTimeoutSets
    DefaultTimeouts <- MCDefaultTimeouts
    SupplyQueueLen = 1
SPECIFICATION LinkFairSpec
INVARIANTS
    CurrentTimeoutFresh
    SleepMatchesSupply
    ListenersInformed
    ListenersOnLink
    LinkFits
PROPERTY
    ComputerFound
