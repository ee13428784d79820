SPECIFICATION EnvSpec
CONSTANTS
    e1 = e1
    e2 = e2
    e3 = e3
    Env = {e1, e2, e3}
    DefaultEnv = e1
    NoEnv = NoEnv
    MaxId = 6
    DeviceFaults = FALSE
INVARIANTS
    EnvTypeOK
    ActiveBankReadable
    ReadsWhatSurvives
PROPERTIES
    StoreSpec
