SPECIFICATION Spec
CONSTANTS
    Configs <- PlainConfigs
    MaxRestarts = 2
    MayFail = FALSE
INVARIANTS
    StopInPauseIsFinal
