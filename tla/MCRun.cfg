SPECIFICATION Spec
CONSTANTS
    Configs <- TimedConfigs
    Verbs <- AllVerbs
    MayFail = TRUE
    Abandon = TRUE
INVARIANTS
    NoStraySignal
    TimeoutKillIsReported
    ReportedMeansReaped
PROPERTIES
    SettledForGood
