SPECIFICATION FairSpec
CONSTANTS
    Configs <- LiveConfigs
    Verbs <- WaitingVerbs
    MayFail = FALSE
    Abandon = FALSE
PROPERTIES
    TeardownEnforced
