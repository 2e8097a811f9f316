SPECIFICATION FairSpec
CONSTANTS
    Configs <- Bounded
    MaxRestarts = 2
    MayFail = TRUE
INVARIANTS
    OneAtATime
    PublishedIsRunning
    StopIsNotCancellation
    OneMoreLaunchAtMost
PROPERTIES
    StopsAreAnswered
