SPECIFICATION FairSpec
CONSTANTS
    Setups <- AllSetups
    Prompt = 1
    DiscardCap = 1
INVARIANTS
    TypeOK
    NoLostWakeup
    NothingTwice
    HeadIsPrefix
    CaptureIsHonest
PROPERTIES
    StreamsAreServed
