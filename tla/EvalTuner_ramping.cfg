SPECIFICATION TunerSpec
CONSTANTS
    GainTable <- McGains
    FeedTable <- McFeed
    InitialHeight = 6
    RampStep = 2
    MinHeight = 4
    FullSpeed = 3
    Sentinel = 9999
    Heights <- TunerHeights
    ReadBlocks = TRUE
    AfterOpening = {"reading"}
    Commands <- TunerCommands
    MaxIntegral = 3
    MaxTotal = 2
    RingSize = 64
    Trials <- OneProfile
    Targets <- OneTarget
INVARIANTS AlwaysTestsItsGains
CHECK_DEADLOCK FALSE
