SPECIFICATION TunerSpec
CONSTANTS
    GainTable <- McGains
    FeedTable <- McFeed
    InitialHeight = 6
    RampStep = 2
    MinHeight = 4
    FullSpeed = 1
    Sentinel = 9999
    Heights <- TunerHeights
    ReadBlocks = FALSE
    AfterOpening = {"reading"}
    Commands <- TunerCommands
    MaxIntegral = 3
    MaxTotal = 2
    RingSize = 64
    Trials <- TwoProfiles
    Targets <- TwoTargets
INVARIANTS TestsItsGains ScoreIsOwn SavedWasMeasured
CHECK_DEADLOCK FALSE
