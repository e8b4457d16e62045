SPECIFICATION FairSpec
CONSTANTS
    GainTable <- McGains
    FeedTable <- McFeed
    InitialHeight = 6
    RampStep = 2
    MinHeight = 4
    FullSpeed = 2
    Sentinel = 9999
    Heights <- TuneHeights
    ReadBlocks = FALSE
    AfterOpening = {"reading"}
    Commands <- TuneCommands
    MaxIntegral = 12
    MaxTotal = 0
PROPERTIES RampSafety RampRefined CommandsFinish
INVARIANTS SpeedAccepted LowTargetIsTransient GainsTrackSetpoint
