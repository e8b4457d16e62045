SPECIFICATION Spec
CONSTANTS
    GainTable <- WindupGains
    FeedTable <- WindupFeed
    InitialHeight = 2
    RampStep = 1
    MinHeight = 1
    FullSpeed = 3
    Sentinel = 9999
    Heights <- WindupHeights
    ReadBlocks = FALSE
    AfterOpening = {"reading", "ended"}
    Commands <- WindupCommands
    MaxIntegral = 20
    MaxTotal = 3
    Ceiling = 3
    MaxGain = 1
    MinKi = 1
INVARIANTS TypeOK EvaluationExact IntegralBounded
