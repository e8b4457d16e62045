SPECIFICATION FirmwareSpec
CONSTANTS
    GainTable <- FanGains
    FeedTable <- FanFeed
    InitialHeight = 6
    RampStep = 2
    MinHeight = 4
    FullSpeed = 32768
    Sentinel = 9999
    Heights = {4, 9}
    ReadBlocks = TRUE
    AfterOpening = {"reading", "ended"}
    Commands <- FanCommands
    MaxIntegral = 2
    MaxTotal = 10
    Precision = 65536
    Period = 40000
    DefaultPulse = 10000
    Devices = {"pwm0", "none"}
    Typed <- TypedSpeeds
INVARIANTS FanTypeOK FanObeys
