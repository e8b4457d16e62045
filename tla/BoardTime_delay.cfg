SPECIFICATION FairBoard
CONSTANTS
    Threads = {"main", "led", "screen", "idle"}
    Idle = "idle"
    Busy = "main"
    Priority <- McPriority
    Durations = {1, 2}
    TickMax = 7
    Reload = 2
    MicrosPerTick = 2
    Micros = {1, 3}
    WordRange = 16
INVARIANTS DelayTypeOK HighestRuns NeverEarly
PROPERTIES DelaysExactly Wakes
