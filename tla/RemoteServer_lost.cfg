SPECIFICATION Spec
CONSTANTS
    c1 = c1
    c2 = c2
    Connections = {c1}
    Lines <- MixedLines
    MaxSent = 2
    Window <- PipelinedWindow
    Relying = {c1}
    RecvRoom = 8
    MaxArgs = 8
    Backlog = 1
    Cuts = FALSE
    NoConnection = NoConnection
INVARIANTS NothingLost
