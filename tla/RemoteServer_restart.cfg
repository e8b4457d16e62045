SPECIFICATION Spec
CONSTANTS
    c1 = c1
    c2 = c2
    Connections = {c1}
    Lines <- FairLines
    MaxSent = 1
    Window <- WaitingWindow
    Relying = {}
    RecvRoom = 8
    MaxArgs = 8
    Backlog = 1
    Cuts = FALSE
    NoConnection = NoConnection
INVARIANTS AlreadyRunning
