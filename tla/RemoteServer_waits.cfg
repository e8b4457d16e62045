SPECIFICATION Spec
CONSTANTS
    c1 = c1
    c2 = c2
    Connections = {c1, c2}
    Lines <- MixedLines
    MaxSent = 3
    Window <- MixedWindow
    Relying = {c1}
    RecvRoom = 5
    MaxArgs = 8
    Backlog = 1
    Cuts = FALSE
    NoConnection = NoConnection
INVARIANTS TypeOK RepliesMatch NothingLost TunesInOrder
PROPERTIES ChannelSafety
