SPECIFICATION ProxySpec
CONSTANTS
    c1 = c1
    c2 = c2
    c3 = c3
    p1 = p1
    p2 = p2
    Connections = {c1, c2}
    Lines <- ProxyLines
    MaxSent = 2
    Window <- ProxyWindow
    Relying = {}
    RecvRoom = 8
    MaxArgs = 8
    Backlog = 1
    Cuts = FALSE
    NoConnection = NoConnection
    Pages = {p1, p2}
    Commands <- ProxyCommands
    Collects = FALSE
SYMMETRY Interchangeable
INVARIANTS ProxyTypeOK WriterIsRead Polled ShownInOrder
