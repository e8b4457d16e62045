SPECIFICATION FairProxySpec
CONSTANTS
    c1 = c1
    c2 = c2
    c3 = c3
    p1 = p1
    p2 = p2
    Connections = {c1, c2}
    Lines <- ProxyLines
    MaxSent = 1
    Window <- ProxyWindow
    Relying = {}
    RecvRoom = 8
    MaxArgs = 8
    Backlog = 1
    Cuts = FALSE
    NoConnection = NoConnection
    Pages = {p1}
    Commands <- ProxyCommands
    Collects = TRUE
PROPERTIES Served
