\* One descriptor that every connection reuses.
CONSTANTS
    Fds = {f1}
    Conns = {c1, c2}
    Workers = {w1}
    NoConn = NoConn
    NoFd = NoFd
    NoReq = NoReq
    Shapes <- AllShapes
    Mixes <- Paired
    RespLen = 2
    SndBuf = 1
    Extra = 1
    MaxEvents = 2
    Errors = TRUE
    Signals = TRUE
SPECIFICATION Spec
SYMMETRY Symmetry
CHECK_DEADLOCK FALSE
INVARIANTS TypeOK SingleOwner EventsFindRequest NoMissedEdge WireIsOwnAnswer Accounting
PROPERTIES NoHangUpOnClient
