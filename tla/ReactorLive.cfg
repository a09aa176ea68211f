\* Two descriptors, two workers, clients that may leave, a slow reader; refinement.
CONSTANTS
    Fds = {f1, f2}
    Conns = {c1, c2}
    Workers = {w1, w2}
    NoConn = NoConn
    NoFd = NoFd
    NoReq = NoReq
    Shapes <- PostOnly
    Mixes <- AnyMix
    RespLen = 2
    SndBuf = 1
    Extra = 0
    MaxEvents = 2
    Errors = FALSE
    Signals = FALSE
SPECIFICATION FairSpec
CHECK_DEADLOCK FALSE
PROPERTIES Answered Released ImplementsExchange
INVARIANTS WireIsOwnAnswer
