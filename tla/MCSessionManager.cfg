\* Two connections with one CID and a third: every operation interleaved.
CONSTANTS
    c1 = c1
    c2 = c2
    c3 = c3
    NoConn = NoConn
    Conns <- MCConns3
    CidOf <- MCCidOf3
    Sids <- MCSids
    FrameCids <- MCFrameCids
    Origins <- MCOrigins
    MaxTx = 1
    MaxPending = 2
    MaxQueue = 2
SYMMETRY MCSymmetry
SPECIFICATION Spec
INVARIANTS
    TypeOK
    RxThreadOwnsSession
    SessionIsLive
    ReconnectStartsFresh
PROPERTIES
    PendingOnlyAnswered
    ImplementsSessionService
