\* Two connections with one CID: does every registered client get a session?
CONSTANTS
    c1 = c1
    c2 = c2
    c3 = c3
    NoConn = NoConn
    Conns <- MCConns
    CidOf <- MCCidOf
    Sids <- MCSids
    FrameCids <- MCFrameCids
    Origins <- MCOrigins
    MaxTx = 1
    MaxPending = 1
    MaxQueue = 1
SPECIFICATION Spec
INVARIANT RegisteredIsStarted
