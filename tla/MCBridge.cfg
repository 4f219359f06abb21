\* Two clients, every fault: nobody waits for an answer that is not coming.
CONSTANTS
    c1 = c1
    c2 = c2
    NoConn = NoConn
    Conns <- MCConns
    CidOf <- MCCidOf
    Sids <- MCSids
    FrameCids <- MCFrameCids
    Origins <- MCOrigins
    McuCid = 7
    MenuCid = 8
    ClientSids <- MCDiag
    MenuSids <- MCMenu
    Faults <- MCFaults
    MaxPending = 2
    MaxQueue = 1
    MaxTx = 1
    MaxWire = 1
VIEW MCView
SPECIFICATION BridgeSpec
INVARIANTS
    BridgeTypeOK
    NoOrphanedWait
