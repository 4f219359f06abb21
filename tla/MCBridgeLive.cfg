\* Two clients, RPC and diag requests, MCU faults: every wait ends.
CONSTANTS
    c1 = c1
    c2 = c2
    NoConn = NoConn
    Conns <- MCConns
    CidOf <- MCCidOf
    Sids <- MCSids
    FrameCids <- MCFrameCids
    Origins <- MCOrigins
    McuCid = 7
    MenuCid = 8
    ClientSids <- MCPwmDiag
    MenuSids <- MCNone
    Faults <- MCPwmOnly
    MaxPending = 2
    MaxQueue = 1
    MaxTx = 1
    MaxWire = 2
SPECIFICATION BridgeSpec
PROPERTY WaitEnds
