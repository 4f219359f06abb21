\* One client; the MCU may have no PWM input to report.
CONSTANTS
    c1 = c1
    c2 = c2
    NoConn = NoConn
    Conns <- MCOneConn
    CidOf <- MCOneCid
    Sids <- MCSids
    FrameCids <- MCFrameCids
    Origins <- MCOneOrigins
    McuCid = 7
    MenuCid = 8
    ClientSids <- MCDiag
    MenuSids <- MCMenu
    Faults <- MCPwmOnly
    MaxPending = 2
    MaxQueue = 1
    MaxTx = 1
    MaxWire = 1
SPECIFICATION BridgeSpec
PROPERTY DiagShowsResponse
