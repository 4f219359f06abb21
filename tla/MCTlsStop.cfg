\* Does every session whose connection ended get removed?
CONSTANTS
    c1 = c1
    c2 = c2
    Conns <- MCOneConn
    MaxQueue = 2
SPECIFICATION TlsSpec
PROPERTY ClosedSessionIsRemoved
CHECK_DEADLOCK FALSE
