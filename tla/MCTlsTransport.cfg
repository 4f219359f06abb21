\* Two connections that open, carry data and close in any interleaving.
CONSTANTS
    c1 = c1
    c2 = c2
    Conns <- MCConns
    MaxQueue = 2
SPECIFICATION TlsSpec
INVARIANTS
    TlsTypeOK
    TxJoinedBeforeDestroy
    StartedBeforeStopped
    DeliveryHitsLiveTransport
    FreedWriteOnlyInStop
PROPERTIES
    QueuedDataIsSent
    ThreadsImplementService
CHECK_DEADLOCK FALSE
