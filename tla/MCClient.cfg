\* Two programs with two connections each, three of which announce the default
\* CID; two MCUs and two services.
CONSTANTS
    c1 = c1
    c2 = c2
    c3 = c3
    c4 = c4
    g1 = g1
    g2 = g2
    NoConn = NoConn
    Conns <- MCConns
    CidOf <- MCCidOf
    Sids = {32}
    FrameCids = {7}
    Origins = {NoConn}
    MaxTx = 1
    MaxPending = 1
    MaxQueue = 1
    Guis = {g1, g2}
    GuiOf <- MCGuiOf
    MaxBacklog = 2
    Mcus = {m1, m2}
    Services = {s1, s2}
    None = None
SPECIFICATION MCSpec
INVARIANTS
    RegistrationTypeOK
    SessionHasItsClient
    RequestIsOffered
    ListShowsSelectedMcu
PROPERTIES
    ConnectReturns
    AcceptComesToAll
