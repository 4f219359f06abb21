\* Five short scripts of requests on two USARTs, with one advertisement frame;
\* the ADC for five scans; the PWM with every edge of its arithmetic.
CONSTANTS
    d1 = d1
    d2 = d2
    r1 = r1
    z1 = z1
    x1 = x1
    i1 = i1
    Requests <- MCRequests
    Scripts <- MCScripts
    Kind <- MCKind
    ReqLen <- MCReqLen
    TxLen = 3
    AdvFrames = 1
    MaxPeriods = 1
    DmaSize = 4
    StreamSize = 3
    TempSize = 3
    IrqLatency = 1
    MaxScan = 5
    Settings <- MCSettings
SPECIFICATION MCSpec
CHECK_DEADLOCK FALSE
INVARIANTS
    TaskTypeOK
    PacketServedAsNotified
    AnswersInOnePiece
    AnswersInServedOrder
    AdvertisementOnlyCut
    AssertionsHold
    PairOfOneScan
    NewestScanReturned
    PwmReadsBack
PROPERTY AcceptedIsServed
