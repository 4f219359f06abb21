\* Every chunking of streams with intact and damaged requests.
CONSTANTS
    MaxPayload = 4
    Crc <- calc_crc8
    Streams <- MCStreams
    BufSize = 14
    TempSize = 5
    PacketSize = 2
SPECIFICATION McuSpec
INVARIANTS
    McuTypeOK
    OnlyIntactHandled
    LostOnlyEarlyOrOverflowing
    OverflowOnlyBehindLongFrame
CHECK_DEADLOCK FALSE
