\* Every chunking of streams with intact, damaged and truncated frames.
CONSTANTS
    MaxPayload = 2
    Crc <- calc_crc8
    Streams <- MCStreams
    MaxRead = 9
SPECIFICATION ParserSpec
INVARIANTS
    ParserTypeOK
    OnlyIntactDelivered
    NothingIntactSkipped
    BufferHoldsLessThanAFrame
CHECK_DEADLOCK FALSE
