\* With the sizes of the firmware, a candidate whose DLC is in order is dropped.
CONSTANTS
    MaxPayload = 500
    Crc <- calc_crc8
    Streams <- MCAfterNoise
    BufSize = 512
    TempSize = 64
    PacketSize = 16
SPECIFICATION McuSpec
INVARIANT
    OnlyAbnormalDlcDiscarded
CHECK_DEADLOCK FALSE
