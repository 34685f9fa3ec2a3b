SPECIFICATION Spec
CONSTANTS
    SAMPLES_PER_PACKET = 4
    SeqRange = 3
    TimeRange = 1000
    RingLen = 8
    MeasLen = 4
    ReadLens <- FullReads
    Means <- MidScale
    WriteTicks = 10
    PollTicks = 2
    StreamEnabled = TRUE
    NoPacket = NoPacket
    ByteRange = 16
    MAGIC = 223
    Padding = {0, 7}
INVARIANT SamplesAgree
CHECK_DEADLOCK TRUE
