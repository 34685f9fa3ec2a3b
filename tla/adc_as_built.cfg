SPECIFICATION FairSpec
CONSTANTS
    SAMPLES_PER_PACKET = 4
    SeqRange = 3
    TimeRange = 1000
    RingLen = 8
    MeasLen = 4
    ReadLens <- FullReads
    Means <- MidScale
    WriteTicks = 10
    PollTicks = 2
    StreamEnabled = FALSE
    NoPacket = NoPacket
PROPERTY PacketsKeepFlowing
CHECK_DEADLOCK TRUE
