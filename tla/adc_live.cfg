SPECIFICATION FairSpec
CONSTANTS
    SAMPLES_PER_PACKET = 4
    SeqRange = 3
    TimeRange = 250
    RingLen = 8
    MeasLen = 4
    ReadLens <- LiveReads
    Means <- MidScale
    WriteTicks = 10
    PollTicks = 2
    StreamEnabled = TRUE
    NoPacket = NoPacket
    ByteRange = 16
    MAGIC = 223
    Padding = {0, 7}
INVARIANTS ClockLagIsDiscards HeaderAgrees
PROPERTY PacketsKeepFlowing
CHECK_DEADLOCK TRUE
