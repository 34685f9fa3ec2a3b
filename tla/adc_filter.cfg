SPECIFICATION Spec
CONSTANTS
    SAMPLES_PER_PACKET = 4
    SeqRange = 2
    TimeRange = 100
    RingLen = 5
    MeasLen = 4
    ReadLens <- AnyReads
    Means <- FullScaleOrNone
    WriteTicks = 2
    PollTicks = 1
    StreamEnabled = TRUE
    NoPacket = NoPacket
INVARIANTS TypeOK DropsOnlySplitPairs SeqGapIsLoss NoOverrun OverRangeOnlyOddReads
PROPERTY ImplementsStream
CHECK_DEADLOCK TRUE
