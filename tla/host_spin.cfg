SPECIFICATION FairSpec
CONSTANTS
    WireLen = 3
    HostLen = 2
    SeqRange = 8
    Looks = {"data", "empty"}
    Resets = FALSE
    Lossy = FALSE
    MaxErrors = 1
    RxLen = 7
    MaxPackets = 5
    Nothing = Nothing
PROPERTY DeadlineHolds
CHECK_DEADLOCK FALSE
