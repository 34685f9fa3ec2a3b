SPECIFICATION FairSpec
CONSTANTS
    WireLen = 3
    HostLen = 2
    SeqRange = 2
    Looks = {"data", "header", "empty"}
    Lossy = TRUE
    Resets = TRUE
    MaxErrors = 1
    RxLen = 4
    MaxPackets = 3
    Nothing = Nothing
INVARIANTS TypeOK ReturnsWholePackets MissedAreAccountedFor WarnsOfRenumbering
PROPERTIES InStreamOrder 
CHECK_DEADLOCK FALSE
