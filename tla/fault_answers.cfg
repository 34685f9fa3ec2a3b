SPECIFICATION FairSpec
CONSTANTS
    BitTime = 51
    LoopTime = 47
    CountRange = 3
    None = None
PROPERTIES ServesPatient
CHECK_DEADLOCK TRUE
