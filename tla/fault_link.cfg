SPECIFICATION FairSpec
CONSTANTS
    BitTime = 51
    LoopTime = 47
    CountRange = 3
    None = None
INVARIANTS TypeOK PollingIsHarmless
PROPERTIES ObeysPatient PatientAnswered
CHECK_DEADLOCK TRUE
