SPECIFICATION BoardSpec
CONSTANTS
    Builds = {{"digital"}}
    TickLen = 20
    CntRange = 4
    Inputs <- MCInputs
INVARIANT PwmOutputMeasured
CHECK_DEADLOCK FALSE
