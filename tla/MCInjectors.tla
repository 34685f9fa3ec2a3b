---------------------------- MODULE MCInjectors -----------------------------
EXTENDS Injectors

\* Every fault type, aimed and certain (BitDelay does what Timeout does); those
\* that draw or count in a way of their own, random and rare; and the other
\* cases of should_inject.
MCConfigs ==
    {[fault_type |-> f, target_bit |-> 3, probability_permille |-> 1000] :
        f \in FaultTypes \ {"BitDelay"}}
    \union {[fault_type |-> f, target_bit |-> 255, probability_permille |-> 8] :
               f \in {"BitFlip", "ClockGlitch", "CrcCorrupt", "Overrun", "NackInjection"}}
    \union {[fault_type |-> "StuckAtOne", target_bit |-> 7, probability_permille |-> 500],
            [fault_type |-> "FrameCorrupt", target_bit |-> 0, probability_permille |-> 0]}

MCWords == {{}, 0..31}
=============================================================================
