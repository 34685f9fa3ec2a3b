----------------------------- MODULE MCAdcTask ------------------------------
(***************************************************************************)
(* Values of AdcTask's constants for TLC: packets of four samples, a small *)
(* number of sequence numbers, and a clock that wraps within a packet.     *)
(***************************************************************************)
EXTENDS AdcTask

\* What ring.read may report: all it was asked for, or, as far as the code
\* can tell, nothing, too little to average, less or more than was asked for.
FullReads == {MeasLen}
LiveReads == {MeasLen - 2, MeasLen}
AnyReads  == {0, 1, MeasLen - 1, MeasLen + 1}

\* An input at mid-scale (1650 mV), and one at full scale or grounded.
MidScale   == {2048}
FullScaleOrNone == {0, 4095}
=============================================================================
