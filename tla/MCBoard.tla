------------------------------- MODULE MCBoard -------------------------------
EXTENDS Board

\* A PWM output, an input of two ticks, and one that makes the counter wrap.
MCInputs == {Fraction(3, 4), [period |-> 50, width |-> 30], [period |-> 130, width |-> 20]}
=============================================================================
