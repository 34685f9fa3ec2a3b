------------------------------ MODULE BitBang ------------------------------
(***************************************************************************)
(* The bit-banged serial port of the fault injector (UartBitbang in        *)
(* firmware/src/fault/mod.rs), whose bits are timed by a busy loop.        *)
(*                                                                         *)
(* A byte is the set of the numbers of its one-bits.  Times are in any     *)
(* unit, say CPU cycles.                                                   *)
(***************************************************************************)
EXTENDS Integers

CONSTANTS
    BitTime,    \* a bit on the wire: 1/115200 s, 729 cycles at 84 MHz
    LoopTime    \* bit_delay(): 168 rounds of a loop, 8 us if a round takes 4 cycles

ASSUME BitBangAssumption == BitTime \in Nat \ {0} /\ LoopTime \in Nat \ {0}

Byte == SUBSET (0..7)

\* The level of the RX line at time t, if all it carries is frame f: a low
\* start bit, eight data bits with the lowest first, and high from then on.
High(f, t) ==
    LET k == (t - f.start) \div BitTime IN
    k < 0 \/ k > 8 \/ k - 1 \in f.byte

LineHigh(frames, t) == \A f \in frames : High(f, t)

\* Mutant: one delay before the first sample.
ReadByte_OneDelay(frames, t) == {i \in 0..7 : LineHigh(frames, t + (1 + i) * LoopTime)}

\* read_byte, when the line is low at time t: two delays, then a sample and a
\* delay for each bit.  Nothing looks at the start bit again, or at the stop
\* bit at all.
ReadByte(frames, t) == {i \in 0..7 : LineHigh(frames, t + (2 + i) * LoopTime)}

\* The level of the TX line t after write_byte(byte) has begun.
TxHigh(byte, t) == LET k == t \div LoopTime IN k > 8 \/ k - 1 \in byte

\* What a UART at the other end receives, which samples in the middle of a bit.
Received(byte) == {i \in 0..7 : TxHigh(byte, ((2 * i + 3) * BitTime) \div 2)}

-----------------------------------------------------------------------------
(* The lengths of the loop for which the port works.                       *)

Frame(byte) == [byte |-> byte, start |-> 0]

\* Every byte that is read from its start bit on is read right.
ReadsRight == \A byte \in Byte : ReadByte({Frame(byte)}, 0) = byte

ReadBand == LoopTime < BitTime /\ 8 * BitTime <= 9 * LoopTime

\* Every byte that is written is received right.
WritesRight == \A byte \in Byte : Received(byte) = byte

WriteBand == 17 * BitTime < 18 * LoopTime /\ 16 * LoopTime <= 17 * BitTime

\* The lengths the source names: a loop of 8 us, a bit of 1/115200 s.
Nominal == 625 * LoopTime = 576 * BitTime

\* The lengths at which the last bit of a written byte is over before the
\* middle of the bit it is to be.
TooShortToWrite == 18 * LoopTime <= 17 * BitTime
=============================================================================
