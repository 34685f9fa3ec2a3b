--------------------------- MODULE BitBangProofs ---------------------------
(***************************************************************************)
(* For which lengths of its busy loop the bit-banged port works: exactly   *)
(* those of two narrow bands, one for each direction.  The lengths that    *)
(* the source names are in the one and outside the other.                  *)
(***************************************************************************)
EXTENDS BitBang, TLAPS

\* Division by a positive number puts a time into its bit.
LEMMA PlaceOf ==
  ASSUME NEW t \in Nat, NEW d \in Nat \ {0}, NEW k \in Nat
  PROVE  /\ t \div d = k <=> k * d <= t /\ t < (k + 1) * d
         /\ t \div d > 8 <=> t >= 9 * d
BY SMTT(30)

\* A frame that starts at 0 is high at t if its bit there is one, or if it is
\* over.
LEMMA HighInFrame ==
  ASSUME NEW byte \in Byte, NEW t \in Nat
  PROVE  High(Frame(byte), t) <=> t \div BitTime > 8 \/ t \div BitTime - 1 \in byte
BY BitBangAssumption DEF High, Frame, Byte

\* What read_byte makes of one frame, bit by bit.
LEMMA BitOfRead ==
  ASSUME NEW byte \in Byte, NEW i \in 0..7
  PROVE  i \in ReadByte({Frame(byte)}, 0)
           <=> High(Frame(byte), (2 + i) * LoopTime)
BY BitBangAssumption DEF ReadByte, LineHigh

\* The same for write_byte and the UART that receives it.
LEMMA BitOfWrite ==
  ASSUME NEW byte \in Byte, NEW i \in 0..7
  PROVE  LET k == (((2 * i + 3) * BitTime) \div 2) \div LoopTime
         IN i \in Received(byte) <=> k > 8 \/ k - 1 \in byte
BY DEF Received, TxHigh

-----------------------------------------------------------------------------

\* read_byte returns every byte right exactly if its loop is shorter than a
\* bit on the wire, and by no more than a ninth: it looks at the last bit nine
\* loops after the start bit began, when that bit has lasted for eight.
THEOREM ReadsRightInBand == ReadsRight <=> ReadBand
<1>1. ASSUME ReadBand, NEW byte \in Byte, NEW i \in 0..7
      PROVE  i \in ReadByte({Frame(byte)}, 0) <=> i \in byte
  <2> DEFINE t == (2 + i) * LoopTime
  <2>1. t \in Nat
    BY BitBangAssumption
  <2>2. (i + 1) * BitTime <= t /\ t < (i + 2) * BitTime
    BY <1>1, BitBangAssumption, SMTT(30) DEF ReadBand
  <2>3. t \div BitTime = i + 1
    <3> HIDE DEF t
    <3> QED BY <2>1, <2>2, PlaceOf, BitBangAssumption
  <2>4. High(Frame(byte), t) <=> i \in byte
    <3> HIDE DEF t
    <3> QED BY <2>1, <2>3, HighInFrame
  <2> QED BY <2>4, BitOfRead
<1>2. ASSUME ReadBand, NEW byte \in Byte PROVE ReadByte({Frame(byte)}, 0) = byte
  <2>1. ReadByte({Frame(byte)}, 0) \subseteq 0..7 /\ byte \subseteq 0..7
    BY DEF ReadByte, Byte
  <2> QED BY <1>1, <1>2, <2>1
<1>3. ASSUME ReadsRight PROVE ReadBand
  <2> DEFINE t == 9 * LoopTime
             k == t \div BitTime
  <2>1. t \in Nat /\ k \in Int
    BY BitBangAssumption, SMTT(30)
  <2>2. \A byte \in Byte : 7 \in byte <=> k > 8 \/ k - 1 \in byte
    <3> SUFFICES ASSUME NEW byte \in Byte
                 PROVE  7 \in byte <=> k > 8 \/ k - 1 \in byte
      OBVIOUS
    <3>1. 7 \in ReadByte({Frame(byte)}, 0) <=> High(Frame(byte), (2 + 7) * LoopTime)
      BY BitOfRead
    <3>2. (2 + 7) * LoopTime = t
      BY BitBangAssumption
    <3>3. High(Frame(byte), t) <=> k > 8 \/ k - 1 \in byte
      BY <2>1, HighInFrame
    <3> QED BY <1>3, <3>1, <3>2, <3>3 DEF ReadsRight
  <2>3. ~(k > 8) /\ k - 1 = 7
    <3>1. {} \in Byte /\ {7} \in Byte
      BY DEF Byte
    <3> HIDE DEF k
    <3> QED BY <2>2, <3>1
  <2>4. k = 8
    <3> HIDE DEF k
    <3> QED BY <2>1, <2>3
  <2>5. 8 * BitTime <= t /\ t < (8 + 1) * BitTime
    <3> HIDE DEF t
    <3> QED BY <2>1, <2>4, PlaceOf, BitBangAssumption
  <2> QED BY <2>5, BitBangAssumption DEF ReadBand
<1> QED BY <1>2, <1>3 DEF ReadsRight

\* A UART at the other end receives every byte right exactly if the loop is
\* longer than 17/18 of a bit, and no longer than 17/16: the last bit's middle
\* is the first to slip out of its place.
THEOREM WritesRightInBand == WritesRight <=> WriteBand
<1> DEFINE Middle(i) == ((2 * i + 3) * BitTime) \div 2
<1>1. ASSUME NEW i \in 0..7 PROVE Middle(i) \in Nat
  BY BitBangAssumption, SMTT(30)
<1>2. ASSUME NEW i \in 0..7, NEW n \in Nat
      PROVE  /\ n <= Middle(i) <=> 2 * n <= (2 * i + 3) * BitTime
             /\ Middle(i) < n <=> (2 * i + 3) * BitTime < 2 * n
  BY BitBangAssumption, SMTT(30)
<1>3. ASSUME WriteBand, NEW i \in 0..7 PROVE Middle(i) \div LoopTime = i + 1
  <2>1. /\ 2 * ((i + 1) * LoopTime) <= (2 * i + 3) * BitTime
        /\ (2 * i + 3) * BitTime < 2 * ((i + 2) * LoopTime)
    BY <1>3, BitBangAssumption, SMTT(30) DEF WriteBand
  <2>2. (i + 1) * LoopTime \in Nat /\ (i + 2) * LoopTime \in Nat
    BY BitBangAssumption
  <2>3. (i + 1) * LoopTime <= Middle(i) /\ Middle(i) < (i + 2) * LoopTime
    BY <1>2, <2>1, <2>2
  <2>4. Middle(i) \in Nat /\ i + 1 \in Nat /\ (i + 1) + 1 = i + 2
    BY <1>1
  <2> HIDE DEF Middle
  <2> QED BY <2>3, <2>4, PlaceOf, BitBangAssumption
<1>4. ASSUME WriteBand, NEW byte \in Byte PROVE Received(byte) = byte
  <2>1. Received(byte) \subseteq 0..7 /\ byte \subseteq 0..7
    BY DEF Received, Byte
  <2>2. ASSUME NEW i \in 0..7 PROVE i \in Received(byte) <=> i \in byte
    <3> DEFINE k == Middle(i) \div LoopTime
    <3>1. k = i + 1
      BY <1>3, <1>4
    <3>2. i \in Received(byte) <=> k > 8 \/ k - 1 \in byte
      BY BitOfWrite
    <3> HIDE DEF k
    <3> QED BY <3>1, <3>2
  <2> QED BY <2>1, <2>2
<1>5. ASSUME WritesRight PROVE WriteBand
  <2> DEFINE k == Middle(7) \div LoopTime
  <2>1. k \in Int
    BY <1>1, BitBangAssumption, SMTT(30)
  <2>2. \A byte \in Byte : 7 \in byte <=> k > 8 \/ k - 1 \in byte
    BY <1>5, BitOfWrite DEF WritesRight
  <2>3. k = 8
    <3>1. {} \in Byte /\ {7} \in Byte
      BY DEF Byte
    <3> HIDE DEF k
    <3> QED BY <2>1, <2>2, <3>1
  <2>4. 8 * LoopTime <= Middle(7) /\ Middle(7) < (8 + 1) * LoopTime
    <3> HIDE DEF Middle
    <3> QED BY <1>1, <2>3, PlaceOf, BitBangAssumption
  <2>5. 8 * LoopTime \in Nat /\ 9 * LoopTime \in Nat
    BY BitBangAssumption
  <2>6. 2 * (8 * LoopTime) <= 17 * BitTime /\ 17 * BitTime < 2 * (9 * LoopTime)
    BY <1>2, <2>4, <2>5, BitBangAssumption
  <2> QED BY <2>6, BitBangAssumption DEF WriteBand
<1> QED BY <1>4, <1>5 DEF WritesRight

\* So both directions work exactly if the loop takes more than 17/18 of a bit
\* and less than one: 689 to 728 cycles at 84 MHz.
THEOREM BothWaysInBand ==
  ReadsRight /\ WritesRight <=> 17 * BitTime < 18 * LoopTime /\ LoopTime < BitTime
BY ReadsRightInBand, WritesRightInBand, BitBangAssumption DEF ReadBand, WriteBand

\* With a loop too short to write, every byte arrives with its last bit high,
\* whatever it was: the UART looks at it when the stop bit has begun.
THEOREM LastBitHeardHigh ==
  ASSUME TooShortToWrite, NEW byte \in Byte
  PROVE  7 \in Received(byte)
<1> DEFINE m == (17 * BitTime) \div 2
           k == m \div LoopTime
<1>1. m \in Nat /\ 9 * LoopTime <= m
  BY BitBangAssumption, SMTT(30) DEF TooShortToWrite
<1>2. k > 8
  <2> HIDE DEF m
  <2> QED BY <1>1, PlaceOf, BitBangAssumption
<1>3. 2 * 7 + 3 = 17
  OBVIOUS
<1> QED BY <1>2, <1>3, BitOfWrite

\* 8 us is a length of the loop with which a port at 115200 baud reads every
\* byte right, and is too short for it to write one.
THEOREM NominalLengths ==
  ASSUME Nominal
  PROVE  ReadBand /\ TooShortToWrite /\ ~WriteBand
BY BitBangAssumption DEF Nominal, ReadBand, TooShortToWrite, WriteBand
=============================================================================
