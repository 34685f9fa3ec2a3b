--------------------------- MODULE InjectorProofs ---------------------------
(***************************************************************************)
(* Proofs about Injectors, for every set of configurations and words.  The *)
(* shift register's successor function is linear arithmetic: that it never *)
(* runs empty, and how a draw decides the next, are facts about it alone;  *)
(* all else is that every call reaches it through Inject and Overrun.      *)
(***************************************************************************)
EXTENDS Injectors, ModArith, FiniteSetTheorems

-----------------------------------------------------------------------------
(* The shift register.                                                     *)

\* Quotient and remainder for the divisors that the register needs.
LEMMA Halves ==
    ASSUME NEW a \in Int
    PROVE  a \div 2 \in Int /\ a % 2 \in 0..1 /\ a = 2 * (a \div 2) + (a % 2)
  BY SMT

\* What the register's taps read of a number, and of 1, is a number.
LEMMA Taps ==
    ASSUME NEW a \in Int
    PROVE  /\ a \div 4 \in Int /\ a \div 8 \in Int /\ a \div 32 \in Int
           /\ a = 1 => a \div 4 = 0 /\ a \div 8 = 0 /\ a \div 32 = 0
<1>1. a \div 4 \in Int /\ a % 4 \in 0..3 /\ a = 4 * (a \div 4) + (a % 4)
  BY SMT
<1>2. a \div 8 \in Int /\ a % 8 \in 0..7 /\ a = 8 * (a \div 8) + (a % 8)
  BY SMT
<1>3. a \div 32 \in Int /\ a % 32 \in 0..31 /\ a = 32 * (a \div 32) + (a % 32)
  BY SMT
<1> QED  BY <1>1, <1>2, <1>3, SMT

\* The low ten bits, and the rest.
LEMMA Thousands ==
    ASSUME NEW a \in Int
    PROVE  a \div 1024 \in Int /\ a % 1024 \in 0..1023 /\ a = 1024 * (a \div 1024) + (a % 1024)
  BY SMT

\* A register that runs holds a non-zero u16.
LEMMA RunningRange ==
    ASSUME NEW x \in Running
    PROVE  x \in Int /\ x >= 1 /\ x <= 65535
<1>1. MaxU16 \in Int
  BY SMT DEF MaxU16
<1>2. x \in Int /\ x >= 1 /\ x <= MaxU16
  BY <1>1 DEF Running
<1>3. MaxU16 = 65535
  BY DEF MaxU16
<1> QED  BY <1>2, <1>3

\* A register that holds a one-bit never loses its last one.
LEMMA StepRuns ==
    ASSUME NEW x \in Running
    PROVE  Step(x) \in Running
<1> DEFINE half == x \div 2
           odd == x % 2
           sum == x + x \div 4 + x \div 8 + x \div 32
           fed == sum % 2
<1>1. x \in Int /\ x >= 1 /\ x <= 65535
  BY RunningRange
<1>2. half \in Int /\ odd \in 0..1 /\ x = 2 * half + odd
  BY <1>1, Halves
<1>3. x \div 4 \in Int /\ x \div 8 \in Int /\ x \div 32 \in Int
  BY <1>1, Taps
<1>4. fed \in 0..1
  <2>1. sum \in Int
    BY <1>1, <1>3, SMT
  <2> HIDE DEF sum
  <2> QED  BY <2>1, Halves
<1>5. x = 1 => fed = 1
  <2>1. x = 1 => sum = 1
    BY <1>1, Taps
  <2>2. 1 % 2 = 1
    BY SMT
  <2> HIDE DEF sum
  <2> QED  BY <2>1, <2>2
<1>6. Step(x) = half + 32768 * fed
  BY DEF Step
<1> HIDE DEF half, odd, sum, fed
<1>7. half + 32768 * fed >= 1 /\ half + 32768 * fed <= 65535
  BY <1>1, <1>2, <1>4, <1>5, SMT
<1>8. Step(x) \in Int /\ Step(x) >= 1 /\ Step(x) <= 65535
  <2>1. half + 32768 * fed \in Int
    BY <1>2, <1>4, SMT
  <2> QED  BY <1>6, <1>7, <2>1
<1>9. MaxU16 \in Int /\ Step(x) <= MaxU16
  BY <1>8, SMT DEF MaxU16
<1> QED  BY <1>8, <1>9 DEF Running

\* The three bits that next_bit takes of a draw are the ones that the draw
\* before had one place further up.
LEMMA StepShifts ==
    ASSUME NEW x \in Running, NEW p \in 1..16, x % 1024 < p
    PROVE  Step(x) % 8 \in 0 .. (p - 1) \div 2
<1> DEFINE sum == x + x \div 4 + x \div 8 + x \div 32
           fed == sum % 2
           low == x % 1024
           high == x \div 1024
           half == low \div 2
           odd == low % 2
<1>1. x \in Int /\ x >= 1 /\ x <= 65535
  BY RunningRange
<1>2. low \in 0..p-1 /\ high \in Int /\ x = 1024 * high + low
  BY <1>1, Thousands
<1>3. fed \in 0..1
  <2>1. x \div 4 \in Int /\ x \div 8 \in Int /\ x \div 32 \in Int
    BY <1>1, Taps
  <2>2. sum \in Int
    BY <1>1, <2>1, SMT
  <2> HIDE DEF sum
  <2> QED  BY <2>2, Halves
<1>4. half \in Int /\ odd \in 0..1 /\ low = 2 * half + odd
  <2> HIDE DEF low
  <2> QED  BY <1>2, Halves
<1>5. half \in 0 .. (p - 1) \div 2 /\ half \in 0..7
  <2>1. (p - 1) \div 2 \in Int /\ (p - 1) % 2 \in 0..1
        /\ p - 1 = 2 * ((p - 1) \div 2) + ((p - 1) % 2)
    BY Halves
  <2> HIDE DEF low, half, odd
  <2> QED  BY <1>2, <1>4, <2>1, SMT
<1>6. x \div 2 = 512 * high + half
  <2>1. x \div 2 \in Int /\ x % 2 \in 0..1 /\ x = 2 * (x \div 2) + (x % 2)
    BY <1>1, Halves
  <2> HIDE DEF low, high, half, odd
  <2> QED  BY <1>2, <1>4, <2>1, SMT
<1>7. Step(x) = 8 * (64 * high + 4096 * fed) + half
  <2>1. Step(x) = x \div 2 + 32768 * fed
    BY DEF Step
  <2> HIDE DEF fed, low, high, half, odd
  <2> QED  BY <1>2, <1>3, <1>5, <1>6, <2>1, SMT
<1>8. Step(x) % 8 = half
  <2> DEFINE q == 64 * high + 4096 * fed
  <2>1. q \in Int
    BY <1>2, <1>3, SMT
  <2> HIDE DEF q, half
  <2> QED  BY <1>5, <1>7, <2>1, ModUnique, SMT DEF q
<1> QED  BY <1>5, <1>8

-----------------------------------------------------------------------------
(* One word.                                                               *)

CallState == [lfsr : Running, draws : Nat, count : 0 .. CountRange - 1,
              overrun : BOOLEAN, got : Seq(SUBSET Nat)]

\* What TypeOK says of the configuration, without its literals.
ConfigOK == config.target_bit \in Nat /\ config.probability_permille \in Nat

\* The premise of RareFaultsHitLowBits, and the bits that it allows.
Rare == /\ config.fault_type = "BitFlip" /\ config.target_bit >= 32
        /\ config.probability_permille \in 1..16

LowBits == 0 .. (config.probability_permille - 1) \div 2

LEMMA ConfigType == TypeOK => ConfigOK
<1>1. ASSUME NEW c \in Configs PROVE c.target_bit \in Nat /\ c.probability_permille \in Nat
  BY InjectorsAssumption
<1>2. Default(protocol).target_bit \in Nat /\ Default(protocol).probability_permille \in Nat
  BY DEF Default
<1> QED  BY <1>1, <1>2 DEF TypeOK, ConfigOK

\* A draw steps the register and leaves everything else of a call's state alone.
LEMMA DrawType ==
    ASSUME NEW s \in CallState
    PROVE  /\ Draw(s) \in CallState
           /\ Draw(s).lfsr = Step(s.lfsr)
           /\ Draw(s).overrun = s.overrun
           /\ Draw(s).got = s.got
           /\ Draw(s).count = s.count
<1>1. Step(s.lfsr) \in Running
  BY StepRuns DEF CallState
<1>2. s.draws + 1 \in Nat
  BY DEF CallState
<1>3. Draw(s) \in CallState
  BY <1>1, <1>2, Zenon DEF Draw, CallState
<1>4. /\ Draw(s).lfsr = Step(s.lfsr)
      /\ Draw(s).overrun = s.overrun
      /\ Draw(s).got = s.got
      /\ Draw(s).count = s.count
  BY SMT DEF Draw, CallState
<1> QED  BY <1>3, <1>4

\* Counting changes the count alone.
LEMMA CountedType ==
    ASSUME NEW s \in CallState, NEW n \in Nat
    PROVE  /\ Counted(s, n) \in CallState
           /\ Counted(s, n).overrun = s.overrun
           /\ Counted(s, n).got = s.got
           /\ Counted(s, n).lfsr = s.lfsr
           /\ Counted(s, n).count = (s.count + n) % CountRange
<1>1. (s.count + n) % CountRange \in 0 .. CountRange - 1
  <2>1. s.count + n \in Int /\ CountRange \in Nat \ {0}
    BY InjectorsAssumption DEF CallState
  <2> QED  BY <2>1, DivMod
<1> QED  BY <1>1 DEF Counted, CallState

\* Passing a word on appends it to what the device got.
LEMMA PassedType ==
    ASSUME NEW s \in CallState, NEW w \in SUBSET Nat
    PROVE  /\ Passed(s, w) \in CallState
           /\ Passed(s, w).overrun = s.overrun
           /\ Passed(s, w).got = Append(s.got, w)
           /\ Passed(s, w).count = s.count
<1>1. Append(s.got, w) \in Seq(SUBSET Nat)
  BY DEF CallState
<1> QED  BY <1>1 DEF Passed, CallState

\* The decision draws from the register and leaves the rest alone.
LEMMA RolledType ==
    ASSUME NEW s \in CallState
    PROVE  /\ Rolled(s) \in CallState
           /\ Rolled(s).overrun = s.overrun
           /\ Rolled(s).got = s.got
           /\ Rolled(s).count = s.count
  BY DrawType DEF Rolled

\* A random target is one of the eight bits of a byte.
LEMMA NextBitType ==
    ASSUME NEW s \in CallState
    PROVE  NextBit(s) \in 0..7
<1>1. s.lfsr \in Int
  BY DEF CallState, Running
<1> QED  BY <1>1, SMT DEF NextBit

\* Aiming draws at most once, and its target is a bit.
LEMMA AimedType ==
    ASSUME ConfigOK, NEW s \in CallState, NEW path
    PROVE  /\ Aimed(s, path) \in CallState
           /\ Aimed(s, path).overrun = s.overrun
           /\ Aimed(s, path).got = s.got
           /\ Aimed(s, path).count = s.count
           /\ Target(Aimed(s, path), path) \in Nat
           /\ Random(path) => /\ Aimed(s, path).lfsr = Step(s.lfsr)
                              /\ Target(Aimed(s, path), path) \in 0 .. NextBit(Aimed(s, path))
<1>1. CASE ~Random(path)
  BY <1>1 DEF Aimed, Target, ConfigOK
<1>2. CASE Random(path)
  <2> DEFINE a == Aimed(s, path)
  <2>1. a = Draw(s)
    BY <1>2 DEF Aimed
  <2>2. /\ a \in CallState /\ a.overrun = s.overrun /\ a.got = s.got /\ a.count = s.count
        /\ a.lfsr = Step(s.lfsr)
    BY <2>1, DrawType
  <2> HIDE DEF a
  <2>3. NextBit(a) \in 0..7
    BY <2>2, NextBitType
  <2>4. Width(path) \in {7, 8, 29}
    BY DEF Width
  <2>5. Target(a, path) = NextBit(a) % Width(path)
    BY <1>2 DEF Target
  <2>6. Target(a, path) \in 0 .. NextBit(a)
    BY <2>3, <2>4, <2>5, SMT
  <2> QED  BY <1>2, <2>2, <2>3, <2>6 DEF a
<1> QED  BY <1>1, <1>2

\* Keeping what was hit last leaves what was passed on and counted alone.
LEMMA LastType ==
    ASSUME NEW s \in CallState, NEW path, NEW index
    PROVE  /\ Last(s, path, index) \in CallState
           /\ Last(s, path, index).overrun = s.overrun
           /\ Last(s, path, index).got = s.got
           /\ Last(s, path, index).count = s.count
  BY DrawType DEF Last

\* A flip damages one bit.
LEMMA FlipType ==
    ASSUME NEW w \in SUBSET Nat, NEW b \in Nat
    PROVE  Flip(w, b) \in SUBSET Nat /\ Contract!Damage(w, Flip(w, b)) = {b}
  BY DEF Flip, Contract!Damage

\* A flip of a random bit whose draw follows one that was below 17 is low.
LEMMA RareTargetIsLow ==
    ASSUME ConfigOK, Rare, NEW s \in CallState, NEW path, Hit(Rolled(s))
    PROVE  Target(Aimed(Rolled(s), path), path) \in LowBits
<1> DEFINE r == Rolled(s)
           a == Aimed(r, path)
<1>1. r \in CallState /\ r.lfsr \in Running
  BY RolledType DEF CallState
<1>2. Random(path)
  <2>1. Width(path) \in {7, 8, 29}
    BY DEF Width
  <2> QED  BY <2>1 DEF Random, Rare, ConfigOK
<1>3. r.lfsr % 1024 < config.probability_permille
  BY DEF Hit, Rare
<1> HIDE DEF r
<1>4. /\ a \in CallState
      /\ a.lfsr = Step(r.lfsr)
      /\ Target(a, path) \in 0 .. NextBit(a)
  BY <1>1, <1>2, AimedType
<1> HIDE DEF a
<1>5. NextBit(a) \in LowBits
  BY <1>1, <1>3, <1>4, StepShifts DEF NextBit, LowBits, Rare
<1>6. (config.probability_permille - 1) \div 2 \in Int
  BY Halves DEF Rare
<1>7. Target(a, path) \in LowBits
  <2>1. NextBit(a) \in 0..7
    BY <1>4, NextBitType
  <2> QED  BY <1>4, <1>5, <1>6, <2>1 DEF LowBits
<1> QED  BY <1>7 DEF r, a

\* Word w leaves as y in a call that leads from s to t: a bit of it differs at
\* most, and if any does it has been counted.
Books(s, t, w, y) ==
    /\ \E b \in Nat : Contract!Damage(w, y) \subseteq {b}
    /\ \E n \in {0, 1} :
          /\ t.count = (s.count + n) % CountRange
          /\ n = 0 => y = w
          /\ n = 1 => armed /\ config.fault_type # "Overrun"

\* A word that passed undamaged and uncounted is on the books.
LEMMA UntouchedBooks ==
    ASSUME NEW s \in CallState, NEW t, t.count = s.count, NEW w
    PROVE  Books(s, t, w, w)
<1>1. Contract!Damage(w, w) \subseteq {0} /\ 0 \in Nat
  BY DEF Contract!Damage
<1>2. (s.count + 0) % CountRange = s.count
  <2>1. s.count \in 0 .. CountRange - 1 /\ s.count + 0 = s.count /\ CountRange \in Nat \ {0}
    BY InjectorsAssumption DEF CallState
  <2> QED  BY <2>1, ModSmall
<1> QED  BY <1>1, <1>2 DEF Books

\* A strike passes one word on, damaged in one bit at most, and counts it.
LEMMA StrikeFacts ==
    ASSUME armed, ConfigOK, NEW s \in CallState, NEW path, NEW index, NEW w \in SUBSET Nat,
           Rare => Target(Aimed(s, path), path) \in LowBits
    PROVE  /\ Strike(s, path, index, w) \in CallState
           /\ Strike(s, path, index, w).overrun = s.overrun
           /\ \E y \in SUBSET Nat :
                 /\ Strike(s, path, index, w).got = Append(s.got, y)
                 /\ Rare => Contract!Damage(w, y) \subseteq LowBits
                 /\ Books(s, Strike(s, path, index, w), w, y)
<1> DEFINE effect == Effect(path, index)
           aimed == Aimed(s, path)
           target == Target(aimed, path)
           last == Last(aimed, path, index)
           result == Result(w, effect, target, NextBit(last))
           n == IF result # w THEN 1 ELSE 0
           c == Counted(last, n)
<1>1. Strike(s, path, index, w) = Passed(c, result)
  BY DEF Strike, Struck
<1>2. /\ aimed \in CallState /\ aimed.overrun = s.overrun /\ aimed.got = s.got
      /\ aimed.count = s.count /\ target \in Nat
  BY AimedType
<1>3. Rare => target \in LowBits
  OBVIOUS
<1> HIDE DEF aimed, target
<1>4. /\ last \in CallState /\ last.overrun = s.overrun /\ last.got = s.got
      /\ last.count = s.count
  BY <1>2, LastType
<1>5. effect \in {"none", "flip", "clear", "set", "top", "random"}
  BY DEF Effect
<1>6. Rare => effect = "flip"
  BY DEF Effect, Rare
<1>7. config.fault_type = "Overrun" => effect = "none"
  BY DEF Effect
<1> HIDE DEF effect, last
<1>8. NextBit(last) \in Nat
  BY <1>4, NextBitType
<1>9. result \in SUBSET Nat
  BY <1>2, <1>5, <1>8, FlipType DEF Result
<1>10. effect = "flip" => result = Flip(w, target)
  BY DEF Result
<1>11. effect = "none" => result = w
  BY DEF Result
<1>12. \E b \in Nat : Contract!Damage(w, result) \subseteq {b}
  <2> DEFINE D == Contract!Damage(w, result)
  <2>1. CASE effect = "flip"
    BY <1>2, <1>10, <2>1, FlipType
  <2>2. CASE effect \in {"none", "clear", "set"}
    BY <1>2, <2>2 DEF Result, Contract!Damage
  <2>3. CASE effect = "top"
    <3>1. result = Flip(w, 7)
      BY <2>3 DEF Result
    <3> QED  BY <3>1, FlipType
  <2>4. CASE effect = "random"
    <3>1. result = Flip(w, NextBit(last))
      BY <2>4 DEF Result
    <3> HIDE DEF result
    <3> QED  BY <1>8, <3>1, FlipType
  <2> QED  BY <1>5, <2>1, <2>2, <2>3, <2>4
<1> HIDE DEF result
<1>13. Rare => Contract!Damage(w, result) \subseteq LowBits
  BY <1>2, <1>3, <1>6, <1>10, FlipType
<1>14. /\ n \in Nat /\ n \in {0, 1} /\ (n = 0 => result = w)
       /\ n = 1 => config.fault_type # "Overrun"
  BY <1>7, <1>11
<1> HIDE DEF n
<1>15. /\ c \in CallState /\ c.overrun = s.overrun /\ c.got = s.got
       /\ c.count = (s.count + n) % CountRange
  BY <1>4, <1>14, CountedType
<1> HIDE DEF c
<1>16. /\ Passed(c, result) \in CallState
       /\ Passed(c, result).overrun = c.overrun
       /\ Passed(c, result).got = Append(c.got, result)
       /\ Passed(c, result).count = c.count
  BY <1>9, <1>15, PassedType
<1>17. Books(s, Passed(c, result), w, result)
  BY <1>14, <1>15, <1>16, <1>12 DEF Books
<1> QED  BY <1>1, <1>9, <1>13, <1>15, <1>16, <1>17

\* Every path lets one word through, and leaves the rest of the call alone.
\* If a flip is rare and its target random, only a low bit may differ.
LEMMA InjectFacts ==
    ASSUME ConfigOK, NEW s \in CallState, NEW path, NEW index, NEW w \in SUBSET Nat
    PROVE  /\ Inject(s, path, index, w) \in CallState
           /\ Inject(s, path, index, w).overrun = s.overrun
           /\ \E y \in SUBSET Nat :
                 /\ Inject(s, path, index, w).got = Append(s.got, y)
                 /\ Rare => Contract!Damage(w, y) \subseteq LowBits
                 /\ Books(s, Inject(s, path, index, w), w, y)
<1> DEFINE rolled == Rolled(s)
<1>1. /\ rolled \in CallState /\ rolled.overrun = s.overrun /\ rolled.got = s.got
      /\ rolled.count = s.count
  BY RolledType
<1>2. Contract!Damage(w, w) = {}
  BY DEF Contract!Damage
<1>3. CASE ~armed
  <2>1. Inject(s, path, index, w) = Passed(s, w)
    BY <1>3 DEF Inject
  <2>2. Passed(s, w).count = s.count
    BY PassedType
  <2>3. Books(s, Passed(s, w), w, w)
    BY <2>2, UntouchedBooks
  <2> QED  BY <1>2, <2>1, <2>3, PassedType
<1>4. CASE armed /\ ~Hit(rolled)
  <2>1. Inject(s, path, index, w) = Passed(rolled, w)
    BY <1>4 DEF Inject
  <2> HIDE DEF rolled
  <2>2. /\ Passed(rolled, w) \in CallState
        /\ Passed(rolled, w).overrun = rolled.overrun
        /\ Passed(rolled, w).got = Append(rolled.got, w)
        /\ Passed(rolled, w).count = s.count
    BY <1>1, PassedType
  <2>3. Books(s, Passed(rolled, w), w, w)
    BY <2>2, UntouchedBooks
  <2> QED  BY <1>1, <1>2, <2>1, <2>2, <2>3
<1>5. CASE armed /\ Hit(rolled)
  <2>1. Inject(s, path, index, w) = Strike(rolled, path, index, w)
    BY <1>5 DEF Inject
  <2>2. Rare => Target(Aimed(rolled, path), path) \in LowBits
    BY <1>5, RareTargetIsLow
  <2> HIDE DEF rolled
  <2>3. /\ Strike(rolled, path, index, w) \in CallState
        /\ Strike(rolled, path, index, w).overrun = rolled.overrun
        /\ \E y \in SUBSET Nat :
              /\ Strike(rolled, path, index, w).got = Append(rolled.got, y)
              /\ Rare => Contract!Damage(w, y) \subseteq LowBits
              /\ Books(rolled, Strike(rolled, path, index, w), w, y)
    BY <1>1, <1>5, <2>2, StrikeFacts, Zenon
  <2>4. ASSUME NEW t, NEW y  PROVE Books(rolled, t, w, y) <=> Books(s, t, w, y)
    BY <1>1 DEF Books
  <2> QED  BY <1>1, <2>1, <2>3, <2>4
<1> QED  BY <1>3, <1>4, <1>5

\* An overrun is set only while armed, and counted once.
LEMMA OverrunFacts ==
    ASSUME NEW s \in CallState
    PROVE  /\ Overrun(s) \in CallState
           /\ Overrun(s).got = s.got
           /\ Overrun(s).overrun => armed \/ s.overrun
           /\ \/ Overrun(s).count = s.count
              \/ armed /\ Overrun(s).count = (s.count + 1) % CountRange
<1> DEFINE rolled == Rolled(s)
           counted == Counted(rolled, 1)
<1>1. /\ rolled \in CallState /\ rolled.overrun = s.overrun /\ rolled.got = s.got
      /\ rolled.count = s.count
  BY RolledType
<1>2. CASE ~armed \/ config.fault_type # "Overrun"
  BY <1>2 DEF Overrun
<1>3. CASE armed /\ config.fault_type = "Overrun" /\ ~Hit(rolled)
  BY <1>1, <1>3 DEF Overrun
<1>4. CASE armed /\ config.fault_type = "Overrun" /\ Hit(rolled)
  <2>1. Overrun(s) = [counted EXCEPT !.overrun = TRUE]
    BY <1>4 DEF Overrun
  <2> HIDE DEF rolled
  <2>2. /\ counted \in CallState /\ counted.got = rolled.got
        /\ counted.count = (rolled.count + 1) % CountRange
    BY <1>1, CountedType
  <2> HIDE DEF counted
  <2>3. /\ [counted EXCEPT !.overrun = TRUE] \in CallState
        /\ [counted EXCEPT !.overrun = TRUE].got = counted.got
        /\ [counted EXCEPT !.overrun = TRUE].count = counted.count
    BY <2>2 DEF CallState
  <2> QED  BY <1>1, <1>4, <2>1, <2>2, <2>3
<1> QED  BY <1>2, <1>3, <1>4

-----------------------------------------------------------------------------
(* The calls.                                                              *)

\* Since the call began the count has grown by the size of M.  Only the words
\* whose numbers are in M are damaged, each in one bit at most.
Tally(s, words, M) ==
    /\ s.count = (count + Cardinality(M)) % CountRange
    /\ \A i \in DOMAIN s.got :
          /\ \E b \in Nat : Contract!Damage(words[i], s.got[i]) \subseteq {b}
          /\ words[i] # s.got[i] => i \in M
    /\ M # {} => armed

\* k of the words have passed since the call began.
Through(s, words, k) ==
    /\ s \in CallState
    /\ Len(s.got) = k
    /\ s.overrun = overrun_active
    /\ \E M \in SUBSET (1..k) :
          Tally(s, words, M) /\ (config.fault_type = "Overrun" => M = {})
    /\ Rare => \A i \in 1..k : Contract!Damage(words[i], s.got[i]) \subseteq LowBits

\* A call may end with s.
Done(s, words) ==
    /\ s \in CallState
    /\ s.overrun => armed
    /\ Rare => \A i \in DOMAIN s.got : Contract!Damage(words[i], s.got[i]) \subseteq LowBits

\* Of a call that ends with s, the contract's count is paid.
Paid(s, words) ==
    /\ DOMAIN s.got = DOMAIN words
    /\ \E M \in SUBSET (1 .. Contract!MostCounted(words)) : Tally(s, words, M)

IInv == TypeOK /\ OverrunOnlyWhileArmed /\ RareFaultsHitLowBits

\* At the start of a call no word has passed.
LEMMA StartFacts ==
    ASSUME TypeOK, NEW words
    PROVE  Through(Start, words, 0) /\ Start.got = <<>>
<1>1. Start \in CallState
  BY DEF Start, CallState, TypeOK
<1>2. Start.count = count /\ Start.got = <<>> /\ Start.overrun = overrun_active
  BY DEF Start
<1>3. Tally(Start, words, {})
  <2>1. count + Cardinality({}) = count /\ count \in 0 .. CountRange - 1
    BY FS_EmptySet DEF TypeOK
  <2>2. count % CountRange = count
    BY <2>1, InjectorsAssumption, ModSmall
  <2> QED  BY <1>2, <2>1, <2>2 DEF Tally
<1>4. Len(Start.got) = 0
  BY <1>2
<1>5. {} \in SUBSET (1..0) /\ \A i \in 1..0 : FALSE
  OBVIOUS
<1> QED  BY <1>1, <1>2, <1>3, <1>4, <1>5 DEF Through

LEMMA CountIsNat == TypeOK => count \in Nat
  BY InjectorsAssumption DEF TypeOK

\* Sets of word numbers.
LEMMA MarksFinite ==
    ASSUME NEW k \in Nat, NEW M \in SUBSET (1..k)
    PROVE  /\ IsFiniteSet(M) /\ Cardinality(M) \in 0..k
           /\ Cardinality(M \union {k + 1}) = Cardinality(M) + 1
<1>1. IsFiniteSet(1..k) /\ Cardinality(1..k) = k
  BY FS_Interval
<1>2. IsFiniteSet(M) /\ Cardinality(M) <= k
  BY <1>1, FS_Subset
<1>3. Cardinality(M) \in Nat
  BY <1>2, FS_CardinalityType
<1>4. k + 1 \notin M
  OBVIOUS
<1> QED  BY <1>2, <1>3, <1>4, FS_AddElement

\* A word that passes through inject is one word more on the way through a call.
LEMMA InjectExtends ==
    ASSUME ConfigOK, count \in Nat,
           NEW words \in Seq(SUBSET Nat), NEW k \in Nat, NEW j \in 1..Len(words),
           j = k + 1, NEW s, Through(s, words, k), NEW path, NEW index
    PROVE  Through(Inject(s, path, index, words[j]), words, j)
<1> DEFINE w == words[j]
           t == Inject(s, path, index, w)
<1>1. w \in SUBSET Nat
  OBVIOUS
<1> HIDE DEF w
<1>2. s \in CallState /\ s.got \in Seq(SUBSET Nat) /\ Len(s.got) = k
  BY DEF Through, CallState
<1>3. PICK y \in SUBSET Nat : /\ t \in CallState /\ t.overrun = s.overrun
                              /\ t.got = Append(s.got, y)
                              /\ Rare => Contract!Damage(w, y) \subseteq LowBits
                              /\ Books(s, t, w, y)
  BY <1>1, <1>2, InjectFacts
<1> HIDE DEF t
<1>4. Len(t.got) = j /\ t.got[j] = y /\ \A i \in 1..k : t.got[i] = s.got[i]
  BY <1>2, <1>3
<1>5. ASSUME Rare, NEW i \in 1..j
      PROVE  Contract!Damage(words[i], t.got[i]) \subseteq LowBits
  <2>1. CASE i = j
    BY <1>3, <1>4, <1>5, <2>1 DEF w
  <2>2. CASE i \in 1..k
    BY <1>4, <1>5, <2>2 DEF Through
  <2> QED  BY <2>1, <2>2
<1>6. \E M \in SUBSET (1..j) : Tally(t, words, M) /\ (config.fault_type = "Overrun" => M = {})
  <2>1. PICK M \in SUBSET (1..k) : Tally(s, words, M) /\ (config.fault_type = "Overrun" => M = {})
    BY DEF Through
  <2>2. PICK n \in {0, 1} : /\ t.count = (s.count + n) % CountRange
                            /\ n = 0 => y = w
                            /\ n = 1 => armed /\ config.fault_type # "Overrun"
    BY <1>3 DEF Books
  <2> DEFINE N == IF n = 1 THEN M \union {j} ELSE M
  <2>3. Cardinality(N) = Cardinality(M) + n /\ Cardinality(M) \in Nat
    <3>1. Cardinality(M) \in 0..k /\ Cardinality(M \union {k + 1}) = Cardinality(M) + 1
      BY MarksFinite
    <3>2. n = 1 => N = M \union {k + 1}
      OBVIOUS
    <3>3. n = 0 => N = M
      OBVIOUS
    <3>4. n = 0 \/ n = 1
      OBVIOUS
    <3> HIDE DEF N
    <3>5. CASE n = 0
      BY <3>1, <3>3, <3>5
    <3>6. CASE n = 1
      <4>1. Cardinality(N) = Cardinality(M \union {k + 1})
        BY <3>2, <3>6, Zenon
      <4> QED  BY <3>1, <3>6, <4>1
    <3> QED  BY <3>4, <3>5, <3>6
  <2>4. t.count = (count + Cardinality(N)) % CountRange
    <3>1. /\ count + Cardinality(M) \in Int /\ n \in Int /\ count \in Int
          /\ CountRange \in Nat \ {0}
      BY <2>3, InjectorsAssumption
    <3> HIDE DEF N
    <3>2. (((count + Cardinality(M)) % CountRange) + n) % CountRange
            = ((count + Cardinality(M)) + n) % CountRange
      BY <3>1, ModAdd
    <3>3. (count + Cardinality(M)) + n = count + Cardinality(N)
      BY <2>3, <3>1
    <3> QED  BY <2>1, <2>2, <3>2, <3>3 DEF Tally
  <2>5. N \in SUBSET (1..j) /\ M \subseteq N /\ (n = 1 => j \in N)
    OBVIOUS
  <2>6. (N # {} => armed) /\ (config.fault_type = "Overrun" => N = {})
    BY <2>1, <2>2 DEF Tally
  <2> HIDE DEF N
  <2>7. ASSUME NEW i \in DOMAIN t.got
        PROVE  /\ \E b \in Nat : Contract!Damage(words[i], t.got[i]) \subseteq {b}
               /\ words[i] # t.got[i] => i \in N
    <3>1. i \in 1..k \/ i = j
      BY <1>3, <1>4 DEF CallState
    <3>2. CASE i \in 1..k
      <4>1. t.got[i] = s.got[i] /\ i \in DOMAIN s.got
        BY <1>2, <1>4, <3>2
      <4> QED  BY <2>1, <2>5, <4>1 DEF Tally
    <3>3. CASE i = j
      <4>1. words[i] = w /\ t.got[i] = y
        BY <1>4, <3>3 DEF w
      <4>2. y # w => n = 1
        BY <2>2
      <4> QED  BY <1>3, <2>5, <3>3, <4>1, <4>2 DEF Books
    <3> QED  BY <3>1, <3>2, <3>3
  <2>8. Tally(t, words, N)
    BY <2>4, <2>6, <2>7 DEF Tally
  <2> QED  BY <2>5, <2>6, <2>8
<1>7. Through(t, words, j)
  BY <1>3, <1>4, <1>5, <1>6 DEF Through
<1> QED  BY <1>7 DEF t, w

\* A call that all words have passed through is done.
LEMMA ThroughIsDone ==
    ASSUME OverrunOnlyWhileArmed, NEW words, NEW s, NEW k \in Nat, Through(s, words, k)
    PROVE  Done(s, words)
<1>1. s.got \in Seq(SUBSET Nat) /\ DOMAIN s.got = 1..k
  BY DEF Through, CallState
<1> QED  BY <1>1 DEF Done, Through, OverrunOnlyWhileArmed

\* What a call that is done returns keeps the invariant.
LEMMA ReturnFacts ==
    ASSUME TypeOK, NEW s, NEW words, Done(s, words),
           NEW result \in {"Ok", "Err", "Fired", "Yes", "No", "Other"},
           Return(s, words, result)
    PROVE  IInv'
<1>1. TypeOK'
  BY DEF Return, Done, CallState, TypeOK
<1>2. OverrunOnlyWhileArmed'
  BY DEF Return, Done, OverrunOnlyWhileArmed
<1>3. RareFaultsHitLowBits'
  BY DEF Return, Done, Rare, LowBits, RareFaultsHitLowBits, Contract!Damage
<1> QED  BY <1>1, <1>2, <1>3 DEF IInv

LEMMA InputsType ==
    ASSUME NEW path
    PROVE  Inputs(path) \subseteq SUBSET Nat
  BY InjectorsAssumption DEF Inputs

\* Nothing is handed over: whatever the words, what did not pass is no damage.
LEMMA QuietDone ==
    ASSUME NEW s \in CallState, s.got = <<>>, s.overrun => armed, NEW words
    PROVE  Done(s, words)
  BY DEF Done

\* What a protocol puts on its bus is a sequence of words.
LEMMA BusType ==
    ASSUME NEW p, NEW words \in BusOf(p)
    PROVE  words \in Seq(SUBSET Nat)
<1>1. CASE p = "Spi"
  <2>1. PICK x \in {{}, {0}}, y \in {{}, {0}} : words = <<x, y>>
    BY <1>1 DEF BusOf
  <2>2. x \in SUBSET Nat /\ y \in SUBSET Nat
    OBVIOUS
  <2> QED  BY <2>1, <2>2
<1>2. CASE p = "Uart"
  <2>1. PICK x \in Inputs("tx") : words = <<x>>
    BY <1>2 DEF BusOf
  <2>2. x \in SUBSET Nat
    BY InputsType
  <2> QED  BY <2>1, <2>2
<1>3. CASE p = "Can"
  <2>1. PICK x \in Inputs("id"), y \in Inputs("can_data") :
           words = <<x, y, y, y, y, y, y, y, y>>
    BY <1>3 DEF BusOf
  <2>2. x \in SUBSET Nat /\ y \in SUBSET Nat
    BY InputsType
  <2> QED  BY <2>1, <2>2
<1>4. CASE p \notin {"Spi", "Uart", "Can"}
  <2>1. words = <<>>
    BY <1>4 DEF BusOf
  <2> QED  BY <2>1
<1> QED  BY <1>1, <1>2, <1>3, <1>4

\* Both words of an SPI transfer pass through inject.
LEMMA SpiThrough ==
    ASSUME IInv, NEW words \in BusOf("Spi")
    PROVE  \E s : /\ Through(s, words, Len(words)) /\ Len(words) = 2
                  /\ FireSpi(words) = [s EXCEPT !.got = words]
<1> DEFINE mosi == Inject(Start, "mosi", 0, words[1])
           miso == Inject(mosi, "miso", 0, words[2])
<1>1. words \in Seq(SUBSET Nat) /\ Len(words) = 2
  <2>1. PICK x \in {{}, {0}}, y \in {{}, {0}} : words = <<x, y>>
    BY DEF BusOf
  <2> QED  BY <2>1, BusType
<1>2. ConfigOK /\ Through(Start, words, 0) /\ count \in Nat
  BY ConfigType, StartFacts, CountIsNat DEF IInv
<1>3. Through(mosi, words, 1)
  <2>1. 0 \in Nat /\ 1 \in 1..Len(words) /\ 1 = 0 + 1
    BY <1>1
  <2> QED  BY <1>1, <1>2, <2>1, InjectExtends, Zenon
<1> HIDE DEF mosi
<1>4. Through(miso, words, 2)
  <2>1. 1 \in Nat /\ 2 \in 1..Len(words) /\ 2 = 1 + 1
    BY <1>1
  <2> QED  BY <1>1, <1>2, <1>3, <2>1, InjectExtends, Zenon
<1>5. FireSpi(words) = [miso EXCEPT !.got = words]
  BY DEF FireSpi, mosi
<1> HIDE DEF miso
<1> QED  BY <1>1, <1>4, <1>5

\* An SPI transfer ends as a call should.
LEMMA SpiDone ==
    ASSUME IInv, NEW words \in BusOf("Spi")
    PROVE  Done(FireSpi(words), words)
<1>1. PICK s : /\ Through(s, words, Len(words)) /\ Len(words) = 2
               /\ FireSpi(words) = [s EXCEPT !.got = words]
  BY SpiThrough
<1>2. words \in Seq(SUBSET Nat)
  BY BusType
<1>3. /\ FireSpi(words) \in CallState
      /\ FireSpi(words).got = words
      /\ FireSpi(words).overrun = overrun_active
  BY <1>1, <1>2 DEF Through, CallState
<1>4. \A i \in DOMAIN words : Contract!Damage(words[i], words[i]) = {}
  BY DEF Contract!Damage
<1> QED  BY <1>3, <1>4 DEF Done, IInv, OverrunOnlyWhileArmed

\* A UART's word passes through inject.
LEMMA UartThrough ==
    ASSUME IInv, NEW words \in BusOf("Uart")
    PROVE  Through(Inject(Start, "tx", 0, words[1]), words, 1) /\ Len(words) = 1
<1>1. words \in Seq(SUBSET Nat) /\ Len(words) = 1
  <2>1. PICK x \in Inputs("tx") : words = <<x>>
    BY DEF BusOf
  <2> QED  BY <2>1, BusType
<1>2. ConfigOK /\ Through(Start, words, 0) /\ count \in Nat
  BY ConfigType, StartFacts, CountIsNat DEF IInv
<1>3. 0 \in Nat /\ 1 \in 1..Len(words) /\ 1 = 0 + 1
  BY <1>1
<1> QED  BY <1>1, <1>2, <1>3, InjectExtends, Zenon

\* So does a UART transmission, with the overrun after it.
LEMMA UartDone ==
    ASSUME IInv, armed, NEW words \in BusOf("Uart")
    PROVE  Done(FireUart(words), words)
<1> DEFINE tx == Inject(Start, "tx", 0, words[1])
<1>1. FireUart(words) \in {tx, Overrun(tx)}
  BY DEF FireUart
<1>2. Done(tx, words)
  BY UartThrough, ThroughIsDone DEF IInv
<1> HIDE DEF tx
<1>3. /\ Overrun(tx) \in CallState
      /\ Overrun(tx).got = tx.got
  BY <1>2, OverrunFacts DEF Done
<1>4. Done(Overrun(tx), words)
  BY <1>2, <1>3 DEF Done
<1> QED  BY <1>1, <1>2, <1>4

\* All nine words of a CAN frame pass through inject.
LEMMA CanThrough ==
    ASSUME IInv, NEW words \in BusOf("Can")
    PROVE  Through(FireCan(words), words, Len(words)) /\ Len(words) = 9
<1> DEFINE Data(s, i) == CanData(s, words, i)
           id == Inject(Start, "id", 0, words[1])
<1>1. words \in Seq(SUBSET Nat) /\ Len(words) = 9
  <2>1. PICK x \in Inputs("id"), y \in Inputs("can_data") :
           words = <<x, y, y, y, y, y, y, y, y>>
    BY DEF BusOf
  <2> QED  BY <2>1, BusType
<1>2. ConfigOK /\ Through(Start, words, 0) /\ count \in Nat
  BY ConfigType, StartFacts, CountIsNat DEF IInv
<1>3. Through(id, words, 1)
  <2>1. 0 \in Nat /\ 1 \in 1..Len(words) /\ 1 = 0 + 1
    BY <1>1
  <2> QED  BY <1>1, <1>2, <2>1, InjectExtends, Zenon
<1>4. ASSUME NEW i \in 0..7, NEW s, Through(s, words, i + 1)
      PROVE  Through(Data(s, i), words, i + 2)
  <2>1. i + 1 \in Nat /\ i + 2 \in 1..Len(words) /\ i + 2 = (i + 1) + 1
    BY <1>1
  <2>2. Through(Inject(s, "can_data", i, words[i + 2]), words, i + 2)
    BY <1>1, <1>2, <1>4, <2>1, InjectExtends
  <2> QED  BY <2>2 DEF CanData
<1>5. FireCan(words) = Data(Data(Data(Data(Data(Data(Data(Data(id, 0), 1), 2), 3), 4), 5), 6), 7)
  BY DEF FireCan
<1> HIDE DEF Data, id
<1>6. Through(Data(id, 0), words, 2)
  BY <1>3, <1>4
<1>7. Through(Data(Data(id, 0), 1), words, 3)
  BY <1>4, <1>6
<1>8. Through(Data(Data(Data(id, 0), 1), 2), words, 4)
  BY <1>4, <1>7
<1>9. Through(Data(Data(Data(Data(id, 0), 1), 2), 3), words, 5)
  BY <1>4, <1>8
<1>10. Through(Data(Data(Data(Data(Data(id, 0), 1), 2), 3), 4), words, 6)
  BY <1>4, <1>9
<1>11. Through(Data(Data(Data(Data(Data(Data(id, 0), 1), 2), 3), 4), 5), words, 7)
  BY <1>4, <1>10
<1>12. Through(Data(Data(Data(Data(Data(Data(Data(id, 0), 1), 2), 3), 4), 5), 6), words, 8)
  BY <1>4, <1>11
<1>13. Through(FireCan(words), words, 9)
  BY <1>4, <1>5, <1>12
<1> QED  BY <1>1, <1>13

\* A CAN frame ends as a call should.
LEMMA CanDone ==
    ASSUME IInv, NEW words \in BusOf("Can")
    PROVE  Done(FireCan(words), words)
<1>1. 9 \in Nat
  OBVIOUS
<1> QED  BY <1>1, CanThrough, ThroughIsDone DEF IInv

\* A call keeps the invariant, whatever the protocol.
LEMMA FireKeeps ==
    ASSUME IInv, NEW words \in BusOf(protocol), Fire(words)
    PROVE  IInv'
<1> DEFINE quiet == [Start EXCEPT !.got = words]
<1>1. TypeOK /\ OverrunOnlyWhileArmed /\ Start \in CallState /\ Start.got = <<>>
      /\ Start.overrun = overrun_active
  BY StartFacts DEF IInv, Through
<1>2. Done(Start, words)
  BY <1>1, QuietDone DEF OverrunOnlyWhileArmed
<1>3. CASE ~armed /\ Return(quiet, words, "Err")
  <2>1. words \in Seq(SUBSET Nat)
    BY BusType
  <2>2. quiet \in CallState /\ quiet.got = words /\ quiet.overrun = overrun_active
    BY <1>1, <2>1 DEF CallState
  <2>3. \A i \in DOMAIN words : Contract!Damage(words[i], words[i]) = {}
    BY DEF Contract!Damage
  <2>4. Done(quiet, words)
    BY <1>1, <2>2, <2>3 DEF Done, OverrunOnlyWhileArmed
  <2> HIDE DEF quiet
  <2> QED  BY <1>1, <1>3, <2>4, ReturnFacts
<1>4. CASE protocol = "Spi" /\ Return(FireSpi(words), words, "Fired")
  BY <1>1, <1>4, SpiDone, ReturnFacts
<1>5. CASE protocol = "I2c" /\ Return(FireI2c, words, "Fired")
  <2>1. 1 \in Nat
    OBVIOUS
  <2>2. /\ Counted(Start, 1) \in CallState
        /\ Counted(Start, 1).got = <<>>
        /\ Counted(Start, 1).overrun = overrun_active
    BY <1>1, <2>1, CountedType
  <2>3. Done(Counted(Start, 1), words)
    BY <1>1, <2>2, QuietDone DEF OverrunOnlyWhileArmed
  <2>4. FireI2c \in {Start, Counted(Start, 1)}
    BY DEF FireI2c
  <2> QED  BY <1>1, <1>2, <1>5, <2>3, <2>4, ReturnFacts
<1>6. CASE armed /\ protocol = "Uart" /\ Return(FireUart(words), words, "Fired")
  BY <1>1, <1>6, UartDone, ReturnFacts
<1>7. CASE protocol = "Can" /\ Return(FireCan(words), words, "Fired")
  BY <1>1, <1>7, CanDone, ReturnFacts
<1>8. CASE protocol = "OneWire" /\ Return(Start, words, "Fired")
  BY <1>1, <1>2, <1>8, ReturnFacts
<1> QED  BY <1>3, <1>4, <1>5, <1>6, <1>7, <1>8 DEF Fire

-----------------------------------------------------------------------------
(* The theorems.                                                           *)

LEMMA InitHolds ==
    ASSUME Init
    PROVE  IInv
<1>1. Seed(protocol) \in {48879, 51966, 57005, 4660, 22136}
  BY DEF Init, Seed, Protocols
<1>2. lfsr \in Running
  <2>1. lfsr \in Int /\ lfsr >= 1 /\ lfsr <= MaxU16
    BY <1>1, SMT DEF Init, MaxU16
  <2>2. MaxU16 \in Int
    BY SMT DEF MaxU16
  <2> QED  BY <2>1, <2>2 DEF Running
<1>3. 0 \in 0 .. CountRange - 1
  BY InjectorsAssumption
<1>4. TypeOK
  BY <1>2, <1>3 DEF Init, TypeOK
<1> QED  BY <1>4 DEF IInv, Init, OverrunOnlyWhileArmed, RareFaultsHitLowBits

LEMMA NextKeeps ==
    ASSUME IInv, [Next]_vars
    PROVE  IInv'
<1>1. TypeOK /\ OverrunOnlyWhileArmed /\ RareFaultsHitLowBits /\ ConfigOK
  BY ConfigType DEF IInv
<1>2. Start \in CallState /\ Start.got = <<>> /\ Start.overrun = overrun_active
      /\ Through(Start, <<>>, 0)
  BY <1>1, StartFacts DEF Through
<1>3. ASSUME NEW c \in Configs, Configure(c)
      PROVE  IInv'
  BY <1>1, <1>3 DEF Configure, IInv, TypeOK, OverrunOnlyWhileArmed, RareFaultsHitLowBits
<1>4. CASE Arm
  <2>1. 0 \in 0 .. CountRange - 1
    BY InjectorsAssumption
  <2> QED
    BY <1>1, <1>4, <2>1 DEF Arm, IInv, TypeOK, OverrunOnlyWhileArmed, RareFaultsHitLowBits
<1>5. CASE Disarm
  <2>1. TypeOK'
    BY <1>1, <1>5 DEF Disarm, TypeOK
  <2>2. OverrunOnlyWhileArmed'
    BY <1>5 DEF Disarm, OverrunOnlyWhileArmed
  <2>3. RareFaultsHitLowBits'
    BY <1>5 DEF Disarm, RareFaultsHitLowBits
  <2> QED  BY <2>1, <2>2, <2>3 DEF IInv
<1>6. CASE ResetStats
  <2> DEFINE s == [Start EXCEPT !.count = 0]
  <2>1. s \in CallState /\ s.got = <<>> /\ s.overrun = overrun_active
    BY <1>2, InjectorsAssumption DEF CallState
  <2> HIDE DEF s
  <2>2. Done(s, <<>>)
    BY <1>1, <2>1, QuietDone DEF OverrunOnlyWhileArmed
  <2>3. Return(s, <<>>, "Ok")
    BY <1>6 DEF ResetStats, s
  <2> QED  BY <1>1, <2>2, <2>3, ReturnFacts
<1>7. CASE ClearOverrun
  <2> DEFINE s == [Start EXCEPT !.overrun = FALSE]
  <2>1. s \in CallState /\ s.got = <<>> /\ s.overrun = FALSE
    BY <1>2 DEF CallState
  <2> HIDE DEF s
  <2>2. Done(s, <<>>)
    BY <2>1, QuietDone
  <2>3. Return(s, <<>>, "Ok")
    BY <1>7 DEF ClearOverrun, s
  <2> QED  BY <1>1, <2>2, <2>3, ReturnFacts
<1>8. CASE InjectOverrun
  <2>1. /\ Overrun(Start) \in CallState /\ Overrun(Start).got = <<>>
        /\ Overrun(Start).overrun => armed
    BY <1>1, <1>2, OverrunFacts DEF OverrunOnlyWhileArmed
  <2>2. Done(Overrun(Start), <<>>)
    BY <2>1, QuietDone
  <2>3. Return(Overrun(Start), <<>>, "Ok")
    BY <1>8 DEF InjectOverrun
  <2> QED  BY <1>1, <2>2, <2>3, ReturnFacts
<1>9. ASSUME NEW path \in Paths(protocol), NEW index \in Indices(path),
             NEW word \in Inputs(path), InjectWord(path, index, word)
      PROVE  IInv'
  <2> DEFINE words == <<word>>
             s == Inject(Start, path, index, words[1])
  <2>1. words \in Seq(SUBSET Nat) /\ Len(words) = 1
    BY InputsType
  <2>2. words[1] = word
    OBVIOUS
  <2>3. Return(s, words, "Ok")
    BY <1>9, <2>2 DEF InjectWord
  <2> HIDE DEF words
  <2>4. Through(Start, words, 0) /\ count \in Nat
    BY <1>1, StartFacts, CountIsNat
  <2>5. 0 \in Nat /\ 1 \in Nat /\ 1 \in 1..Len(words) /\ 1 = 0 + 1
    BY <2>1
  <2>6. Through(s, words, 1)
    BY <1>1, <2>1, <2>4, <2>5, InjectExtends, Zenon
  <2> HIDE DEF s
  <2>7. Done(s, words)
    BY <1>1, <2>5, <2>6, ThroughIsDone
  <2> QED  BY <1>1, <2>3, <2>7, ReturnFacts
<1>10. ASSUME NEW words \in BusOf(protocol), Fire(words)
       PROVE  IInv'
  BY <1>10, FireKeeps
<1>11. ASSUME NEW fault \in Probes(protocol), Probe(fault)
       PROVE  IInv'
  <2>1. Done(Start, <<>>)
    BY <1>1, <1>2, QuietDone DEF OverrunOnlyWhileArmed
  <2>2. PICK result \in {"Yes", "No", "Other"} : Return(Start, <<>>, result)
    BY <1>11 DEF Probe
  <2> QED  BY <1>1, <2>1, <2>2, ReturnFacts
<1>12. CASE UNCHANGED vars
  BY <1>1, <1>12 DEF vars, IInv, TypeOK, OverrunOnlyWhileArmed, RareFaultsHitLowBits,
                     Contract!Damage
<1> QED  BY <1>3, <1>4, <1>5, <1>6, <1>7, <1>8, <1>9, <1>10, <1>11, <1>12 DEF Next

\* For every set of configurations and words: the types hold; the decision's
\* shift register never runs empty; no overrun outlasts its arming, and a
\* rare fault's random bit is a low one.
THEOREM Invariant == Spec => []IInv
  BY InitHolds, NextKeeps, PTL DEF Spec

\* No injector's shift register ever runs empty, whatever is called in
\* whatever order (fault/mod.rs, Lfsr::next).
THEOREM TypeCorrect == Spec => []TypeOK
<1>1. IInv => TypeOK
  BY DEF IInv
<1> QED  BY Invariant, <1>1, PTL

\* The UART's receiver is in overrun only while the injector is armed.
THEOREM OverrunsEnd == Spec => []OverrunOnlyWhileArmed
<1>1. IInv => OverrunOnlyWhileArmed
  BY DEF IInv
<1> QED  BY Invariant, <1>1, PTL

\* Each of the register's states that is below p in its low ten bits, for
\* every p up to 16, is followed by one whose low three are at most half of
\* p - 1: a rare random bit flip hits low bits only, on every path.
THEOREM RareFaultsAreLow == Spec => []RareFaultsHitLowBits
<1>1. IInv => RareFaultsHitLowBits
  BY DEF IInv
<1> QED  BY Invariant, <1>1, PTL

-----------------------------------------------------------------------------
(* The predicates.                                                         *)

\* The first draw of a fresh register is a multiple of 1024.
LEMMA FreshDraw == Step(New(0)) % 1024 = 0
<1>1. New(0) = 1
  BY DEF New
<1>2. Step(1) = 32768
  BY SMT DEF Step
<1>3. 32768 % 1024 = 0
  BY SMT
<1> QED  BY <1>1, <1>2, <1>3

\* So no probability but none is too small for it.
LEMMA FreshHit ==
    ASSUME NEW s \in CallState, ConfigOK, config.probability_permille # 0
    PROVE  Hit(FreshlyRolled(s))
<1> DEFINE p == config.probability_permille
           f == [s EXCEPT !.lfsr = New(0)]
<1>1. p \in Nat /\ p # 0
  BY DEF ConfigOK
<1>2. CASE p \in 1..999
  <2>1. Rolled(f) = Draw(f)
    BY <1>2 DEF Rolled
  <2>2. Draw(f).lfsr = Step(New(0))
    BY DEF Draw, CallState
  <2>3. FreshlyRolled(s) = Draw(f)
    BY <2>1 DEF FreshlyRolled
  <2>4. FreshlyRolled(s).lfsr % 1024 = 0
    <3> HIDE DEF f
    <3> QED  BY <2>2, <2>3, FreshDraw
  <2> QED  BY <1>1, <2>4 DEF Hit
<1>3. CASE p >= 1000
  BY <1>3 DEF Hit
<1> QED  BY <1>1, <1>2, <1>3

\* should_nack and its like say yes for every probability but none (and
\* should_lock_bus even then): their draw is always the same one.
THEOREM ProbesAlwaysStrike == Spec => []ProbesIgnoreRarity
<1>1. Init => ProbesIgnoreRarity
  BY DEF Init, ProbesIgnoreRarity
<1>2. ASSUME IInv, ProbesIgnoreRarity, [Next]_vars
      PROVE  ProbesIgnoreRarity'
  <2>1. CASE outcome' # "No"
    BY <2>1 DEF ProbesIgnoreRarity
  <2>2. CASE UNCHANGED vars
    BY <1>2, <2>2 DEF vars, ProbesIgnoreRarity
  <2>3. ASSUME NEW fault \in Probes(protocol), Probe(fault)
        PROVE  ProbesIgnoreRarity'
    <3>1. UNCHANGED <<config, armed>>
      BY <2>3 DEF Probe, Return
    <3>2. CASE config.fault_type = fault /\ ~Strikes(fault)
      <4>1. ConfigOK /\ Start \in CallState
        BY <1>2, ConfigType, StartFacts DEF IInv, Through
      <4>2. armed => config.probability_permille = 0
        BY <3>2, <4>1, FreshHit DEF Strikes
      <4> QED  BY <3>1, <4>2 DEF ProbesIgnoreRarity
    <3>3. CASE config.fault_type # fault \/ Strikes(fault)
      <4>1. outcome' \in {"Other", "Yes"}
        BY <2>3, <3>3 DEF Probe, Return
      <4> QED  BY <4>1 DEF ProbesIgnoreRarity
    <3> QED  BY <3>2, <3>3
  <2>4. ASSUME NEW s, NEW words, NEW result \in {"Ok", "Err", "Fired"},
               Return(s, words, result)
        PROVE  outcome' # "No"
    BY <2>4 DEF Return
  <2> QED
    BY <1>2, <2>1, <2>2, <2>3, <2>4
    DEF Next, Configure, Arm, Disarm, ResetStats, ClearOverrun, InjectOverrun,
        InjectWord, Fire
<1> QED  BY Invariant, <1>1, <1>2, PTL DEF Spec

-----------------------------------------------------------------------------
(* The contract of the trait.                                              *)

\* The most that a call may count: each of its words, or one without any.
LEMMA MostCountedType ==
    ASSUME NEW words \in Seq(SUBSET Nat)
    PROVE  /\ Contract!MostCounted(words) \in Nat
           /\ words = <<>> => Contract!MostCounted(words) = 1
           /\ words # <<>> => Contract!MostCounted(words) = Len(words)
  BY DEF Contract!MostCounted

\* A call all of whose words have passed has paid for them.
LEMMA ThroughIsPaid ==
    ASSUME NEW words \in Seq(SUBSET Nat), Len(words) >= 1,
           NEW s, Through(s, words, Len(words))
    PROVE  Paid(s, words)
<1>1. Contract!MostCounted(words) = Len(words)
  BY MostCountedType
<1>2. s.got \in Seq(SUBSET Nat) /\ Len(s.got) = Len(words)
  BY DEF Through, CallState
<1>3. DOMAIN s.got = DOMAIN words
  BY <1>2
<1>4. PICK M \in SUBSET (1..Len(words)) : Tally(s, words, M)
  BY DEF Through
<1> QED  BY <1>1, <1>3, <1>4 DEF Paid

\* So has one that gives back what it was given, and counts no more than its
\* words; for a call without words, one.
LEMMA ReturnedIsPaid ==
    ASSUME NEW words \in Seq(SUBSET Nat), NEW s, s.got = words,
           NEW M \in SUBSET (1 .. Contract!MostCounted(words)),
           s.count = (count + Cardinality(M)) % CountRange,
           M # {} => armed
    PROVE  Paid(s, words)
<1>1. \A i \in DOMAIN words : Contract!Damage(words[i], words[i]) \subseteq {0}
  BY DEF Contract!Damage
<1>2. Tally(s, words, M)
  BY <1>1 DEF Tally
<1> QED  BY <1>2 DEF Paid

\* A call that damages and counts nothing has paid for all damage.
LEMMA UncountedIsPaid ==
    ASSUME TypeOK, NEW words \in Seq(SUBSET Nat), NEW s, s.got = words, s.count = count
    PROVE  Paid(s, words)
<1>1. Tally(Start, words, {})
  <2>1. Cardinality({}) = 0 /\ count + 0 = count
    BY FS_EmptySet, CountIsNat
  <2>2. count % CountRange = count
    BY InjectorsAssumption, ModSmall DEF TypeOK
  <2> QED  BY <2>1, <2>2 DEF Tally, Start
<1>2. s.count = (count + Cardinality({})) % CountRange
  BY <1>1 DEF Tally, Start
<1>3. {} \in SUBSET (1 .. Contract!MostCounted(words))
  OBVIOUS
<1> QED  BY <1>2, <1>3, ReturnedIsPaid

\* A fault of the line itself counts as one word.
LEMMA LineFaultIsPaid ==
    ASSUME armed, NEW s, s.got = <<>>, s.count = (count + 1) % CountRange
    PROVE  Paid(s, <<>>)
<1>1. <<>> \in Seq(SUBSET Nat) /\ 1 \in Nat
  OBVIOUS
<1>2. {1} \in SUBSET (1 .. Contract!MostCounted(<<>>))
  <2>1. Contract!MostCounted(<<>>) = 1
    BY <1>1, MostCountedType, Zenon
  <2> QED  BY <2>1
<1>3. Cardinality({1}) = 1
  BY FS_Singleton
<1> QED  BY <1>1, <1>2, <1>3, ReturnedIsPaid, Zenon

\* What the contract asks of a call with words is that it has paid.
LEMMA PaidPasses ==
    ASSUME count \in Nat, NEW words \in Seq(SUBSET Nat), words \in AnyWords,
           NEW s, Paid(s, words),
           NEW result \in {"Ok", IF armed THEN "Fired" ELSE "Err"},
           Return(s, words, result)
    PROVE  Contract!Pass
<1>1. given' = words /\ got' = s.got /\ count' = s.count /\ outcome' = result /\ armed' = armed
  BY DEF Return
<1>2. PICK M \in SUBSET (1 .. Contract!MostCounted(words)) : Tally(s, words, M)
  BY DEF Paid
<1>3. DOMAIN s.got = DOMAIN words
  BY DEF Paid
<1> DEFINE most == Contract!MostCounted(words)
           hit == Contract!Damaged(words, s.got)
<1>4. IsFiniteSet(M) /\ Cardinality(M) \in 0..most
  BY MostCountedType, MarksFinite
<1>5. Cardinality(hit) \in Nat /\ Cardinality(hit) <= Cardinality(M)
  <2>1. hit \subseteq M
    BY <1>2, <1>3 DEF Tally, Contract!Damaged
  <2> HIDE DEF hit
  <2>2. hit \in SUBSET M
    BY <2>1
  <2> QED  BY <1>4, <2>2, FS_Subset, FS_CardinalityType
<1>6. ASSUME NEW i \in DOMAIN words
      PROVE  Cardinality(Contract!Damage(words[i], s.got[i])) <= 1
  <2> DEFINE D == Contract!Damage(words[i], s.got[i])
  <2>1. PICK b \in Nat : D \subseteq {b}
    BY <1>2, <1>3 DEF Tally
  <2> HIDE DEF D
  <2>2. D = {} \/ D = {b}
    BY <2>1
  <2>3. Cardinality({}) = 0 /\ Cardinality({b}) = 1
    BY FS_EmptySet, FS_Singleton
  <2>4. Cardinality(D) = 0 \/ Cardinality(D) = 1
    BY <2>2, <2>3, Zenon
  <2>5. Cardinality(D) <= 1
    BY <2>4
  <2> QED  BY <2>5 DEF D
<1>7. s.count = (count + Cardinality(M)) % CountRange /\ (~armed => M = {})
  BY <1>2 DEF Tally
<1>8. M = {} => Cardinality(M) = 0
  BY FS_EmptySet
<1> HIDE DEF hit, most
<1>9. Cardinality(M) \in Cardinality(hit) .. most
  <2>1. most \in Nat
    BY MostCountedType DEF most
  <2> QED  BY <1>4, <1>5, <2>1
<1>10. \E k \in Cardinality(hit) .. most :
          s.count = (count + k) % CountRange /\ (~armed => k = 0)
  BY <1>7, <1>8, <1>9
<1>11. \A S : Contract!Cardinality(S) = Cardinality(S)
  BY DEF Contract!Cardinality, Cardinality
<1> QED  BY <1>1, <1>3, <1>6, <1>10, <1>11 DEF Contract!Pass, hit, most

\* A word on its own, and every bus, is one that the contract knows.
LEMMA BusIsAny ==
    ASSUME TypeOK
    PROVE  /\ BusOf(protocol) \subseteq AnyWords
           /\ \A path \in Paths(protocol) : \A w \in Inputs(path) : <<w>> \in AnyWords
           /\ <<>> \in AnyWords
<1> DEFINE Alone(p) == {<<w>> : w \in UNION {Inputs(q) : q \in Paths(p)}}
<1>1. BusOf(protocol) \union Alone(protocol) \subseteq AnyWords /\ <<>> \in AnyWords
  <2> DEFINE Both(p) == BusOf(p) \union Alone(p)
  <2>1. AnyWords = UNION {Both(p) : p \in Protocols}
    BY DEF AnyWords
  <2>2. protocol \in Protocols /\ "I2c" \in Protocols
    BY DEF TypeOK, Protocols
  <2>3. <<>> \in Both("I2c")
    BY DEF BusOf
  <2> HIDE DEF Both
  <2>4. Both(protocol) \subseteq AnyWords /\ Both("I2c") \subseteq AnyWords
    BY <2>1, <2>2, Zenon
  <2> QED  BY <2>3, <2>4 DEF Both
<1>2. ASSUME NEW path \in Paths(protocol), NEW w \in Inputs(path)
      PROVE  <<w>> \in Alone(protocol)
  OBVIOUS
<1> HIDE DEF Alone
<1> QED  BY <1>1, <1>2

\* An SPI transfer has counted what it damaged.
LEMMA SpiPaid ==
    ASSUME IInv, NEW words \in BusOf("Spi")
    PROVE  Paid(FireSpi(words), words)
<1>1. PICK s : /\ Through(s, words, Len(words)) /\ Len(words) = 2
               /\ FireSpi(words) = [s EXCEPT !.got = words]
  BY SpiThrough
<1>2. words \in Seq(SUBSET Nat) /\ Len(words) >= 1
  BY <1>1, BusType
<1>3. FireSpi(words).got = words /\ FireSpi(words).count = s.count
  BY <1>1, <1>2 DEF Through, CallState
<1>4. PICK M \in SUBSET (1 .. Contract!MostCounted(words)) : Tally(s, words, M)
  <2>1. Paid(s, words)
    BY <1>1, <1>2, ThroughIsPaid, Zenon
  <2> QED  BY <2>1 DEF Paid
<1>5. s.count = (count + Cardinality(M)) % CountRange /\ (M # {} => armed)
  BY <1>4 DEF Tally
<1> QED  BY <1>2, <1>3, <1>5, ReturnedIsPaid

\* An injector whose fault is the overrun leaves the word as it is.
LEMMA UartPaid ==
    ASSUME IInv, NEW words \in BusOf("Uart")
    PROVE  Paid(FireUart(words), words)
<1> DEFINE tx == Inject(Start, "tx", 0, words[1])
<1>1. /\ words \in Seq(SUBSET Nat) /\ Len(words) = 1 /\ Len(words) >= 1
      /\ Through(tx, words, Len(words))
  <2>1. Len(words) = 1 /\ Through(tx, words, 1)
    BY UartThrough, Zenon
  <2> HIDE DEF tx
  <2>2. words \in Seq(SUBSET Nat)
    BY BusType
  <2> QED  BY <2>1, <2>2
<1>2. FireUart(words) = IF config.fault_type = "Overrun" THEN Overrun(tx) ELSE tx
  BY DEF FireUart
<1> HIDE DEF tx
<1>3. Paid(tx, words)
  BY <1>1, ThroughIsPaid, Zenon
<1>4. CASE config.fault_type = "Overrun"
  <2>1. Tally(tx, words, {})
    BY <1>1, <1>4 DEF Through
  <2>2. tx \in CallState /\ tx.got \in Seq(SUBSET Nat) /\ Len(tx.got) = 1
    BY <1>1 DEF Through, CallState
  <2>3. tx.got = words
    BY <1>1, <2>1, <2>2 DEF Tally
  <2>4. tx.count = count
    <3>1. count + Cardinality({}) = count /\ count % CountRange = count
      BY FS_EmptySet, CountIsNat, InjectorsAssumption, ModSmall DEF IInv, TypeOK
    <3> QED  BY <2>1, <3>1 DEF Tally
  <2>5. /\ Overrun(tx).got = words
        /\ \/ Overrun(tx).count = count
           \/ armed /\ Overrun(tx).count = (count + 1) % CountRange
    BY <2>2, <2>3, <2>4, OverrunFacts
  <2>6. ASSUME Overrun(tx).count = count
        PROVE  Paid(Overrun(tx), words)
    BY <1>1, <2>5, <2>6, UncountedIsPaid, Zenon DEF IInv
  <2>7. ASSUME armed, Overrun(tx).count = (count + 1) % CountRange
        PROVE  Paid(Overrun(tx), words)
    <3>1. {1} \in SUBSET (1 .. Contract!MostCounted(words))
      <4>1. Contract!MostCounted(words) = 1
        BY <1>1, MostCountedType
      <4> QED  BY <4>1
    <3>2. Cardinality({1}) = 1
      BY FS_Singleton
    <3>3. Overrun(tx).count = (count + Cardinality({1})) % CountRange
      BY <2>7, <3>2, Zenon
    <3> QED  BY <1>1, <2>5, <2>7, <3>1, <3>3, ReturnedIsPaid, Zenon
  <2> QED  BY <1>2, <1>4, <2>5, <2>6, <2>7
<1> QED  BY <1>2, <1>3, <1>4

\* A CAN frame has counted what it damaged.
LEMMA CanPaid ==
    ASSUME IInv, NEW words \in BusOf("Can")
    PROVE  Paid(FireCan(words), words)
<1>1. /\ words \in Seq(SUBSET Nat) /\ Len(words) >= 1
      /\ Through(FireCan(words), words, Len(words))
  <2>1. Len(words) = 9 /\ Through(FireCan(words), words, Len(words))
    BY CanThrough, Zenon
  <2> QED  BY <2>1, BusType
<1> QED  BY <1>1, ThroughIsPaid, Zenon

\* A call is a step of the contract: Pass.
LEMMA FirePasses ==
    ASSUME IInv, NEW words \in BusOf(protocol), Fire(words)
    PROVE  Contract!Pass
<1>1. TypeOK /\ count \in Nat /\ words \in Seq(SUBSET Nat) /\ words \in AnyWords
  BY CountIsNat, BusType, BusIsAny DEF IInv
<1>2. Start.got = <<>> /\ Start.count = count
  BY DEF Start
<1>3. ASSUME NEW s, Paid(s, words), armed, Return(s, words, "Fired")
      PROVE  Contract!Pass
  BY <1>1, <1>3, PaidPasses
<1>4. protocol \in {"I2c", "OneWire"} => words = <<>>
  BY DEF BusOf
<1>5. protocol \in {"I2c", "OneWire"} => Paid(Start, words)
  BY <1>1, <1>2, <1>4, UncountedIsPaid
<1>6. CASE ~armed /\ Return([Start EXCEPT !.got = words], words, "Err")
  <2> DEFINE s == [Start EXCEPT !.got = words]
  <2>1. s.got = words /\ s.count = count
    BY DEF Start
  <2> HIDE DEF s
  <2>2. Paid(s, words)
    BY <1>1, <2>1, UncountedIsPaid
  <2> QED  BY <1>1, <1>6, <2>2, PaidPasses DEF s
<1>7. CASE armed /\ protocol = "Spi" /\ Return(FireSpi(words), words, "Fired")
  BY <1>3, <1>7, SpiPaid
<1>8. CASE armed /\ protocol = "I2c" /\ Return(FireI2c, words, "Fired")
  <2>1. FireI2c \in {Start, Counted(Start, 1)}
    BY DEF FireI2c
  <2>2. Start \in CallState
    BY <1>1, StartFacts DEF Through
  <2>3. Counted(Start, 1).got = <<>> /\ Counted(Start, 1).count = (count + 1) % CountRange
    BY <1>2, <2>2, CountedType
  <2>4. Paid(Counted(Start, 1), <<>>)
    BY <1>8, <2>3, LineFaultIsPaid
  <2> QED  BY <1>3, <1>4, <1>5, <1>8, <2>1, <2>4
<1>9. CASE armed /\ protocol = "Uart" /\ Return(FireUart(words), words, "Fired")
  BY <1>3, <1>9, UartPaid
<1>10. CASE armed /\ protocol = "Can" /\ Return(FireCan(words), words, "Fired")
  BY <1>3, <1>10, CanPaid
<1>11. CASE armed /\ protocol = "OneWire" /\ Return(Start, words, "Fired")
  BY <1>3, <1>5, <1>11
<1> QED  BY <1>6, <1>7, <1>8, <1>9, <1>10, <1>11 DEF Fire

\* Injectors and contract start alike.
LEMMA InitMeetsContract ==
    ASSUME Init
    PROVE  Contract!Init
  BY DEF Init, Contract!Init

\* Every call is one of the contract's three.
LEMMA NextMeetsContract ==
    ASSUME IInv, [Next]_vars
    PROVE  [Contract!Next]_Contract!vars
<1>1. TypeOK /\ count \in Nat
  BY CountIsNat DEF IInv
<1>2. Start.got = <<>> /\ Start.count = count /\ Start \in CallState
  BY <1>1, StartFacts DEF Start, Through
<1>3. <<>> \in Seq(SUBSET Nat) /\ <<>> \in AnyWords
  BY <1>1, BusIsAny
<1>4. ASSUME NEW c \in Configs, Configure(c)
      PROVE  Contract!Next
  BY <1>4 DEF Configure, Contract!Control, Contract!Next
<1>5. ASSUME Arm
      PROVE  Contract!Next
  BY <1>5 DEF Arm, Contract!Control, Contract!Next
<1>6. ASSUME Disarm
      PROVE  Contract!Next
  BY <1>6 DEF Disarm, Contract!Control, Contract!Next
<1>7. ASSUME ResetStats
      PROVE  Contract!Next
  <2>1. [Start EXCEPT !.count = 0].count = 0 /\ [Start EXCEPT !.count = 0].got = <<>>
    BY DEF Start
  <2> QED  BY <1>7, <2>1 DEF ResetStats, Return, Contract!Control, Contract!Next
<1>8. ASSUME ClearOverrun
      PROVE  Contract!Next
  <2>1. /\ [Start EXCEPT !.overrun = FALSE].count = count
        /\ [Start EXCEPT !.overrun = FALSE].got = <<>>
    BY DEF Start
  <2> QED  BY <1>8, <2>1 DEF ClearOverrun, Return, Contract!Control, Contract!Next
<1>9. ASSUME InjectOverrun
      PROVE  Contract!Next
  <2>1. /\ Overrun(Start).got = <<>>
        /\ \/ Overrun(Start).count = count
           \/ armed /\ Overrun(Start).count = (count + 1) % CountRange
    BY <1>2, OverrunFacts
  <2>2. Paid(Overrun(Start), <<>>)
    BY <1>1, <1>3, <2>1, UncountedIsPaid, LineFaultIsPaid
  <2>3. Return(Overrun(Start), <<>>, "Ok")
    BY <1>9 DEF InjectOverrun
  <2> QED  BY <1>1, <1>3, <2>2, <2>3, PaidPasses DEF Contract!Next
<1>10. ASSUME NEW path \in Paths(protocol), NEW index \in Indices(path),
              NEW word \in Inputs(path), InjectWord(path, index, word)
       PROVE  Contract!Next
  <2> DEFINE words == <<word>>
             s == Inject(Start, path, index, words[1])
  <2>1. words \in Seq(SUBSET Nat) /\ Len(words) = 1 /\ words \in AnyWords
    BY <1>1, InputsType, BusIsAny
  <2>2. words[1] = word
    OBVIOUS
  <2>3. Return(s, words, "Ok")
    BY <1>10, <2>2 DEF InjectWord
  <2> HIDE DEF words
  <2>4. Through(Start, words, 0) /\ ConfigOK
    BY <1>1, StartFacts, ConfigType
  <2>5. 0 \in Nat /\ 1 \in 1..Len(words) /\ 1 = 0 + 1
    BY <2>1
  <2>6. Through(s, words, 1)
    BY <1>1, <2>1, <2>4, <2>5, InjectExtends, Zenon
  <2> HIDE DEF s
  <2>7. Paid(s, words)
    <3>1. Len(words) >= 1 /\ Through(s, words, Len(words))
      BY <2>1, <2>6
    <3> QED  BY <2>1, <3>1, ThroughIsPaid, Zenon
  <2> QED  BY <1>1, <2>1, <2>3, <2>7, PaidPasses DEF Contract!Next
<1>11. ASSUME NEW words \in BusOf(protocol), Fire(words)
       PROVE  Contract!Next
  BY <1>11, FirePasses DEF Contract!Next
<1>12. ASSUME NEW fault \in Probes(protocol), Probe(fault)
       PROVE  Contract!Next
  <2>1. PICK result \in {"Yes", "No", "Other"} :
           Return(Start, <<>>, result) /\ (result = "Yes" => Strikes(fault))
    BY <1>12 DEF Probe
  <2>2. result = "Yes" => armed
    BY <2>1 DEF Strikes
  <2> QED  BY <1>2, <2>1, <2>2 DEF Return, Contract!Ask, Contract!Next
<1>13. CASE UNCHANGED vars
  BY <1>13 DEF vars, Contract!vars
<1> QED
  BY <1>4, <1>5, <1>6, <1>7, <1>8, <1>9, <1>10, <1>11, <1>12, <1>13 DEF Next

\* All five injectors keep what the trait FaultInjector promises, for every
\* configuration, every word and every order of calls: unless armed they
\* change and count nothing, no word loses more than a bit, and every word
\* that was damaged has been counted (shared/src/lib.rs).
THEOREM InjectorsKeepContract == Spec => ImplementsContract
  BY Invariant, InitMeetsContract, NextMeetsContract, PTL
  DEF Spec, ImplementsContract, Contract!Spec
=============================================================================
