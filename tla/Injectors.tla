----------------------------- MODULE Injectors ------------------------------
(***************************************************************************)
(* The five protocol fault injectors (firmware/src/fault/{spi,i2c,uart,    *)
(* can,onewire}.rs), and the shift register that decides for them.         *)
(*                                                                         *)
(* A word that passes an injector is the set of the numbers of its         *)
(* one-bits.  An injector is used by one caller, whose calls may come in   *)
(* any order.                                                              *)
(***************************************************************************)
EXTENDS Integers, Sequences

CONSTANTS
    Configs,      \* the configurations that the caller may choose
    Words,        \* the words it may hand over, cut to the width of each path
    CountRange,   \* 2^32: count is a u32, which wraps in a release build
    MaxDraws      \* bound: how far the shift register is followed

Protocols == {"Spi", "I2c", "Uart", "Can", "OneWire"}

FaultTypes == {"BitFlip", "StuckAtZero", "StuckAtOne", "BitDelay", "ClockGlitch",
               "FrameCorrupt", "NackInjection", "ParityError", "CrcCorrupt",
               "BusLockup", "Overrun", "Timeout"}

MaxU16 == 65535

ASSUME InjectorsAssumption ==
    /\ Configs \subseteq [fault_type : FaultTypes, target_bit : 0..255,
                          probability_permille : 0..MaxU16]
    /\ Words \subseteq SUBSET (0..31)
    /\ CountRange \in Nat \ {0}
    /\ MaxDraws \in Nat

\* The configuration, and the seed, that an injector starts with.
Default(p) == [fault_type |-> IF p = "I2c" THEN "NackInjection" ELSE "BitFlip",
               target_bit |-> 0, probability_permille |-> 1000]

Seed(p) == CASE p = "Spi"     -> 48879   \* 0xBEEF
             [] p = "I2c"     -> 51966   \* 0xCAFE
             [] p = "Uart"    -> 57005   \* 0xDEAD
             [] p = "Can"     -> 4660    \* 0x1234
             [] p = "OneWire" -> 22136   \* 0x5678

VARIABLES
    protocol,
    config, armed, count, lfsr, overrun_active,
    draws,        \* history: the numbers drawn from the shift register
    given, got,   \* history: the words of the last call, before and after
    outcome       \* history: the result of the last call

vars == <<protocol, config, armed, count, lfsr, overrun_active, draws, given, got, outcome>>

Init ==
    /\ protocol \in Protocols
    /\ config = Default(protocol)
    /\ armed = FALSE
    /\ count = 0
    /\ lfsr = Seed(protocol)
    /\ overrun_active = FALSE
    /\ draws = 0
    /\ given = <<>> /\ got = <<>> /\ outcome = "Ok"

-----------------------------------------------------------------------------
(* One word.  The record s is the injector's state inside a call: what the *)
(* call changes, and the words that have passed.                           *)

\* The states of the 16-bit register from which it goes on changing.
Running == 1..MaxU16

\* Lfsr::new, which does not let the register start empty.
New(seed) == IF seed = 0 THEN 1 ELSE seed

\* Mutant: the bit shifted out is not fed back.
Step_NoFeedback(x) == x \div 2

\* Lfsr::next: the bits 0, 2, 3 and 5 decide the one that is shifted in.
Step(x) == x \div 2 + 32768 * ((x + x \div 4 + x \div 8 + x \div 32) % 2)

Draw(s) == [s EXCEPT !.lfsr = Step(@), !.draws = @ + 1]

\* Mutant: the random bit's number is taken from the other end.
NextBit_High(s) == s.lfsr \div 8192

\* The bit that next_bit returns when its draw has led to s.
NextBit(s) == s.lfsr % 8

\* should_inject draws only if the probability is neither none nor certainty.
Rolled(s) == IF config.probability_permille \in 1..999 THEN Draw(s) ELSE s

Hit(s) == \/ config.probability_permille >= 1000
          \/ s.lfsr % 1024 < config.probability_permille

\* Mutant: a predicate draws from the injector's register.
FreshlyRolled_Shared(s) == Rolled(s)

\* The predicates draw from a register made for the call, and drop it.
FreshlyRolled(s) == Rolled([s EXCEPT !.lfsr = New(0)])

\* The number of bits that a configured target is chosen from.
Width(path) == CASE path = "address" -> 7
                 [] path = "id"      -> 29
                 [] OTHER            -> 8

\* A target out of range stands for a random bit.
Random(path) ==
    /\ config.target_bit >= Width(path)
    /\ path \in {"can_data", "rom"} => config.fault_type = "BitFlip"

\* What each path does with the fault type: the target bit flipped, cleared
\* or set, the top bit or another random bit flipped, or nothing.
Effect(path, index) ==
    LET fault == config.fault_type IN
    CASE fault = "BitFlip" -> "flip"
      [] fault = "StuckAtZero" /\ path \notin {"tx", "can_data", "rom"} -> "clear"
      [] fault = "StuckAtOne" /\ path \notin {"tx", "can_data", "rom"} -> "set"
      [] fault = "ParityError" /\ path = "tx" -> "top"
      [] \/ fault = "ClockGlitch" /\ path \in {"mosi", "tx"}
         \/ fault = "FrameCorrupt" /\ path \in {"tx", "can_data"}
         \/ fault = "CrcCorrupt" /\ path = "can_data" /\ index >= 4
         \/ fault = "CrcCorrupt" /\ path = "onewire_data" /\ index >= 8 -> "random"
      [] OTHER -> "none"

Flip(word, bit) == IF bit \in word THEN word \ {bit} ELSE word \union {bit}

Passed(s, word) == [s EXCEPT !.got = Append(@, word)]

Counted(s, n) == [s EXCEPT !.count = (@ + n) % CountRange]

\* Mutant: damage is not counted.
Struck_Uncounted(s, word, result) == Passed(s, result)

Struck(s, word, result) == Passed(Counted(s, IF result # word THEN 1 ELSE 0), result)

\* The draw of the target bit, the one of the effect, and the bit to hit.
Aimed(s, path) == IF Random(path) THEN Draw(s) ELSE s

Last(s, path, index) == IF Effect(path, index) = "random" THEN Draw(s) ELSE s

Target(s, path) == IF Random(path) THEN NextBit(s) % Width(path) ELSE config.target_bit

Result(word, effect, target, random) ==
    CASE effect = "none"   -> word
      [] effect = "flip"   -> Flip(word, target)
      [] effect = "clear"  -> word \ {target}
      [] effect = "set"    -> word \union {target}
      [] effect = "top"    -> Flip(word, 7)
      [] effect = "random" -> Flip(word, random)

\* The fault strikes.
Strike(s, path, index, word) ==
    LET aimed == Aimed(s, path)
        last == Last(aimed, path, index)
    IN Struck(last, word,
              Result(word, Effect(path, index), Target(aimed, path), NextBit(last)))

\* The inject functions of all paths.
Inject(s, path, index, word) ==
    LET rolled == Rolled(s) IN
    IF ~armed THEN Passed(s, word)
    ELSE IF Hit(rolled) THEN Strike(rolled, path, index, word)
    ELSE Passed(rolled, word)

\* inject_overrun
Overrun(s) ==
    LET rolled == Rolled(s) IN
    IF ~armed \/ config.fault_type # "Overrun" THEN s
    ELSE IF ~Hit(rolled) THEN rolled
    ELSE [Counted(rolled, 1) EXCEPT !.overrun = TRUE]

-----------------------------------------------------------------------------
(* The calls.                                                              *)

Paths(p) == CASE p = "Spi"     -> {"mosi", "miso"}
              [] p = "I2c"     -> {"address", "i2c_data"}
              [] p = "Uart"    -> {"tx", "rx"}
              [] p = "Can"     -> {"id", "can_data"}
              [] p = "OneWire" -> {"onewire_data", "rom"}

\* The indices that tell the bytes before a checksum from those in it.
Indices(path) == CASE path = "can_data"     -> 0..7
                   [] path = "onewire_data" -> {0, 8}
                   [] OTHER                 -> {0}

Inputs(path) == {w \intersect (IF path = "id" THEN 0..31 ELSE 0..7) : w \in Words}

Start == [lfsr |-> lfsr, draws |-> draws, count |-> count,
          overrun |-> overrun_active, got |-> <<>>]

\* A call ends with the injector's state s.
Return(s, words, result) ==
    /\ lfsr' = s.lfsr
    /\ draws' = s.draws
    /\ count' = s.count
    /\ overrun_active' = s.overrun
    /\ given' = words
    /\ got' = s.got
    /\ outcome' = result
    /\ UNCHANGED <<protocol, config, armed>>

Configure(c) ==
    /\ config' = c
    /\ given' = <<>> /\ got' = <<>> /\ outcome' = "Ok"
    /\ UNCHANGED <<protocol, armed, count, lfsr, overrun_active, draws>>

Arm ==
    /\ armed' = TRUE
    /\ count' = 0
    /\ given' = <<>> /\ got' = <<>> /\ outcome' = "Ok"
    /\ UNCHANGED <<protocol, config, lfsr, overrun_active, draws>>

\* Mutant: disarming leaves the overrun in place.
Disarm_KeepsOverrun ==
    /\ armed' = FALSE
    /\ given' = <<>> /\ got' = <<>> /\ outcome' = "Ok"
    /\ UNCHANGED <<protocol, config, count, lfsr, overrun_active, draws>>

\* Only the UART's injector ever has an overrun to end.
Disarm ==
    /\ armed' = FALSE
    /\ overrun_active' = FALSE
    /\ given' = <<>> /\ got' = <<>> /\ outcome' = "Ok"
    /\ UNCHANGED <<protocol, config, count, lfsr, draws>>

ResetStats == Return([Start EXCEPT !.count = 0], <<>>, "Ok")

ClearOverrun == protocol = "Uart" /\ Return([Start EXCEPT !.overrun = FALSE], <<>>, "Ok")

InjectOverrun == /\ protocol = "Uart" /\ draws < MaxDraws
                 /\ Return(Overrun(Start), <<>>, "Ok")

\* The faults of the line that a caller may ask for before it drives the line
\* itself: should_nack, should_lock_bus; inject_stuff_error, inject_form_error;
\* suppress_presence, inject_timing_violation, glitch_reset_pulse.
Probes(p) == CASE p = "I2c"     -> {"NackInjection", "BusLockup"}
               [] p = "Can"     -> {"ClockGlitch", "FrameCorrupt"}
               [] p = "OneWire" -> {"Timeout", "BitDelay", "ClockGlitch"}
               [] OTHER         -> {}

Strikes(fault) == armed /\ (fault = "BusLockup" \/ Hit(FreshlyRolled(Start)))

\* "Other" is the "No" of a fault that is not the configured one.
Probe(fault) ==
    Return(Start, <<>>, CASE config.fault_type # fault -> "Other"
                          [] Strikes(fault)            -> "Yes"
                          [] OTHER                     -> "No")

InjectWord(path, index, word) ==
    /\ draws < MaxDraws
    /\ Return(Inject(Start, path, index, word), <<word>>, "Ok")

\* The words that fire() reads from its bus.  Those of I2C and of 1-Wire read
\* nothing of it.
BusOf(p) == CASE p = "Spi"  -> {<<x, y>> : x, y \in {{}, {0}}}
              [] p = "Uart" -> {<<x>> : x \in Inputs("tx")}
              [] p = "Can"  -> {<<x, y, y, y, y, y, y, y, y>> : x \in Inputs("id"), y \in Inputs("can_data")}
              [] OTHER      -> {<<>>}

\* SPI's damage is counted, and thrown away.
FireSpi(words) ==
    LET mosi == Inject(Start, "mosi", 0, words[1])
        miso == Inject(mosi, "miso", 0, words[2])
    IN [miso EXCEPT !.got = words]

FireI2c == IF config.fault_type = "NackInjection" THEN Counted(Start, 1) ELSE Start

FireUart(words) ==
    LET tx == Inject(Start, "tx", 0, words[1]) IN
    IF config.fault_type = "Overrun" THEN Overrun(tx) ELSE tx

CanData(s, words, i) == Inject(s, "can_data", i, words[i + 2])

FireCan(words) ==
    LET Data(s, i) == CanData(s, words, i)
    IN Data(Data(Data(Data(Data(Data(Data(Data(
          Inject(Start, "id", 0, words[1]), 0), 1), 2), 3), 4), 5), 6), 7)

Fire(words) ==
    \/ ~armed /\ Return([Start EXCEPT !.got = words], words, "Err")
    \/ /\ armed /\ draws < MaxDraws
       /\ \/ protocol = "Spi" /\ Return(FireSpi(words), words, "Fired")
          \/ protocol = "I2c" /\ Return(FireI2c, words, "Fired")
          \/ protocol = "Uart" /\ Return(FireUart(words), words, "Fired")
          \/ protocol = "Can" /\ Return(FireCan(words), words, "Fired")
          \/ protocol = "OneWire" /\ Return(Start, words, "Fired")

Next ==
    \/ \E c \in Configs : Configure(c)
    \/ Arm
    \/ Disarm
    \/ ResetStats
    \/ ClearOverrun
    \/ InjectOverrun
    \/ \E fault \in Probes(protocol) : Probe(fault)
    \/ \E path \in Paths(protocol) : \E index \in Indices(path), word \in Inputs(path) :
          InjectWord(path, index, word)
    \/ \E words \in BusOf(protocol) : Fire(words)

Spec == Init /\ [][Next]_vars

-----------------------------------------------------------------------------
(* Properties.                                                             *)

\* The types; above all, the shift register never runs empty, which would
\* make every probability a certainty from then on.
TypeOK ==
    /\ protocol \in Protocols
    /\ config \in Configs \union {Default(protocol)}
    /\ armed \in BOOLEAN
    /\ count \in 0 .. CountRange - 1
    /\ lfsr \in Running
    /\ overrun_active \in BOOLEAN
    /\ draws \in Nat
    /\ outcome \in {"Ok", "Err", "Fired", "Yes", "No", "Other"}

AnyWords == UNION {BusOf(p) \union {<<w>> : w \in UNION {Inputs(q) : q \in Paths(p)}} :
                     p \in Protocols}

Contract == INSTANCE InjectorContract WITH Bus <- AnyWords

\* All five are what the trait promises: nothing happens unless armed, no
\* word loses more than a bit, and no damage goes uncounted.
ImplementsContract == Contract!Spec

\* An overrun lasts no longer than the arming it was injected in, whatever
\* was configured in between.
OverrunOnlyWhileArmed == overrun_active => armed

\* The draw that decides whether to inject also decides, one shift later,
\* which bit is hit: a fault that is rare enough never touches a high bit,
\* though its target was left to chance.
RareFaultsHitLowBits ==
    LET p == config.probability_permille IN
    config.fault_type = "BitFlip" /\ config.target_bit >= 32 /\ p \in 1..16
        => \A i \in DOMAIN got : Contract!Damage(given[i], got[i]) \subseteq 0 .. (p - 1) \div 2

\* A fault of the line strikes whenever it is asked for, however improbable
\* it was configured: what a fresh register draws first is below them all.
ProbesIgnoreRarity == outcome = "No" /\ armed => config.probability_permille = 0
=============================================================================
