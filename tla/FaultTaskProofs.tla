-------------------------- MODULE FaultTaskProofs --------------------------
(***************************************************************************)
(* The fault injector obeys a patient commander as FaultService states, if *)
(* its busy loop is such that bytes are read right (see BitBangProofs).    *)
(* At the lengths the source names they are, and no answer gets through.   *)
(***************************************************************************)
EXTENDS FaultTask, BitBangProofs

LEMMA CodesAreBytes ==
  /\ CommandCode \in [Commands -> Byte]
  /\ ResultCode \in [Results -> Byte]
BY DEF CommandCode, ResultCode, Commands, Results, Byte

\* No two commands have the same code, and no two results.
LEMMA CodesDiffer ==
  /\ \A c, d \in Commands : CommandCode[c] = CommandCode[d] => c = d
  /\ \A r, q \in Results : ResultCode[r] = ResultCode[q] => r = q
<1>1. /\ CommandCode["Arm"] = {0} /\ CommandCode["Disarm"] = {1}
      /\ CommandCode["Fire"] = {0, 1} /\ CommandCode["Status"] = {2}
      /\ CommandCode["Reset"] = {0, 2}
  BY DEF CommandCode, Commands
<1>2. /\ ResultCode["Armed"] = {0} /\ ResultCode["Disarmed"] = {1}
      /\ ResultCode["Fired"] = {0, 1} /\ ResultCode["Error"] = {0, 2}
      /\ ResultCode["Completed"] = {1, 2}
  BY DEF ResultCode, Results
<1>3. ASSUME NEW A, NEW B, A = B
      PROVE  (0 \in A <=> 0 \in B) /\ (1 \in A <=> 1 \in B) /\ (2 \in A <=> 2 \in B)
  BY <1>3
<1>4. ASSUME NEW c \in Commands, NEW d \in Commands, CommandCode[c] = CommandCode[d]
      PROVE  c = d
  <2>1. /\ 0 \in CommandCode[c] <=> 0 \in CommandCode[d]
        /\ 1 \in CommandCode[c] <=> 1 \in CommandCode[d]
        /\ 2 \in CommandCode[c] <=> 2 \in CommandCode[d]
    BY <1>3, <1>4
  <2> QED BY <1>1, <2>1 DEF Commands
<1>5. ASSUME NEW r \in Results, NEW q \in Results, ResultCode[r] = ResultCode[q]
      PROVE  r = q
  <2>1. /\ 0 \in ResultCode[r] <=> 0 \in ResultCode[q]
        /\ 1 \in ResultCode[r] <=> 1 \in ResultCode[q]
        /\ 2 \in ResultCode[r] <=> 2 \in ResultCode[q]
    BY <1>3, <1>5
  <2> QED BY <1>2, <2>1 DEF Results
<1> QED BY <1>4, <1>5

\* A frame that is read from its start is obeyed as the command it carries.
LEMMA ObeyedAsSent ==
  ASSUME ReadsRight, TypeOK, pc = "reading", reading.whole, NEW byte \in BytesRead
  PROVE  CommandsOf(byte) = {reading.of}
<1>1. reading.of \in Commands
  BY DEF TypeOK
<1>2. ReadByte({Frame(CommandCode[reading.of])}, 0) = CommandCode[reading.of]
  BY <1>1, CodesAreBytes DEF ReadsRight
<1>3. byte = CommandCode[reading.of]
  BY <1>2 DEF BytesRead
<1> QED BY <1>1, <1>3, CodesDiffer DEF CommandsOf

-----------------------------------------------------------------------------
(* Types.                                                                  *)

LEMMA TypeInit == Init => TypeOK
<1>1. 0 \in 0 .. CountRange - 1
  BY FaultTaskAssumption
<1> QED BY <1>1, Zenon DEF Init, TypeOK

LEMMA EngineTypes ==
  ASSUME TypeOK, NEW c \in Commands, HandleCommand(c)
  PROVE  /\ reply' \in Results
         /\ armed' \in BOOLEAN /\ fired' \in BOOLEAN
         /\ fire_count' \in 0 .. CountRange - 1
<1>1. 0 \in 0 .. CountRange - 1 /\ (fire_count + 1) % CountRange \in 0 .. CountRange - 1
  BY FaultTaskAssumption, SMTT(30) DEF TypeOK
<1> QED BY <1>1 DEF HandleCommand, TypeOK, engine, Results

LEMMA TypeNext == TypeOK /\ [Next]_vars => TypeOK'
<1> SUFFICES ASSUME TypeOK, [Next]_vars PROVE TypeOK'
  OBVIOUS
<1>1. ASSUME NEW c \in Commands, Send(c) PROVE TypeOK'
  <2>1. CASE pc = "listening"
    <3>1. reading' \in [of : Commands, next : Commands \union {None}, whole : BOOLEAN]
      <4>1. reading' = [of |-> c, next |-> None, whole |-> TRUE]
        BY <1>1, <2>1 DEF Send
      <4> QED BY <4>1
    <3>2. pc' = "reading" /\ pc' # "replying" /\ reply' = None
      BY <1>1, <2>1 DEF Send, TypeOK
    <3>3. awaiting' \in Commands \union {None} /\ frame' \in Commands \union {None}
      BY <1>1, <2>1 DEF Send, TypeOK
    <3>4. /\ armed' \in BOOLEAN /\ fired' \in BOOLEAN /\ patient' \in BOOLEAN
          /\ fire_count' \in 0 .. CountRange - 1
          /\ obeyed' \in [cmd : Commands, of : Commands] \union {None}
      <4>1. UNCHANGED <<armed, fired, fire_count, patient, obeyed>>
        BY <1>1 DEF Send, engine
      <4> QED BY <4>1 DEF TypeOK
    <3> QED BY <3>1, <3>2, <3>3, <3>4 DEF TypeOK
  <2>2. CASE pc = "reading"
    <3>1. reading' \in [of : Commands, next : Commands \union {None}, whole : BOOLEAN]
      BY <1>1, <2>2 DEF Send, TypeOK
    <3> QED BY <1>1, <2>2, <3>1 DEF Send, TypeOK, engine
  <2>3. CASE pc = "replying"
    BY <1>1, <2>3 DEF Send, TypeOK, engine
  <2> QED BY <2>1, <2>2, <2>3 DEF TypeOK
<1>2. CASE FrameEnds
  BY <1>2 DEF FrameEnds, TypeOK, engine
<1>3. CASE CatchLate
  BY <1>3 DEF CatchLate, TypeOK, engine
<1>4. CASE SkipByte
  BY <1>4 DEF SkipByte, TypeOK, engine
<1>5. CASE Obey
  <2>0. PICK byte \in BytesRead : \E c \in CommandsOf(byte) :
           HandleCommand(c) /\ obeyed' = [cmd |-> c, of |-> reading.of]
    BY <1>5 DEF Obey
  <2>1. PICK c \in CommandsOf(byte) :
           HandleCommand(c) /\ obeyed' = [cmd |-> c, of |-> reading.of]
    BY <2>0
  <2>2. c \in Commands
    BY DEF CommandsOf
  <2>3. reading.of \in Commands
    BY <1>5 DEF Obey, TypeOK
  <2>4. obeyed' \in [cmd : Commands, of : Commands]
    BY <2>1, <2>2, <2>3
  <2>5. /\ reply' \in Results /\ armed' \in BOOLEAN /\ fired' \in BOOLEAN
        /\ fire_count' \in 0 .. CountRange - 1
    BY <2>1, <2>2, EngineTypes
  <2> QED BY <1>5, <2>4, <2>5 DEF Obey, TypeOK
<1>6. CASE ReplyDone
  BY <1>6, FaultTaskAssumption DEF ReplyDone, TypeOK, engine
<1>7. CASE UNCHANGED vars
  BY <1>7 DEF vars, TypeOK
<1> QED BY <1>1, <1>2, <1>3, <1>4, <1>5, <1>6, <1>7 DEF Next, TaskStep

\* The task, its engine and the line keep their types, whatever the loop's
\* length and whatever is misread.
THEOREM TypeCorrect == Spec => []TypeOK
BY TypeInit, TypeNext, PTL DEF Spec

-----------------------------------------------------------------------------
(* The link of a patient commander: while it waits for nothing the line is *)
(* silent, and what it waits for is what the task reads or answers.        *)

PatientLink ==
    patient => /\ frame = None
               /\ pc = "listening" => awaiting = None
               /\ pc = "reading"   => reading.whole /\ awaiting = reading.of
               /\ pc = "replying"  => awaiting # None

Inv == TypeOK /\ PatientLink

LEMMA PatientInit == Init => PatientLink
BY DEF Init, PatientLink

LEMMA PatientNext ==
  ASSUME ReadsRight, Inv, [Next]_vars
  PROVE  PatientLink'
<1> SUFFICES ASSUME patient' PROVE PatientLink'
  BY DEF PatientLink
<1>0. patient
  BY DEF Next, TaskStep, Send, FrameEnds, CatchLate, SkipByte, Obey, ReplyDone, vars
<1>1. ASSUME NEW c \in Commands, Send(c) PROVE PatientLink'
  <2>1. pc = "listening"
    BY <1>0, <1>1, FaultTaskAssumption DEF Send, Inv, PatientLink, TypeOK
  <2> QED BY <1>0, <1>1, <2>1 DEF Send, Inv, PatientLink
<1>2. CASE FrameEnds
  BY <1>0, <1>2 DEF FrameEnds, Inv, PatientLink
<1>3. CASE CatchLate
  BY <1>0, <1>3 DEF CatchLate, Inv, PatientLink
<1>4. CASE SkipByte
  BY <1>0, <1>4, ObeyedAsSent DEF SkipByte, Inv, PatientLink
<1>5. CASE Obey
  <2>1. reading.of # None
    BY <1>5, FaultTaskAssumption DEF Obey, Inv, TypeOK
  <2> QED BY <1>0, <1>5, <2>1 DEF Obey, Inv, PatientLink
<1>6. CASE ReplyDone
  BY <1>0, <1>6 DEF ReplyDone, Inv, PatientLink
<1>7. CASE UNCHANGED vars
  BY <1>7 DEF vars, Inv, PatientLink
<1> QED BY <1>1, <1>2, <1>3, <1>4, <1>5, <1>6, <1>7 DEF Next, TaskStep

-----------------------------------------------------------------------------
(* Refinement.                                                             *)

LEMMA ServiceInit == Init => Written!Init
BY DEF Init, Written!Init

\* The engine answers as the service does.
LEMMA EngineServes ==
  ASSUME TypeOK, NEW c \in Commands, HandleCommand(c)
  PROVE  /\ reply' = CASE c = "Arm"                 -> "Armed"
                       [] c \in {"Disarm", "Reset"} -> "Disarmed"
                       [] c = "Fire"                -> IF armed THEN "Fired" ELSE "Error"
                       [] c = "Status"              -> IF fired THEN "Completed"
                                                       ELSE IF armed THEN "Armed" ELSE "Disarmed"
         /\ armed' = (c = "Arm" \/ (armed /\ c \notin {"Disarm", "Reset"}))
         /\ fired' = (reply' = "Fired" \/ (fired /\ c \notin {"Arm", "Reset"}))
BY DEF HandleCommand, TypeOK, Commands, engine

LEMMA ServiceStep ==
  ASSUME ReadsRight, Inv, Next, patient
  PROVE  Written!Next \/ UNCHANGED Written!vars
<1>2. ASSUME NEW c \in Commands, Send(c) PROVE Written!Request(c)
  <2>1. pc = "listening"
    BY <1>2, FaultTaskAssumption DEF Send, Inv, PatientLink, TypeOK
  <2> QED BY <1>2, <2>1 DEF Send, Written!Request, engine
<1>3. ~FrameEnds /\ ~CatchLate
  BY DEF FrameEnds, CatchLate, Inv, PatientLink
<1>4. ~SkipByte
  BY ObeyedAsSent DEF SkipByte, Inv, PatientLink
<1>5. CASE Obey
  <2>1. PICK byte \in BytesRead : \E c \in CommandsOf(byte) : HandleCommand(c)
    BY <1>5 DEF Obey
  <2>2. CommandsOf(byte) = {awaiting} /\ awaiting \in Commands
    BY <1>5, ObeyedAsSent DEF Obey, Inv, PatientLink, TypeOK
  <2>3. HandleCommand(awaiting)
    BY <2>1, <2>2
  <2>4. awaiting # None /\ reply = None /\ UNCHANGED awaiting
    BY <1>5, <2>2, FaultTaskAssumption DEF Obey, Inv, TypeOK
  <2>5. reply' = Written!AnswerTo(awaiting)
    BY <2>2, <2>3, EngineServes DEF Inv, Written!AnswerTo
  <2>6. /\ armed' = (awaiting = "Arm" \/ (armed /\ awaiting \notin {"Disarm", "Reset"}))
        /\ fired' = (reply' = "Fired" \/ (fired /\ awaiting \notin {"Arm", "Reset"}))
    BY <2>2, <2>3, EngineServes DEF Inv
  <2> QED BY <2>4, <2>5, <2>6 DEF Written!Obey, Written!Next
<1>6. CASE ReplyDone
  <2>1. reply # None
    BY <1>6, FaultTaskAssumption DEF ReplyDone, Inv, TypeOK
  <2> QED BY <1>6, <2>1 DEF ReplyDone, engine, Written!Answer, Written!Next
<1> QED
  BY <1>2, <1>3, <1>4, <1>5, <1>6 DEF Next, TaskStep, Written!Next, Commands, Written!Commands

\* For a patient commander the way in and the engine implement the service:
\* every command obeyed once, as sent, and its answer written.
THEOREM ObeysPatiently ==
  ASSUME ReadBand
  PROVE  Spec => ObeysPatient
<1>0. ReadsRight
  BY ReadsRightInBand
<1>1. Init => Inv
  BY TypeInit, PatientInit DEF Inv
<1>2. Inv /\ [Next]_vars => Inv'
  BY <1>0, TypeNext, PatientNext DEF Inv
<1>3. Init => Written!Init
  BY ServiceInit
<1>4. Inv /\ [Next]_vars
        => [patient => Written!Next \/ UNCHANGED Written!vars]_vars
  BY <1>0, ServiceStep
<1> QED BY <1>1, <1>2, <1>3, <1>4, PTL DEF Spec, ObeysPatient

\* At the lengths the source names every answer is written as a byte that no
\* commander at 115200 baud takes for any answer: its last bit is heard high.
THEOREM AnswersGarbled ==
  ASSUME Nominal
  PROVE  Spec => [](reply # None => Heard(reply) = "garbled")
<1>1. ASSUME NEW r \in Results PROVE Heard(r) = "garbled"
  <2>1. ResultCode[r] \in Byte /\ TooShortToWrite
    BY CodesAreBytes, NominalLengths
  <2>2. 7 \in Received(ResultCode[r])
    BY <2>1, LastBitHeardHigh
  <2>3. \A q \in Results : 7 \notin ResultCode[q]
    BY DEF ResultCode, Results
  <2>4. {q \in Results : ResultCode[q] = Received(ResultCode[r])} = {}
    BY <2>2, <2>3
  <2>5. r # None
    BY FaultTaskAssumption
  <2> QED BY <2>4, <2>5 DEF Heard
<1>2. TypeOK => (reply # None => Heard(reply) = "garbled")
  BY <1>1 DEF TypeOK
<1> QED BY <1>2, TypeCorrect, PTL

-----------------------------------------------------------------------------
(* What a misread byte may be.                                             *)

\* The line as it is read: a frame's bits, and what is before and behind it.
LEMMA LevelOfFrame ==
  ASSUME NEW byte \in Byte, NEW s \in Nat, NEW x \in Nat
  PROVE  LET f == [byte |-> byte, start |-> s] IN
         /\ x < s => High(f, x)
         /\ x >= s + 9 * BitTime => High(f, x)
         /\ \A k \in 0..8 : s + k * BitTime <= x /\ x < s + (k + 1) * BitTime
                              => (High(f, x) <=> k - 1 \in byte)
<1> DEFINE f == [byte |-> byte, start |-> s]
           q == (x - s) \div BitTime
<1>1. High(f, x) <=> q < 0 \/ q > 8 \/ q - 1 \in byte
  BY DEF High
<1>2. x < s => q < 0
  BY BitBangAssumption, SMTT(30)
<1>3. x >= s + 9 * BitTime => q > 8
  <2> SUFFICES ASSUME x >= s + 9 * BitTime  PROVE q > 8
    OBVIOUS
  <2>1. x - s \in Nat /\ x - s >= 9 * BitTime
    BY BitBangAssumption
  <2> QED  BY <2>1, PlaceOf, BitBangAssumption
<1>4. ASSUME NEW k \in 0..8, s + k * BitTime <= x, x < s + (k + 1) * BitTime
      PROVE  q = k
  <2>1. x - s \in Nat /\ k * BitTime <= x - s /\ x - s < (k + 1) * BitTime
    BY <1>4, BitBangAssumption, SMTT(30)
  <2> QED  BY <2>1, PlaceOf, BitBangAssumption
<1> HIDE DEF q, f
<1>5. ASSUME NEW k \in 0..8, s + k * BitTime <= x, x < s + (k + 1) * BitTime
      PROVE  High(f, x) <=> k - 1 \in byte
  BY <1>1, <1>4, <1>5
<1> QED  BY <1>1, <1>2, <1>3, <1>5 DEF f

\* Samples come more often than bits do: the last six of a read do not miss a
\* bit's length that they reach.
LEMMA Lands ==
  ASSUME LoopTime < BitTime, NEW t \in Nat, NEW a \in Nat,
         t + 4 * LoopTime < a + BitTime, t + 9 * LoopTime >= a
  PROVE  \E i \in 2..7 : a <= t + (2 + i) * LoopTime /\ t + (2 + i) * LoopTime < a + BitTime
<1> DEFINE X(i) == t + (2 + i) * LoopTime
           In(i) == a <= X(i) /\ X(i) < a + BitTime
<1>1. /\ X(2) = t + 4 * LoopTime /\ X(3) = t + 5 * LoopTime /\ X(4) = t + 6 * LoopTime
      /\ X(5) = t + 7 * LoopTime /\ X(6) = t + 8 * LoopTime /\ X(7) = t + 9 * LoopTime
  BY BitBangAssumption
<1>2. In(2) \/ In(3) \/ In(4) \/ In(5) \/ In(6) \/ In(7)
  <2> HIDE DEF X
  <2> QED  BY <1>1, BitBangAssumption, SMTT(30)
<1> QED  BY <1>2

\* Bits 0, 1 and 2 of a command's code are not all zero.
LEMMA CodesHaveLowBit == \A c \in Commands : \E k \in 1..3 : k - 1 \in CommandCode[c]
<1>1. ASSUME NEW c \in Commands  PROVE 0 \in CommandCode[c] \/ 1 \in CommandCode[c] \/ 2 \in CommandCode[c]
  BY DEF CommandCode, Commands
<1>2. 1 - 1 = 0 /\ 2 - 1 = 1 /\ 3 - 1 = 2
  OBVIOUS
<1> QED  BY <1>1, <1>2

\* A read that begins within a frame of Status or of Reset, and whose first
\* sample is high, has another high one besides the second: it meets bit 2 of
\* the frame, the gap behind it, or a one of the next frame.
LEMMA PollsReadHigh ==
  ASSUME ReadBand, NEW c \in {"Status", "Reset"}, NEW t \in 1 .. 9 * BitTime - 1,
         ~High(Frame(CommandCode[c]), t),
         NEW d \in Commands, NEW s \in Nat, s >= 10 * BitTime,
         NEW frames, frames \in {{Frame(CommandCode[c])},
            {Frame(CommandCode[c]), [byte |-> CommandCode[d], start |-> s]}},
         LineHigh(frames, t + 2 * LoopTime)
  PROVE  \E i \in 2..7 : LineHigh(frames, t + (2 + i) * LoopTime)
<1> DEFINE W == BitTime
           L == LoopTime
           first == Frame(CommandCode[c])
           second == [byte |-> CommandCode[d], start |-> s]
           X(i) == t + (2 + i) * L
<1>1. /\ W \in Nat \ {0} /\ L \in Nat \ {0} /\ L < W /\ 8 * W <= 9 * L
      /\ t \in Nat /\ t >= 1 /\ t < 9 * W
  BY BitBangAssumption DEF ReadBand
<1>2. /\ \A i \in 0..7 : X(i) \in Nat
      /\ X(0) = t + 2 * L /\ X(2) = t + 4 * L /\ X(7) = t + 9 * L
  BY <1>1
<1>3. /\ CommandCode[c] \in Byte /\ CommandCode[d] \in Byte
      /\ 2 \in CommandCode[c]
      /\ \A k \in {-1, 1, 3, 4, 5, 6, 7} : k \notin CommandCode[c]
  <2>1. c \in Commands /\ CommandCode["Status"] = {2} /\ CommandCode["Reset"] = {0, 2}
    BY DEF Commands, CommandCode
  <2> QED  BY <2>1, CodesAreBytes
\* What the first frame shows.
<1>4. ASSUME NEW x \in Nat
      PROVE  /\ 3 * W <= x /\ x < 4 * W => High(first, x)
             /\ x < W \/ (2 * W <= x /\ x < 3 * W) \/ (4 * W <= x /\ x < 9 * W)
                  => ~High(first, x)
             /\ x >= 9 * W => High(first, x)
  <2>1. /\ x >= 0 + 9 * W => High(first, x)
        /\ \A k \in 0..8 : 0 + k * W <= x /\ x < 0 + (k + 1) * W
                             => (High(first, x) <=> k - 1 \in CommandCode[c])
    BY <1>3, LevelOfFrame DEF Frame
  <2> HIDE DEF first
  <2>2. /\ 0 * W = 0 /\ 0 + 0 = 0 /\ (0 + 1) * W = W
        /\ 0 - 1 = -1 /\ 2 - 1 = 1 /\ 3 - 1 = 2 /\ 4 - 1 = 3 /\ 5 - 1 = 4 /\ 6 - 1 = 5
        /\ 7 - 1 = 6 /\ 8 - 1 = 7
    BY <1>1
  <2>3. 3 * W <= x /\ x < 4 * W => High(first, x)
    BY <1>1, <1>3, <2>1, <2>2
  <2>4. ASSUME NEW k \in {0, 2, 4, 5, 6, 7, 8}, k * W <= x, x < (k + 1) * W
        PROVE  ~High(first, x)
    <3>1. k \in 0..8 /\ k - 1 \in {-1, 1, 3, 4, 5, 6, 7}
      BY <2>4
    <3>2. 0 + k * W <= x /\ x < 0 + (k + 1) * W
      BY <1>1, <2>4
    <3> QED  BY <1>3, <2>1, <3>1, <3>2
  <2>5. x < W \/ (2 * W <= x /\ x < 3 * W) \/ (4 * W <= x /\ x < 9 * W)
          => \E k \in {0, 2, 4, 5, 6, 7, 8} : k * W <= x /\ x < (k + 1) * W
    <3>1. /\ 0 * W = 0 /\ (0 + 1) * W = W /\ (2 + 1) * W = 3 * W /\ (4 + 1) * W = 5 * W
          /\ (5 + 1) * W = 6 * W /\ (6 + 1) * W = 7 * W /\ (7 + 1) * W = 8 * W
          /\ (8 + 1) * W = 9 * W
      BY <1>1
    <3> QED  BY <1>1, <3>1
  <2> QED  BY <1>1, <2>1, <2>3, <2>4, <2>5
\* What the second shows, if there is one.
<1>5. ASSUME NEW x \in Nat, x < s
      PROVE  High(second, x)
  BY <1>3, <1>5, LevelOfFrame
<1>6. /\ first \in frames /\ frames \subseteq {first, second}
      /\ \A x : LineHigh(frames, x)
                  <=> High(first, x) /\ (second \in frames => High(second, x))
  BY DEF LineHigh
<1>7. LineHigh(frames, X(0)) /\ ~High(first, t)
  BY <1>2
<1> HIDE DEF first, second, X
<1> SUFFICES ASSUME \A i \in 2..7 : ~LineHigh(frames, X(i))
             PROVE  FALSE
  BY DEF X
\* No sample but the first two falls into the gap behind the first frame.
<1>8. ASSUME X(2) < 10 * W, X(7) >= 9 * W
      PROVE  FALSE
  <2>1. \E i \in 2..7 : 9 * W <= X(i) /\ X(i) < 9 * W + W
    BY <1>1, <1>2, <1>8, Lands DEF X
  <2>2. PICK i \in 2..7 : 9 * W <= X(i) /\ X(i) < 10 * W
    BY <1>1, <2>1
  <2>3. X(i) \in Nat /\ X(i) < s
    BY <1>1, <1>2, <2>2
  <2> QED  BY <1>4, <1>5, <1>6, <2>2, <2>3
<1>9. ~(t < W)
  <2> SUFFICES ASSUME t < W  PROVE FALSE
    OBVIOUS
  <2>1. X(0) >= 0 /\ X(0) < 2 * W
    <3>1. X(0) < 3 * W
      BY <1>1, <1>2
    <3>2. ~(2 * W <= X(0) /\ X(0) < 3 * W)
      BY <1>2, <1>4, <1>6, <1>7
    <3> QED  BY <1>1, <1>2, <3>1, <3>2
  <2>2. 3 * W <= X(2) /\ X(2) < 4 * W
    BY <1>1, <1>2, <2>1
  <2>3. X(2) \in Nat /\ X(2) < s
    BY <1>1, <1>2, <2>2
  <2> QED  BY <1>4, <1>5, <1>6, <2>2, <2>3
<1>10. ~(t < 3 * W)
  <2> SUFFICES ASSUME t < 3 * W  PROVE FALSE
    OBVIOUS
  <2>1. X(0) < 4 * W /\ X(0) >= 3 * W
    <3>1. X(0) < 5 * W /\ X(0) >= 2 * W
      BY <1>1, <1>2, <1>9
    <3>2. ~(2 * W <= X(0) /\ X(0) < 3 * W) /\ ~(4 * W <= X(0) /\ X(0) < 9 * W)
      BY <1>2, <1>4, <1>6, <1>7
    <3> QED  BY <1>1, <1>2, <3>1, <3>2
  <2>2. X(2) < 10 * W /\ X(7) >= 9 * W
    BY <1>1, <1>2, <2>1
  <2> QED  BY <1>8, <2>2
<1>11. t >= 4 * W
  BY <1>1, <1>4, <1>7, <1>10
<1>12. X(7) >= 9 * W /\ X(7) \in Nat
  BY <1>1, <1>2, <1>11
<1>13. X(2) >= 10 * W
  BY <1>1, <1>2, <1>8, <1>12
<1>14. second \in frames /\ X(2) >= s
  <2>1. X(2) \in Nat /\ ~LineHigh(frames, X(2)) /\ X(2) >= 9 * W
    BY <1>1, <1>2, <1>13
  <2> QED  BY <1>4, <1>5, <1>6, <2>1
<1>15. ASSUME NEW x \in Nat, x >= s
       PROVE  /\ x < s + W => ~High(second, x)
              /\ \A k \in 1..3 : k - 1 \in CommandCode[d] /\ s + k * W <= x /\ x < s + (k + 1) * W
                                   => High(second, x)
  <2>1. \A k \in 0..8 : s + k * W <= x /\ x < s + (k + 1) * W
                          => (High(second, x) <=> k - 1 \in CommandCode[d])
    BY <1>3, LevelOfFrame DEF second
  <2>2. s + 0 * W = s /\ s + (0 + 1) * W = s + W /\ 0 - 1 \notin CommandCode[d]
    BY <1>1, <1>3 DEF Byte
  <2>3. x < s + W => ~High(second, x)
    BY <1>15, <2>1, <2>2
  <2>4. \A k \in 1..3 : k \in 0..8
    OBVIOUS
  <2> QED  BY <2>1, <2>3, <2>4
<1>16. X(0) < s
  <2>1. X(0) < s + W
    BY <1>1, <1>2
  <2>2. X(0) \in Nat
    BY <1>2
  <2> QED  BY <1>1, <1>6, <1>7, <1>14, <1>15, <2>1, <2>2
<1>17. PICK k \in 1..3 : k - 1 \in CommandCode[d]
  BY CodesHaveLowBit
<1>18. /\ s + k * W \in Nat /\ s + (k + 1) * W = (s + k * W) + W
       /\ s + W <= s + k * W /\ s + k * W <= s + 3 * W
  BY <1>1, SMTT(30)
<1>19. PICK i \in 2..7 : s + k * W <= X(i) /\ X(i) < (s + k * W) + W
  <2> DEFINE a == s + k * W
  <2>1. X(2) < a + W /\ X(7) >= a
    <3>1. a \in Nat /\ s + W <= a /\ a <= s + 3 * W
      BY <1>18
    <3> HIDE DEF a
    <3> QED  BY <1>1, <1>2, <1>14, <1>16, <3>1
  <2>2. a \in Nat /\ t + 4 * LoopTime < a + BitTime /\ t + 9 * LoopTime >= a
    BY <1>2, <1>18, <2>1
  <2> HIDE DEF a
  <2>3. \E i \in 2..7 : a <= t + (2 + i) * LoopTime /\ t + (2 + i) * LoopTime < a + BitTime
    BY <1>1, <2>2, Lands
  <2> QED  BY <2>3 DEF a, X
<1>20. X(i) \in Nat /\ X(i) >= s /\ X(i) >= 9 * W
  BY <1>1, <1>2, <1>18, <1>19
<1> QED  BY <1>4, <1>6, <1>15, <1>17, <1>18, <1>19, <1>20

\* So it is read as neither Arm nor Fire, whatever follows it.
LEMMA PollsNotMisread ==
  ASSUME ReadBand, NEW c \in {"Status", "Reset"}, NEW d \in Commands \union {None},
         NEW byte \in Misread(c, d)
  PROVE  CommandsOf(byte) \intersect {"Arm", "Fire"} = {}
<1> DEFINE first == Frame(CommandCode[c])
           Follower(s) == [byte |-> CommandCode[d], start |-> s]
<1>1. PICK t, frames :
         /\ t \in 1 .. 9 * BitTime - 1
         /\ ~High(first, t)
         /\ byte = ReadByte(frames, t)
         /\ \/ frames = {first}
            \/ /\ d \in Commands
               /\ \E s \in Nat : s >= 10 * BitTime /\ frames = {first, Follower(s)}
  <2>1. CASE d = None
    BY <2>1 DEF Misread
  <2>2. CASE d # None
    <3>1. PICK t \in 1 .. 9 * BitTime - 1 :
             /\ ~High(first, t)
             /\ byte \in {ReadByte({first, Follower(s)}, t) :
                            s \in 10 * BitTime .. t + 10 * LoopTime}
      BY <2>2 DEF Misread
    <3>2. PICK s \in 10 * BitTime .. t + 10 * LoopTime :
             byte = ReadByte({first, Follower(s)}, t)
      BY <3>1
    <3>3. s \in Nat /\ s >= 10 * BitTime
      BY BitBangAssumption
    <3> QED  BY <2>2, <3>1, <3>2, <3>3
  <2> QED  BY <2>1, <2>2
<1>2. PICK e \in Commands, s \in Nat :
         /\ s >= 10 * BitTime
         /\ frames \in {{first}, {first, [byte |-> CommandCode[e], start |-> s]}}
  <2>1. CASE frames = {first}
    <3>1. "Arm" \in Commands /\ 10 * BitTime \in Nat
      BY BitBangAssumption DEF Commands
    <3> QED  BY <2>1, <3>1
  <2>2. CASE d \in Commands /\ \E s \in Nat : s >= 10 * BitTime /\ frames = {first, Follower(s)}
    BY <2>2
  <2> QED  BY <1>1, <2>1, <2>2
<1>3. \A i \in 0..7 : i \in byte <=> LineHigh(frames, t + (2 + i) * LoopTime)
  BY <1>1 DEF ReadByte
<1>4. ASSUME NEW x \in CommandsOf(byte) \intersect {"Arm", "Fire"}
      PROVE  FALSE
  <2>1. byte \in {{0}, {0, 1}}
    BY <1>4 DEF CommandsOf, CommandCode, Commands
  <2>2. 0 \in byte /\ \A i \in 2..7 : i \notin byte
    BY <2>1
  <2>3. LineHigh(frames, t + 2 * LoopTime)
    <3>1. (2 + 0) * LoopTime = 2 * LoopTime
      BY BitBangAssumption
    <3> QED  BY <1>3, <2>2, <3>1
  <2>4. \E i \in 2..7 : LineHigh(frames, t + (2 + i) * LoopTime)
    <3> HIDE DEF Follower
    <3> QED  BY <1>1, <1>2, <2>3, PollsReadHigh
  <2>5. \A i \in 2..7 : i \in 0..7
    OBVIOUS
  <2> QED  BY <1>3, <2>2, <2>4, <2>5
<1> QED  BY <1>4

\* Whenever the commander sends, and wherever in a frame the task begins to
\* read, a Status or a Reset is never obeyed as Arm or Fire, for every bit and
\* every loop with which bytes are read right at all.
THEOREM PollingHarmless ==
  ASSUME ReadBand
  PROVE  Spec => []PollingIsHarmless
<1>1. Init => PollingIsHarmless
  BY DEF Init, PollingIsHarmless
<1>2. ASSUME TypeOK, PollingIsHarmless, [Next]_vars
      PROVE  PollingIsHarmless'
  <2>1. CASE Obey
    <3>0. PICK byte \in BytesRead : \E c \in CommandsOf(byte) :
             obeyed' = [cmd |-> c, of |-> reading.of]
      BY <2>1 DEF Obey
    <3>1. PICK c \in CommandsOf(byte) : obeyed' = [cmd |-> c, of |-> reading.of]
      BY <3>0
    <3>2. obeyed'.cmd = c /\ obeyed'.of = reading.of
      BY <3>1
    <3>3. pc = "reading" /\ reading.of \in Commands
          /\ reading.next \in Commands \union {None} /\ reading.whole \in BOOLEAN
      BY <1>2, <2>1 DEF Obey, TypeOK
    <3>4. ASSUME reading.of \in {"Status", "Reset"}
          PROVE  c \notin {"Arm", "Fire"}
      <4>1. CASE reading.whole
        <5>1. c = reading.of
          BY <1>2, <3>3, <4>1, ObeyedAsSent, ReadsRightInBand
        <5> QED  BY <3>4, <5>1
      <4>2. CASE ~reading.whole
        <5>1. byte \in {m.byte : m \in {x \in Misreads : x.of = reading.of /\ x.next = reading.next}}
          BY <4>2 DEF BytesRead
        <5>2. PICK m \in Misreads : m.of = reading.of /\ m.next = reading.next /\ byte = m.byte
          BY <5>1
        <5>3. PICK a \in Commands, d \in Commands \union {None} :
                 m \in {[of |-> a, next |-> d, byte |-> b] : b \in Misread(a, d)}
          BY <5>2 DEF Misreads
        <5>4. byte \in Misread(reading.of, reading.next)
          BY <5>2, <5>3
        <5> QED  BY <3>3, <3>4, <5>4, PollsNotMisread
      <4> QED  BY <3>3, <4>1, <4>2
    <3> QED  BY <3>2, <3>4 DEF PollingIsHarmless
  <2>2. CASE UNCHANGED obeyed
    BY <1>2, <2>2 DEF PollingIsHarmless
  <2> QED
    BY <1>2, <2>1, <2>2 DEF Next, TaskStep, Send, FrameEnds, CatchLate, SkipByte, ReplyDone, vars
<1> QED  BY <1>1, <1>2, TypeCorrect, PTL DEF Spec
=============================================================================
