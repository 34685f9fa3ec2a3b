----------------------------- MODULE FaultTask -----------------------------
(***************************************************************************)
(* The fault injector's command interpreter (FaultEngine and               *)
(* fault_task_entry in firmware/src/fault/mod.rs) and its serial link.     *)
(*                                                                         *)
(* The link is half-duplex in effect: the task that writes an answer does  *)
(* not look at the RX line.  It catches a frame at its start bit only if   *)
(* it is listening then.  When it returns to a frame that has begun, it    *)
(* takes the next low bit for a start bit, and reads the rest of that      *)
(* frame, the idle line, and the next frame's first bits as one byte.      *)
(***************************************************************************)
EXTENDS BitBang

CONSTANTS
    CountRange,   \* 2^32: fire_count is a u32, which wraps in a release build
    None

Commands == {"Arm", "Disarm", "Fire", "Status", "Reset"}

Results == {"Armed", "Disarmed", "Fired", "Error", "Completed"}

ASSUME FaultTaskAssumption ==
    /\ CountRange \in Nat \ {0}
    /\ None \notin Commands \union Results \union {"garbled"}

CommandCode == [c \in Commands |->
    CASE c = "Arm"    -> {0}
      [] c = "Disarm" -> {1}
      [] c = "Fire"   -> {0, 1}
      [] c = "Status" -> {2}
      [] c = "Reset"  -> {0, 2}]

ResultCode == [r \in Results |->
    CASE r = "Armed"     -> {0}
      [] r = "Disarmed"  -> {1}
      [] r = "Fired"     -> {0, 1}
      [] r = "Error"     -> {0, 2}
      [] r = "Completed" -> {1, 2}]

VARIABLES
    pc,          \* the task: "listening", "reading" or "replying"
    reading,     \* the frame it reads, and if that frame's start was missed,
                 \* the frame that has begun since
    reply,       \* the answer it writes
    armed, fired, fire_count,
    frame,       \* the frame on the RX line whose start the task has missed
    patient,     \* whether the commander waits for each answer
    awaiting,    \* the command that a patient commander waits for
    obeyed       \* history: the last command obeyed, and the frame it is from

vars == <<pc, reading, reply, armed, fired, fire_count, frame, patient,
          awaiting, obeyed>>

engine == <<armed, fired, fire_count>>

Init ==
    /\ pc = "listening"
    /\ reading = None
    /\ reply = None
    /\ armed = FALSE /\ fired = FALSE /\ fire_count = 0
    /\ frame = None
    /\ patient \in BOOLEAN
    /\ awaiting = None
    /\ obeyed = None

-----------------------------------------------------------------------------
(* The line.                                                               *)

\* The bytes that may be read from the rest of c's frame: t is when the task
\* returns to the line.  Frame d follows (unless it is None) at any time after
\* c's stop bit, and before the read is over.
Misread(c, d) ==
    LET first == Frame(CommandCode[c])
        Follower(s) == [byte |-> CommandCode[d], start |-> s]
        late == {t \in 1 .. 9 * BitTime - 1 : ~High(first, t)}
    IN IF d = None THEN {ReadByte({first}, t) : t \in late}
       ELSE UNION {{ReadByte({first, Follower(s)}, t) : s \in 10 * BitTime .. t + 10 * LoopTime} :
                      t \in late}

Misreads == UNION {{[of |-> c, next |-> d, byte |-> b] : b \in Misread(c, d)} :
                      c \in Commands, d \in Commands \union {None}}

\* The commander sends a command.  A frame lasts longer than a read, so that
\* none begins while another is read from its start, and only one while the
\* rest of another is.
Send(c) ==
    /\ frame = None
    /\ pc = "reading" => ~reading.whole /\ reading.next = None
    /\ patient => awaiting = None
    /\ awaiting' = IF patient THEN c ELSE None
    /\ IF pc = "listening"
       THEN /\ pc' = "reading"
            /\ reading' = [of |-> c, next |-> None, whole |-> TRUE]
            /\ UNCHANGED frame
       ELSE /\ frame' = c
            /\ reading' = IF pc = "reading" THEN [reading EXCEPT !.next = c] ELSE None
            /\ UNCHANGED pc
    /\ UNCHANGED <<reply, engine, patient, obeyed>>

\* A frame that the task has missed ends; a read ends before the next one does.
FrameEnds ==
    /\ frame # None /\ pc # "reading"
    /\ frame' = None
    /\ UNCHANGED <<pc, reading, reply, engine, patient, awaiting, obeyed>>

\* Listening, the task finds the line low in the middle of a frame.  (With a
\* loop shorter than 0.9 bit it could be back once more before the frame is
\* over; it would then read one of the bytes that Misread has already, which
\* takes the task to return at any time.)
CatchLate ==
    /\ pc = "listening" /\ frame # None
    /\ pc' = "reading"
    /\ reading' = [of |-> frame, next |-> None, whole |-> FALSE]
    /\ frame' = None
    /\ UNCHANGED <<reply, engine, patient, awaiting, obeyed>>

-----------------------------------------------------------------------------
(* The engine and its task.                                                *)

HandleCommand(c) ==
    \/ /\ c = "Arm"
       /\ armed' = TRUE /\ fired' = FALSE /\ fire_count' = 0
       /\ reply' = "Armed"
    \/ /\ c = "Disarm"
       /\ armed' = FALSE
       /\ reply' = "Disarmed"
       /\ UNCHANGED <<fired, fire_count>>
    \/ /\ c = "Fire" /\ ~armed
       /\ reply' = "Error"
       /\ UNCHANGED engine
    \/ /\ c = "Fire" /\ armed
       /\ fired' = TRUE /\ fire_count' = (fire_count + 1) % CountRange
       /\ reply' = "Fired"
       /\ UNCHANGED armed
    \/ /\ c = "Status"
       /\ reply' = IF fired THEN "Completed" ELSE IF armed THEN "Armed" ELSE "Disarmed"
       /\ UNCHANGED engine
    \/ /\ c = "Reset"
       /\ armed' = FALSE /\ fired' = FALSE /\ fire_count' = 0
       /\ reply' = "Disarmed"

\* Mutant: only the bits that the codes differ in are looked at.
CommandsOf_LowBits(byte) == {c \in Commands : CommandCode[c] = byte \intersect 0..2}

\* The commands a byte stands for: one, or none.
CommandsOf(byte) == {c \in Commands : CommandCode[c] = byte}

\* What read_byte may return.
BytesRead == IF reading.whole THEN {ReadByte({Frame(CommandCode[reading.of])}, 0)}
             ELSE {m.byte : m \in {x \in Misreads : x.of = reading.of /\ x.next = reading.next}}

\* Mutant: an unknown byte is answered like any other.
SkipByte_Answered ==
    /\ pc = "reading"
    /\ \E byte \in BytesRead : CommandsOf(byte) = {}
    /\ pc' = "replying"
    /\ reading' = None
    /\ UNCHANGED <<reply, engine, frame, patient, awaiting, obeyed>>

\* An unknown byte is skipped without an answer.
SkipByte ==
    /\ pc = "reading"
    /\ \E byte \in BytesRead : CommandsOf(byte) = {}
    /\ pc' = "listening"
    /\ reading' = None
    /\ UNCHANGED <<reply, engine, frame, patient, awaiting, obeyed>>

Obey ==
    /\ pc = "reading"
    /\ \E byte \in BytesRead : \E c \in CommandsOf(byte) :
          /\ HandleCommand(c)
          /\ obeyed' = [cmd |-> c, of |-> reading.of]
    /\ pc' = "replying"
    /\ reading' = None
    /\ UNCHANGED <<frame, patient, awaiting>>

\* The answer has been written, and logged.  (A patient commander's next frame
\* is taken not to begin before: its UART has an answer in the middle of the
\* stop bit, 9.5 bits after the start bit began, and a loop of 0.92 bit has
\* written it after 9.2, which leaves 2.6 us for the log line.)
ReplyDone ==
    /\ pc = "replying"
    /\ pc' = "listening"
    /\ reply' = None
    /\ awaiting' = None
    /\ UNCHANGED <<reading, engine, frame, patient, obeyed>>

TaskStep == SkipByte \/ Obey \/ ReplyDone

Next ==
    \/ \E c \in Commands : Send(c)
    \/ FrameEnds
    \/ CatchLate
    \/ TaskStep

Spec == Init /\ [][Next]_vars

\* The task has the CPU for itself (see Firmware), and never waits while it
\* reads or writes a byte.
FairSpec == Spec /\ WF_vars(TaskStep)

-----------------------------------------------------------------------------
(* Properties.                                                             *)

\* The types of the task, its engine and the line, and that an answer is
\* being written only to a command.
TypeOK ==
    /\ pc \in {"listening", "reading", "replying"}
    /\ IF pc = "reading"
       THEN reading \in [of : Commands, next : Commands \union {None}, whole : BOOLEAN]
       ELSE reading = None
    /\ IF pc = "replying" THEN reply \in Results ELSE reply = None
    /\ armed \in BOOLEAN /\ fired \in BOOLEAN
    /\ fire_count \in 0 .. CountRange - 1
    /\ frame \in Commands \union {None}
    /\ patient \in BOOLEAN
    /\ awaiting \in Commands \union {None}
    /\ obeyed \in [cmd : Commands, of : Commands] \union {None}

Written == INSTANCE FaultService WITH request <- awaiting, answer <- reply

\* For a patient commander the engine and the way in are the service that
\* FaultService states: no command lost, none obeyed twice or taken for
\* another, and the answer written is the one to the last command.
ObeysPatient ==
    /\ Written!Init
    /\ [][patient => Written!Next \/ UNCHANGED Written!vars]_vars

\* What the commander's UART receives when answer r, or none, is written.
Heard(r) ==
    LET heard == {q \in Results : ResultCode[q] = Received(ResultCode[r])} IN
    IF r = None THEN None
    ELSE IF heard = {} THEN "garbled" ELSE CHOOSE q \in heard : TRUE

Service == INSTANCE FaultService WITH request <- awaiting, answer <- Heard(reply)

\* The same of what the commander hears, as "8N1, 115200" promises it: each
\* answer arrives as it was written.
ServesPatient ==
    /\ Service!Init
    /\ [][patient => Service!Next \/ UNCHANGED Service!vars]_vars

\* A patient commander gets an answer to every command, whatever it hears of
\* it.
PatientAnswered == (patient /\ awaiting # None) ~> (awaiting = None)

\* However hastily a commander sends, a Status or a Reset is never taken for
\* a command that arms or fires.  (A Disarm may be: see the README.)
PollingIsHarmless ==
    obeyed # None /\ obeyed.of \in {"Status", "Reset"} => obeyed.cmd \notin {"Arm", "Fire"}
=============================================================================
