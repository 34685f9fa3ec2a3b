---------------------------- MODULE BoardProofs ----------------------------
(***************************************************************************)
(* What TLAPS proves of the board: of boot and executor in every build,    *)
(* and of the capture for every input, tick and width of the counter.      *)
(***************************************************************************)
EXTENDS Board, ModArith, TLAPS

-----------------------------------------------------------------------------
(* Where a task is.                                                        *)

\* The conjuncts of TypeOK on the executor.
Places ==
    /\ cpu \in Tasks \union {"none"}
    /\ queue \union batch \union waiting \subseteq Tasks
    /\ queue \intersect (batch \union waiting) = {} /\ batch \intersect waiting = {}
    /\ cpu \notin batch \union waiting \union (queue \ Awaiting)

\* The others.
Types ==
    /\ features \in Builds
    /\ boot \in {"mpu", "clocks", "flash", "spawn", "done", "halted", "no features"}
                \union DOMAIN CheckAfter
    /\ clocks \in BOOLEAN
    /\ passed \subseteq DOMAIN CheckAfter

\* The CPU may be idle: no task is called none.
LEMMA NoneIsNoTask == "none" \notin Tasks
  BY DEF Tasks

-----------------------------------------------------------------------------
(* The boot sequence.                                                      *)

Over == {"done", "no features"}

\* What main has done by each stage, and that it is alone until it spawns.
Staged ==
    /\ boot \notin {"mpu", "clocks"} => clocks
    /\ boot \in {"canary check", "ram check", "flash", "spawn"} \union Over
         => "clock check" \in passed
    /\ boot \in {"ram check", "flash", "spawn"} \union Over => "canary check" \in passed
    /\ boot \in {"flash", "spawn"} \union Over => "ram check" \in passed
    /\ boot \notin Over => Spawned \subseteq {"main", "none"}

IInv == Types /\ Places /\ Staged

Checks == {"clock check", "canary check", "ram check"}

\* The three health checks, in their order.
LEMMA CheckOrder ==
    /\ DOMAIN CheckAfter = Checks
    /\ CheckAfter["clock check"] = "canary check"
    /\ CheckAfter["canary check"] = "ram check"
    /\ CheckAfter["ram check"] = "flash"
  BY DEF CheckAfter, Checks

-----------------------------------------------------------------------------
(* Every step keeps the invariant.                                         *)

LEMMA InitIInv == Init => IInv
<1> SUFFICES ASSUME Init  PROVE IInv
  OBVIOUS
<1>1. Types
  BY DEF Init, Types
<1>2. Places
  BY NoneIsNoTask DEF Init, Places, Tasks
<1>3. Staged
  BY DEF Init, Staged, Spawned, Over
<1> QED  BY <1>1, <1>2, <1>3 DEF IInv

\* A step that moves tasks about, and leaves main where it is, keeps the
\* invariant if it keeps the tasks in their places and adds none.
LEMMA MovingStep ==
    ASSUME IInv, UNCHANGED <<features, boot, clocks, passed>>, Places',
           Spawned' \ {"none"} = Spawned \ {"none"}
    PROVE  IInv'
<1>1. Types'
  BY DEF IInv, Types
<1>2. Staged'
  BY DEF IInv, Staged
<1> QED  BY <1>1, <1>2 DEF IInv

LEMMA TakeQueueStep == ASSUME IInv, TakeQueue  PROVE IInv'
<1>1. Places'
  BY NoneIsNoTask DEF IInv, Places, TakeQueue
<1>2. Spawned' = Spawned
  BY DEF TakeQueue, Spawned
<1> QED  BY <1>1, <1>2, MovingStep DEF TakeQueue

LEMMA PollTaskStep == ASSUME IInv, NEW u \in Tasks, PollTask(u)  PROVE IInv'
<1>1. Places'
  BY DEF IInv, Places, PollTask
<1>2. Spawned' \ {"none"} = Spawned \ {"none"}
  BY DEF PollTask, Spawned
<1> QED  BY <1>1, <1>2, MovingStep DEF PollTask

\* A task that suspends is on the queue, if it has been woken, or waits.
LEMMA SuspendStep == ASSUME IInv, NEW u \in Tasks, Suspend(u)  PROVE IInv'
<1>1. Places'
  BY NoneIsNoTask DEF IInv, Places, Suspend
<1>2. Spawned' \ {"none"} = Spawned \ {"none"}
  BY NoneIsNoTask DEF Suspend, Spawned
<1> QED  BY <1>1, <1>2, MovingStep DEF Suspend

\* A wake puts no task on the queue that is there, or taken from it, already.
LEMMA WakeStep == ASSUME IInv, NEW u \in Tasks, Wake(u)  PROVE IInv'
<1>1. Places'
  BY DEF IInv, Places, Wake
<1>2. Spawned' = Spawned
  BY DEF Wake, Spawned
<1> QED  BY <1>1, <1>2, MovingStep DEF Wake

\* The stages of main in which it keeps the CPU and spawns nothing.
LEMMA StageStep ==
    ASSUME IInv, UNCHANGED <<features, queue, batch, cpu, waiting>>, Staged', Types'
    PROVE  IInv'
<1>1. Places'
  BY DEF IInv, Places
<1> QED  BY <1>1 DEF IInv

LEMMA MainStepStep == ASSUME IInv, MainStep  PROVE IInv'
<1>1. CASE ConfigureMpu
  BY <1>1, StageStep DEF ConfigureMpu, InMain, IInv, Types, Staged, Spawned, Over
<1>2. CASE InitClocks
  BY <1>2, StageStep, CheckOrder
  DEF InitClocks, InMain, IInv, Types, Staged, Spawned, Over, Checks
<1>3. CASE SetFlashWaitStates
  BY <1>3, StageStep DEF SetFlashWaitStates, InMain, IInv, Types, Staged, Spawned, Over
<1>4. ASSUME NEW c \in DOMAIN CheckAfter, NEW ok \in BOOLEAN, HealthCheck(c, ok)
      PROVE  IInv'
  <2>1. c \in Checks /\ boot = c /\ cpu = "main"
    BY <1>4, CheckOrder DEF HealthCheck, InMain
  <2>2. Types'
    BY <1>4, <2>1, CheckOrder DEF HealthCheck, IInv, Types, Checks
  <2>3. Spawned' = Spawned
    BY <1>4 DEF HealthCheck, Spawned
  <2>4. Staged'
    <3>1. /\ clocks /\ clocks' = clocks
          /\ Spawned \subseteq {"main", "none"}
          /\ boot = "canary check" => "clock check" \in passed
          /\ boot = "ram check" => "clock check" \in passed /\ "canary check" \in passed
      BY <1>4, <2>1 DEF HealthCheck, IInv, Staged, Over, Checks
    <3>2. CASE ~ok
      <4>1. boot' = "halted"
        BY <1>4, <3>2 DEF HealthCheck
      <4> QED  BY <2>3, <3>1, <4>1 DEF Staged, Over
    <3>3. CASE ok
      <4>1. boot' = CheckAfter[c] /\ passed' = passed \union {c}
        BY <1>4, <3>3 DEF HealthCheck
      <4> QED  BY <2>1, <2>3, <3>1, <4>1, CheckOrder DEF Staged, Over, Checks
    <3> QED  BY <3>2, <3>3
  <2> QED  BY <1>4, <2>2, <2>4, StageStep DEF HealthCheck
<1>5. CASE SpawnTasks
  <2>1. boot = "spawn" /\ cpu = "main"
    BY <1>5 DEF SpawnTasks, InMain
  <2>2. queue = {} /\ batch = {} /\ waiting = {}
    <3>1. Spawned \subseteq {"main", "none"}
      BY <2>1 DEF IInv, Staged, Over
    <3> QED  BY <2>1, <3>1, NoneIsNoTask DEF IInv, Places, Spawned, Awaiting
  <2>3. \A f \in features : TasksOf(f) \subseteq Tasks \ {"main"}
    <3>1. features \subseteq Features
      BY BuildsAssumption DEF IInv, Types
    <3>2. ASSUME NEW f \in Features  PROVE TasksOf(f) \subseteq Tasks \ {"main"}
      BY DEF TasksOf, Tasks, Features
    <3> QED  BY <3>1, <3>2
  <2>4. /\ queue' \subseteq Tasks \ {"main"} /\ batch' = {} /\ waiting' = {}
        /\ cpu' \in {"main", "none"} /\ boot' \in Over
        /\ features' = features /\ clocks' = clocks /\ passed' = passed
    <3>1. queue' = UNION {TasksOf(f) : f \in features}
      BY <1>5, <2>2 DEF SpawnTasks
    <3>2. queue' \subseteq Tasks \ {"main"}
      BY <2>3, <3>1
    <3>3. cpu' \in {"main", "none"} /\ boot' \in Over
      BY <1>5, <2>1 DEF SpawnTasks, Over
    <3> QED  BY <1>5, <2>2, <3>2, <3>3 DEF SpawnTasks
  <2>5. Types'
    BY <2>4 DEF IInv, Types, Over
  <2>6. Places'
    BY <2>4, NoneIsNoTask DEF Places, Tasks
  <2>7. Staged'
    BY <2>1, <2>4 DEF IInv, Staged, Over
  <2> QED  BY <2>5, <2>6, <2>7 DEF IInv
<1> QED  BY <1>1, <1>2, <1>3, <1>4, <1>5 DEF MainStep

LEMMA NextIInv == IInv /\ [Next]_vars => IInv'
<1> SUFFICES ASSUME IInv, [Next]_vars  PROVE IInv'
  OBVIOUS
<1>1. CASE CpuStep
  BY <1>1, TakeQueueStep, PollTaskStep, SuspendStep, MainStepStep DEF CpuStep
<1>2. ASSUME NEW t \in Tasks, Wake(t)  PROVE IInv'
  BY <1>2, WakeStep
<1>3. CASE UNCHANGED vars
  <2>1. Spawned' = Spawned
    BY <1>3 DEF vars, Spawned
  <2> QED  BY <1>3, <2>1 DEF vars, IInv, Types, Places, Staged
<1> QED  BY <1>1, <1>2, <1>3 DEF Next

\* The board's steps are the firmware's, or leave its variables alone.
LEMMA BoardStepIsStep == [BoardNext]_boardVars => [Next]_vars
<1> SUFFICES ASSUME [BoardNext]_boardVars  PROVE [Next]_vars
  OBVIOUS
<1>1. CASE BoardCpuStep
  BY <1>1 DEF BoardCpuStep, ProgramMpu, CaptureReads, Proceed, Next
<1>2. ASSUME NEW t \in Tasks, BoardWake(t)  PROVE [Next]_vars
  BY <1>2 DEF BoardWake, Next
<1>3. CASE BoardEdge
  BY <1>3 DEF BoardEdge
<1>4. CASE UNCHANGED boardVars
  BY <1>4 DEF boardVars
<1> QED  BY <1>1, <1>2, <1>3, <1>4 DEF BoardNext

\* With mpu::init write by write and the capture read by read, the board
\* still does what Firmware says of main and the executor.
THEOREM BoardRunsFirmware == BoardSpec => Spec
<1>1. BoardInit => Init
  BY DEF BoardInit
<1> QED  BY <1>1, BoardStepIsStep, PTL DEF BoardSpec, Spec

\* The invariant holds on the board.
LEMMA Inductive == BoardSpec => []IInv
<1>1. BoardInit => IInv
  BY InitIInv DEF BoardInit
<1>2. IInv /\ [BoardNext]_boardVars => IInv'
  BY NextIInv, BoardStepIsStep
<1> QED  BY <1>1, <1>2, PTL DEF BoardSpec

\* Executor and boot keep their types, and no task is ever both suspended and
\* on Embassy's intrusive run queue, or on it twice, in every build.
THEOREM TypeCorrect == BoardSpec => []TypeOK
<1>1. IInv => TypeOK
  BY DEF IInv, Types, Places, TypeOK
<1> QED  BY <1>1, Inductive, PTL

\* Whatever features are built in, no peripheral task is spawned unless all
\* three health checks of main have passed and the clock tree runs.
THEOREM HealthyFirst == BoardSpec => []TasksOnlyIfHealthy
<1>1. IInv => TasksOnlyIfHealthy
  <2> SUFFICES ASSUME IInv, Spawned \ {"main", "none"} # {}
               PROVE  clocks /\ passed = DOMAIN CheckAfter
    BY DEF TasksOnlyIfHealthy
  <2>1. boot \in Over
    BY DEF IInv, Staged
  <2>2. clocks /\ Checks \subseteq passed
    BY <2>1 DEF IInv, Staged, Over, Checks
  <2>3. passed \subseteq Checks
    BY CheckOrder DEF IInv, Types
  <2> QED  BY <2>2, <2>3, CheckOrder
<1> QED  BY <1>1, Inductive, PTL

-----------------------------------------------------------------------------
(* The capture.                                                            *)

Cycles == {c \in [period : Nat, width : Nat] : c.width <= c.period}

\* A latch of a cycle that was timed whole holds its length.
Latched ==
    /\ cycle \in Cycles
    /\ timed1 # {} \/ timed2 # {} => synced
    /\ \A c \in timed1 : c \in Cycles /\ ccr1 = Ticks(c.period)
    /\ \A c \in timed2 : c \in Cycles /\ ccr2 = Ticks(c.width)

Periods(cycles) == {Ticks(c.period) : c \in cycles}
Widths(cycles) == {Ticks(c.width) : c \in cycles}
Duties(cycles) == {Duty(p, w) : p \in Periods(cycles), w \in Widths(cycles)}

\* What the latches hold is always among what has been seen.
Followed ==
    /\ timed1 # {} /\ timed2 # {}
    /\ timed1 \union timed2 \subseteq seen /\ seen \subseteq Cycles

\* What has been read was in a latch when it was read, and is of a cycle
\* that has been seen since.
ReadSoFar ==
    /\ period_ticks \in Periods(seen)
    /\ rd # "width" => width_ticks \in Widths(seen)
    /\ rd = "duty width" => duty_period \in Periods(seen) /\ duty_period # 0
    /\ rd = "report" => duty_cycle_pct \in Duties(seen)

CInv ==
    /\ Latched
    /\ rd # "report" => duty_cycle_pct = 0
    /\ rd \in {"off", "period"} => seen = {}
    /\ seen # {} => Followed /\ ReadSoFar

\* Whatever is connected is a cycle.
LEMMA InputsAreCycles == Inputs \subseteq Cycles
  BY CaptureAssumption DEF Cycles

\* What was read of one of these cycles was read of one of more cycles.
LEMMA MoreSeen ==
    ASSUME ReadSoFar, UNCHANGED readVars, seen \subseteq seen'
    PROVE  ReadSoFar'
<1>1. /\ Periods(seen) \subseteq Periods(seen') /\ Widths(seen) \subseteq Widths(seen')
      /\ Duties(seen) \subseteq Duties(seen')
  BY DEF Periods, Widths, Duties
<1> QED  BY <1>1 DEF ReadSoFar, readVars

\* An edge latches a whole length, if the count in progress was of one.
LEMMA EdgeStep == ASSUME CInv, Edge  PROVE CInv'
<1>1. /\ UNCHANGED readVars
      /\ seen' = IF seen = {} THEN {} ELSE seen \union (IF synced THEN {cycle} ELSE {})
      /\ cycle' \in Cycles
      /\ timed1' = timed1 \/ timed1' = IF synced THEN {cycle} ELSE {}
      /\ timed2' = timed2 \/ timed2' = IF synced THEN {cycle} ELSE {}
      /\ synced => synced'
  BY InputsAreCycles DEF Edge, FallingEdge, RisingEdge, Timed, Seen, CInv, Latched
<1>2. Latched'
  <2>1. CASE FallingEdge
    <3>1. /\ ccr1' = ccr1 /\ timed1' = timed1 /\ synced' = synced
          /\ timed2' = IF synced THEN {cycle} ELSE {}
          /\ synced => ccr2' = Ticks(cycle.width)
      BY <2>1 DEF FallingEdge, Timed, Counts
    <3> QED  BY <1>1, <3>1 DEF CInv, Latched
  <2>2. ASSUME NEW next \in Inputs, RisingEdge(next)  PROVE Latched'
    <3>1. /\ ccr2' = ccr2 /\ timed2' = timed2 /\ synced' = TRUE
          /\ timed1' = IF synced THEN {cycle} ELSE {}
          /\ synced => ccr1' = Ticks(cycle.period)
      BY <2>2 DEF RisingEdge, Timed, Counts
    <3> QED  BY <1>1, <3>1 DEF CInv, Latched
  <2> QED  BY <2>1, <2>2 DEF Edge
<1>3. ASSUME seen # {}  PROVE Followed' /\ ReadSoFar'
  <2>1. Followed /\ ReadSoFar /\ synced /\ cycle \in Cycles
    BY <1>3 DEF CInv, Followed, Latched
  <2>2. seen' = seen \union {cycle}
    BY <1>1, <1>3, <2>1
  <2>3. Followed'
    BY <1>1, <2>1, <2>2 DEF Followed
  <2> QED  BY <1>1, <2>1, <2>2, <2>3, MoreSeen
<1>4. seen = {} => seen' = {}
  BY <1>1
<1> QED  BY <1>1, <1>2, <1>3, <1>4 DEF CInv, readVars

LEMMA SetUpStep == ASSUME CInv, SetUp  PROVE CInv'
<1>1. /\ cycle' \in Cycles /\ seen = {} /\ seen' = {} /\ rd' = "period" /\ rd = "off"
      /\ UNCHANGED <<synced, timed1, timed2, ccr1, ccr2, duty_cycle_pct>>
  BY InputsAreCycles DEF SetUp, CInv
<1>2. Latched'
  BY <1>1 DEF CInv, Latched
<1> QED  BY <1>1, <1>2 DEF CInv

LEMMA ReportedStep == ASSUME CInv, Reported  PROVE CInv'
  BY DEF CInv, Latched, Reported, timerVars

LEMMA ReadStep == ASSUME CInv, Read  PROVE CInv'
<1>1. UNCHANGED timerVars
  BY DEF Read, ReadPeriod, ReadWidth, ReadDutyPeriod, ReadDutyWidth
<1>2. Latched'
  BY <1>1 DEF CInv, Latched, timerVars
<1>3. ASSUME Followed
      PROVE  Followed /\ ccr1 \in Periods(seen) /\ ccr2 \in Widths(seen)
  BY <1>3 DEF Followed, CInv, Latched, Periods, Widths
<1>4. CASE ReadPeriod
  <2>1. /\ seen' = IF timed1 # {} /\ timed2 # {} THEN timed1 \union timed2 ELSE {}
        /\ rd = "period" /\ rd' = "width" /\ period_ticks' = ccr1
        /\ duty_cycle_pct' = duty_cycle_pct
    BY <1>4 DEF ReadPeriod
  <2>2. ASSUME seen' # {}  PROVE Followed' /\ ReadSoFar'
    <3>1. timed1 # {} /\ timed2 # {} /\ seen' = timed1 \union timed2
      BY <2>1, <2>2
    <3>2. Followed'
      BY <1>1, <3>1 DEF Followed, CInv, Latched, timerVars
    <3>3. ccr1 \in Periods(seen')
      BY <3>1 DEF Periods, CInv, Latched
    <3> QED  BY <2>1, <3>2, <3>3 DEF ReadSoFar
  <2> QED  BY <1>2, <2>1, <2>2 DEF CInv
<1>5. ASSUME UNCHANGED seen, seen # {}
      PROVE  Followed /\ Followed' /\ ReadSoFar
  BY <1>1, <1>5 DEF CInv, Followed, timerVars
<1>6. CASE ReadWidth
  <2>1. /\ seen' = seen /\ rd = "width" /\ rd' = "duty period" /\ width_ticks' = ccr2
        /\ UNCHANGED <<period_ticks, duty_cycle_pct>>
    BY <1>6 DEF ReadWidth
  <2>2. ASSUME seen # {}  PROVE Followed' /\ ReadSoFar'
    BY <1>3, <1>5, <2>1, <2>2 DEF ReadSoFar
  <2> QED  BY <1>2, <2>1, <2>2 DEF CInv
<1>7. CASE ReadDutyPeriod
  <2>1. /\ seen' = seen /\ rd = "duty period" /\ duty_period' = ccr1
        /\ rd' = IF ccr1 = 0 THEN "report" ELSE "duty width"
        /\ UNCHANGED <<period_ticks, width_ticks, duty_cycle_pct>>
    BY <1>7 DEF ReadDutyPeriod
  <2>2. ASSUME seen # {}  PROVE Followed' /\ ReadSoFar'
    <3>1. Followed /\ Followed' /\ ReadSoFar /\ ccr1 \in Periods(seen) /\ ccr2 \in Widths(seen)
      BY <1>3, <1>5, <2>1, <2>2
    <3>2. ccr1 = 0 => 0 \in Duties(seen)
      <4>1. Duty(0, ccr2) = 0
        BY DEF Duty
      <4> QED  BY <3>1, <4>1 DEF Duties
    <3>3. duty_cycle_pct = 0
      BY <2>1 DEF CInv
    <3> QED  BY <2>1, <3>1, <3>2, <3>3 DEF ReadSoFar
  <2> QED  BY <1>2, <2>1, <2>2 DEF CInv
<1>8. CASE ReadDutyWidth
  <2>1. /\ seen' = seen /\ rd = "duty width" /\ rd' = "report"
        /\ duty_cycle_pct' = (100 * ccr2) \div duty_period
        /\ UNCHANGED <<period_ticks, width_ticks>>
    BY <1>8 DEF ReadDutyWidth
  <2>2. ASSUME seen # {}  PROVE Followed' /\ ReadSoFar'
    <3>1. /\ Followed /\ Followed' /\ ReadSoFar /\ ccr2 \in Widths(seen)
          /\ duty_period \in Periods(seen) /\ duty_period # 0
      BY <1>3, <1>5, <2>1, <2>2 DEF ReadSoFar
    <3>2. Duty(duty_period, ccr2) = duty_cycle_pct'
      BY <2>1, <3>1 DEF Duty
    <3>3. Duty(duty_period, ccr2) \in Duties(seen)
      BY <3>1 DEF Duties
    <3> QED  BY <2>1, <3>1, <3>2, <3>3 DEF ReadSoFar
  <2> QED  BY <1>2, <2>1, <2>2 DEF CInv
<1> QED  BY <1>4, <1>6, <1>7, <1>8 DEF Read

LEMMA InitCInv == CaptureInit => CInv
<1> SUFFICES ASSUME CaptureInit  PROVE CInv
  OBVIOUS
<1>1. cycle \in Cycles
  <2>1. /\ [period |-> 0, width |-> 0] \in [period : Nat, width : Nat]
        /\ [period |-> 0, width |-> 0].width = 0 /\ [period |-> 0, width |-> 0].period = 0
    OBVIOUS
  <2> QED  BY <2>1 DEF CaptureInit, Cycles
<1> QED  BY <1>1 DEF CaptureInit, CInv, Latched

LEMMA BoardCInv == CInv /\ [BoardNext]_boardVars => CInv'
<1> SUFFICES ASSUME CInv, [BoardNext]_boardVars  PROVE CInv'
  OBVIOUS
<1>1. CASE UNCHANGED captureVars
  <2>1. Latched'
    BY <1>1 DEF captureVars, timerVars, CInv, Latched
  <2>2. Followed => Followed'
    BY <1>1 DEF captureVars, timerVars, Followed
  <2>3. ReadSoFar => ReadSoFar'
    BY <1>1, MoreSeen DEF captureVars
  <2> QED  BY <1>1, <2>1, <2>2, <2>3 DEF captureVars, readVars, CInv
<1>2. UNCHANGED captureVars \/ Edge \/ SetUp \/ Reported \/ Read
  <2>1. CASE BoardCpuStep
    BY <2>1 DEF BoardCpuStep, ProgramMpu, CaptureReads, Proceed
  <2>2. ASSUME NEW t \in Tasks, BoardWake(t)  PROVE UNCHANGED captureVars
    BY <2>2 DEF BoardWake
  <2>3. CASE BoardEdge
    BY <2>3 DEF BoardEdge
  <2>4. CASE UNCHANGED boardVars
    BY <2>4 DEF boardVars
  <2> QED  BY <2>1, <2>2, <2>3, <2>4 DEF BoardNext
<1> QED  BY <1>1, <1>2, EdgeStep, SetUpStep, ReportedStep, ReadStep

\* Ticks measures what is shorter than a round of the counter.
LEMMA TicksMeasure ==
    ASSUME NEW len \in Nat, len < CntRange * TickLen
    PROVE  Ticks(len) = len \div TickLen /\ Measures(Ticks(len), len)
<1> DEFINE q == len \div TickLen
           r == len % TickLen
<1>1. q \in Int /\ r \in 0..TickLen-1 /\ len = TickLen * q + r
  BY CaptureAssumption, DivMod
<1> HIDE DEF q, r
<1>2. TickLen \in Nat \ {0} /\ CntRange \in Nat \ {0}
  BY CaptureAssumption
<1>3. q >= 0
  <2>1. SUFFICES ASSUME 0 - q >= 1  PROVE FALSE
    BY <1>1
  <2>2. TickLen * (0 - q) >= TickLen /\ TickLen * (0 - q) = TickLen * 0 - TickLen * q
        /\ TickLen * 0 = 0 /\ TickLen * q \in Int
    BY <1>1, <1>2, <2>1, MulMono, MulDistributes
  <2> QED  BY <1>1, <1>2, <2>2
<1>4. q < CntRange
  <2>1. SUFFICES ASSUME q - CntRange >= 0  PROVE FALSE
    BY <1>1, <1>2
  <2>2. q - CntRange = 0 \/ TickLen * (q - CntRange) >= TickLen
    BY <1>1, <1>2, <2>1, MulMono
  <2>3. /\ TickLen * (q - CntRange) = TickLen * q - TickLen * CntRange
        /\ TickLen * q \in Int /\ TickLen * CntRange \in Int /\ TickLen * 0 = 0
        /\ TickLen * CntRange = CntRange * TickLen
    BY <1>1, <1>2, MulDistributes
  <2> QED  BY <1>1, <1>2, <2>2, <2>3
<1>5. Ticks(len) = q
  <2>1. q \in 0..CntRange-1
    BY <1>1, <1>2, <1>3, <1>4
  <2>2. q % CntRange = q
    BY <1>2, <2>1, ModSmall
  <2> QED  BY <2>2 DEF Ticks, q
<1>6. q * TickLen <= len /\ len < (q + 1) * TickLen
  <2>1. /\ TickLen * (q + 1) = TickLen * q + TickLen * 1 /\ TickLen * 1 = TickLen
        /\ TickLen * q \in Int /\ q * TickLen = TickLen * q
        /\ (q + 1) * TickLen = TickLen * (q + 1)
    BY <1>1, <1>2, MulDistributes
  <2> QED  BY <1>1, <1>2, <2>1
<1>7. q = len \div TickLen
  BY DEF q
<1> QED  BY <1>5, <1>6, <1>7 DEF Measures

\* Although the latches are read one after the other while TIM3 captures, no
\* figure reported is of anything but inputs that they have held since the
\* round's first read, and each is right to a tick: for all inputs, every
\* length of a tick and every width of the counter.
THEOREM SeenInputsReported == BoardSpec => []ReportsInputsSeen
<1>1. CInv => ReportsInputsSeen
  <2> SUFFICES ASSUME CInv, rd = "report", seen # {},
                      \A c \in seen : c.period < CntRange * TickLen
               PROVE  /\ \E c \in seen : Measures(period_ticks, c.period)
                      /\ \E c \in seen : Measures(width_ticks, c.width)
                      /\ \E c, d \in seen :
                            duty_cycle_pct = Duty(c.period \div TickLen, d.width \div TickLen)
    BY DEF ReportsInputsSeen
  <2>1. /\ seen \subseteq Cycles
        /\ period_ticks \in Periods(seen) /\ width_ticks \in Widths(seen)
        /\ duty_cycle_pct \in Duties(seen)
    BY DEF CInv, Followed, ReadSoFar
  <2>2. ASSUME NEW c \in seen
        PROVE  /\ Ticks(c.period) = c.period \div TickLen /\ Measures(Ticks(c.period), c.period)
               /\ Ticks(c.width) = c.width \div TickLen /\ Measures(Ticks(c.width), c.width)
    <3>1. c.period \in Nat /\ c.width \in Nat /\ c.width <= c.period
      BY <2>1 DEF Cycles
    <3>2. c.period < CntRange * TickLen /\ c.width < CntRange * TickLen
      <4>1. CntRange * TickLen \in Nat
        BY CaptureAssumption, MulDistributes
      <4> QED  BY <3>1, <4>1
    <3> QED  BY <3>1, <3>2, TicksMeasure
  <2>3. PICK c \in seen : period_ticks = Ticks(c.period)
    BY <2>1 DEF Periods
  <2>4. PICK d \in seen : width_ticks = Ticks(d.width)
    BY <2>1 DEF Widths
  <2>5. PICK e \in seen, f \in seen : duty_cycle_pct = Duty(Ticks(e.period), Ticks(f.width))
    BY <2>1 DEF Duties, Periods, Widths
  <2>6. duty_cycle_pct = Duty(e.period \div TickLen, f.width \div TickLen)
    BY <2>2, <2>5
  <2> QED  BY <2>2, <2>3, <2>4, <2>6
<1>2. BoardInit => CInv
  BY InitCInv DEF BoardInit
<1> QED  BY <1>1, <1>2, BoardCInv, PTL DEF BoardSpec

-----------------------------------------------------------------------------
(* The memory protection unit.                                             *)

Settings == [on : BOOLEAN, size : 0..31, ap : {"none", "read", "full"},
             xn : BOOLEAN, mem : {"normal", "device"}]

At(base, rasr) == [base |-> base, rasr |-> rasr]
On(size, ap, xn, mem) == [on |-> TRUE, size |-> size, ap |-> ap, xn |-> xn, mem |-> mem]

\* What init is to make of its four regions.
Planned(n) ==
    CASE n = 0 -> At(Flash, On(18, "read", FALSE, "normal"))
      [] n = 1 -> At(Sram, On(16, "full", TRUE, "normal"))
      [] n = 2 -> At(Peripherals, On(28, "full", TRUE, "device"))
      [] n = 3 -> At(Guard, On(7, "none", TRUE, "normal"))

\* The unit's registers as a boot loader may leave them: anything, but for
\* the four regions that init does not touch, which are off.
Registers ==
    /\ region \in [Regions -> [base : Nat, rasr : Settings]]
    /\ \A n \in 4..7 : ~region[n].rasr.on

AnyRegisters == Registers /\ written = 0

\* How far init has come, and what it has made of the registers by then.  The
\* unit is off from its first write to its last; a region is selected before
\* its base is written, and its base before its attributes.
Progress ==
    /\ written \in 0..14
    /\ written \in 1..13 => ctrl = {}
    /\ written = 14 => ctrl = {"ENABLE", "PRIVDEFENA"}
    /\ \A n \in 0..3 :
        /\ written \in 3*n+2..3*n+4 => rnr = n
        /\ written >= 3*n+3 => region[n].base = Planned(n).base
        /\ written >= 3*n+4 => region[n].rasr = Planned(n).rasr

MpuInv == Registers /\ Progress

\* The four regions' bases and settings, one by one.
LEMMA PlannedAre ==
    /\ Planned(0).base = Flash       /\ Planned(0).rasr = On(18, "read", FALSE, "normal")
    /\ Planned(1).base = Sram        /\ Planned(1).rasr = On(16, "full", TRUE, "normal")
    /\ Planned(2).base = Peripherals /\ Planned(2).rasr = On(28, "full", TRUE, "device")
    /\ Planned(3).base = Guard       /\ Planned(3).rasr = On(7, "none", TRUE, "normal")
<1>1. \A b, r : At(b, r).base = b /\ At(b, r).rasr = r
  BY DEF At
<1>2. Planned(0) = At(Flash, On(18, "read", FALSE, "normal"))
  BY DEF Planned
<1>3. Planned(1) = At(Sram, On(16, "full", TRUE, "normal"))
  BY DEF Planned
<1>4. Planned(2) = At(Peripherals, On(28, "full", TRUE, "device"))
  BY DEF Planned
<1>5. Planned(3) = At(Guard, On(7, "none", TRUE, "normal"))
  BY DEF Planned
<1>6. Planned(0).base = Flash /\ Planned(0).rasr = On(18, "read", FALSE, "normal")
  BY <1>1, <1>2, Zenon
<1>7. Planned(1).base = Sram /\ Planned(1).rasr = On(16, "full", TRUE, "normal")
  BY <1>1, <1>3, Zenon
<1>8. Planned(2).base = Peripherals /\ Planned(2).rasr = On(28, "full", TRUE, "device")
  BY <1>1, <1>4, Zenon
<1>9. Planned(3).base = Guard /\ Planned(3).rasr = On(7, "none", TRUE, "normal")
  BY <1>1, <1>5, Zenon
<1> QED  BY <1>6, <1>7, <1>8, <1>9, Zenon

\* init's fourteen writes: the unit off, three for each region, the unit on.
LEMMA WritesAre ==
    /\ Len(Writes) = 14
    /\ Writes[1] = Write("CTRL", {})
    /\ Writes[14] = Write("CTRL", {"ENABLE", "PRIVDEFENA"})
    /\ \A n \in 0..3 : /\ Writes[3*n+2] = Write("RNR", n)
                       /\ Writes[3*n+3] = Write("RBAR", Planned(n).base)
                       /\ Writes[3*n+4] = Write("RASR", Planned(n).rasr)
<1>1. /\ Len(Writes) = 14
      /\ Writes[1] = Write("CTRL", {})
      /\ Writes[14] = Write("CTRL", {"ENABLE", "PRIVDEFENA"})
  BY DEF Writes, ConfigureRegion
<1>2. SizeField(19) = 18 /\ SizeField(17) = 16 /\ SizeField(29) = 28 /\ SizeField(8) = 7
  BY DEF SizeField
<1>3. /\ Writes[2] = Write("RNR", 0) /\ Writes[3] = Write("RBAR", Planned(0).base)
      /\ Writes[4] = Write("RASR", Planned(0).rasr)
  <2>1. /\ Writes[2] = Write("RNR", 0) /\ Writes[3] = Write("RBAR", Flash)
        /\ Writes[4] = Write("RASR", On(SizeField(19), "read", FALSE, "normal"))
    BY DEF Writes, ConfigureRegion, On
  <2> QED  BY <1>2, <2>1, PlannedAre, Zenon
<1>4. /\ Writes[5] = Write("RNR", 1) /\ Writes[6] = Write("RBAR", Planned(1).base)
      /\ Writes[7] = Write("RASR", Planned(1).rasr)
  <2>1. /\ Writes[5] = Write("RNR", 1) /\ Writes[6] = Write("RBAR", Sram)
        /\ Writes[7] = Write("RASR", On(SizeField(17), "full", TRUE, "normal"))
    BY DEF Writes, ConfigureRegion, On
  <2> QED  BY <1>2, <2>1, PlannedAre, Zenon
<1>5. /\ Writes[8] = Write("RNR", 2) /\ Writes[9] = Write("RBAR", Planned(2).base)
      /\ Writes[10] = Write("RASR", Planned(2).rasr)
  <2>1. /\ Writes[8] = Write("RNR", 2) /\ Writes[9] = Write("RBAR", Peripherals)
        /\ Writes[10] = Write("RASR", On(SizeField(29), "full", TRUE, "device"))
    BY DEF Writes, ConfigureRegion, On
  <2> QED  BY <1>2, <2>1, PlannedAre, Zenon
<1>6. /\ Writes[11] = Write("RNR", 3) /\ Writes[12] = Write("RBAR", Planned(3).base)
      /\ Writes[13] = Write("RASR", Planned(3).rasr)
  <2>1. /\ Writes[11] = Write("RNR", 3) /\ Writes[12] = Write("RBAR", Guard)
        /\ Writes[13] = Write("RASR", On(SizeField(8), "none", TRUE, "normal"))
    BY DEF Writes, ConfigureRegion, On
  <2> QED  BY <1>2, <2>1, PlannedAre, Zenon
<1>7. \A n \in 0..3 : n = 0 \/ n = 1 \/ n = 2 \/ n = 3
  OBVIOUS
<1> QED  BY <1>1, <1>3, <1>4, <1>5, <1>6, <1>7

\* They are settings of a region.
LEMMA PlannedType == \A n \in 0..3 : Planned(n) \in [base : Nat, rasr : Settings]
<1>1. /\ Planned(0) \in [base : Nat, rasr : Settings] /\ Planned(1) \in [base : Nat, rasr : Settings]
      /\ Planned(2) \in [base : Nat, rasr : Settings] /\ Planned(3) \in [base : Nat, rasr : Settings]
  BY DEF Planned, At, On, Settings, Flash, Sram, Peripherals, Guard
<1>2. \A n \in 0..3 : n = 0 \/ n = 1 \/ n = 2 \/ n = 3
  OBVIOUS
<1> QED  BY <1>1, <1>2

\* A write to one of the registers, and what the others keep.
LEMMA WriteRegStep == ASSUME MpuInv, WriteReg  PROVE MpuInv'
<1> DEFINE w == Writes[written + 1]
<1>1. written \in 0..13 /\ written' = written + 1
  BY WritesAre DEF MpuInv, Progress, WriteReg, MpuDone
<1>2. /\ ctrl' = IF w.reg = "CTRL" THEN w.val ELSE ctrl
      /\ rnr' = IF w.reg = "RNR" THEN w.val ELSE rnr
      /\ region' = CASE w.reg = "RBAR" -> [region EXCEPT ![rnr].base = w.val]
                     [] w.reg = "RASR" -> [region EXCEPT ![rnr].rasr = w.val]
                     [] OTHER          -> region
  BY DEF WriteReg
<1>3. \/ written = 0 \/ written = 13
      \/ \E n \in 0..3 : written = 3*n+1 \/ written = 3*n+2 \/ written = 3*n+3
  <2>1. \/ written = 0 \/ written = 13 \/ written = 3*0+1 \/ written = 3*0+2 \/ written = 3*0+3
        \/ written = 3*1+1 \/ written = 3*1+2 \/ written = 3*1+3
        \/ written = 3*2+1 \/ written = 3*2+2 \/ written = 3*2+3
        \/ written = 3*3+1 \/ written = 3*3+2 \/ written = 3*3+3
    BY <1>1
  <2>2. 0 \in 0..3 /\ 1 \in 0..3 /\ 2 \in 0..3 /\ 3 \in 0..3
    OBVIOUS
  <2> QED  BY <2>1, <2>2, Zenon
<1>4. CASE written = 0 \/ written = 13
  <2>1. /\ w = IF written = 0 THEN Write("CTRL", {}) ELSE Write("CTRL", {"ENABLE", "PRIVDEFENA"})
    BY <1>4, WritesAre
  <2> HIDE DEF w
  <2>2. /\ w.reg = "CTRL" /\ w.val = IF written = 0 THEN {} ELSE {"ENABLE", "PRIVDEFENA"}
    BY <2>1 DEF Write
  <2>3. region' = region /\ rnr' = rnr /\ ctrl' = w.val
    BY <1>2, <2>2
  <2>4. Registers'
    BY <2>3 DEF MpuInv, Registers
  <2>5. Progress'
    BY <1>1, <1>4, <2>2, <2>3 DEF MpuInv, Progress
  <2> QED  BY <2>4, <2>5 DEF MpuInv
<1>5. ASSUME NEW n \in 0..3, written = 3*n+1  PROVE MpuInv'
  <2>1. w = Write("RNR", n)
    BY <1>5, WritesAre
  <2> HIDE DEF w
  <2>2. w.reg = "RNR" /\ w.val = n
    BY <2>1 DEF Write
  <2>3. region' = region /\ rnr' = n /\ ctrl' = ctrl
    BY <1>2, <2>2
  <2>4. Registers'
    BY <2>3 DEF MpuInv, Registers
  <2>5. Progress'
    BY <1>1, <1>5, <2>3 DEF MpuInv, Progress
  <2> QED  BY <2>4, <2>5 DEF MpuInv
<1>6. ASSUME NEW n \in 0..3, written = 3*n+2  PROVE MpuInv'
  <2>1. w = Write("RBAR", Planned(n).base) /\ rnr = n
    BY <1>1, <1>6, WritesAre DEF MpuInv, Progress
  <2> HIDE DEF w
  <2>2. w.reg = "RBAR" /\ w.val = Planned(n).base
    BY <2>1 DEF Write
  <2>3. region' = [region EXCEPT ![n].base = Planned(n).base] /\ rnr' = rnr /\ ctrl' = ctrl
    BY <1>2, <2>1, <2>2
  <2>4. Registers /\ n \in Regions /\ Planned(n).base \in Nat
    BY PlannedType DEF MpuInv, Regions
  <2>5. /\ region' \in [Regions -> [base : Nat, rasr : Settings]]
        /\ region'[n].base = Planned(n).base
        /\ \A m \in Regions : region'[m].rasr = region[m].rasr
        /\ \A m \in Regions \ {n} : region'[m] = region[m]
    BY <2>3, <2>4 DEF Registers
  <2>6. Registers'
    BY <2>4, <2>5 DEF Registers, Regions
  <2>7. Progress'
    <3>1. \A m \in 0..3 : m \in Regions
      BY DEF Regions
    <3> QED  BY <1>1, <1>6, <2>1, <2>3, <2>5, <3>1 DEF MpuInv, Progress
  <2> QED  BY <2>6, <2>7 DEF MpuInv
<1>7. ASSUME NEW n \in 0..3, written = 3*n+3  PROVE MpuInv'
  <2>1. w = Write("RASR", Planned(n).rasr) /\ rnr = n
    BY <1>1, <1>7, WritesAre DEF MpuInv, Progress
  <2> HIDE DEF w
  <2>2. w.reg = "RASR" /\ w.val = Planned(n).rasr
    BY <2>1 DEF Write
  <2>3. region' = [region EXCEPT ![n].rasr = Planned(n).rasr] /\ rnr' = rnr /\ ctrl' = ctrl
    BY <1>2, <2>1, <2>2
  <2>4. Registers /\ n \in Regions /\ Planned(n).rasr \in Settings
    BY PlannedType DEF MpuInv, Regions
  <2>5. /\ region' \in [Regions -> [base : Nat, rasr : Settings]]
        /\ region'[n].rasr = Planned(n).rasr
        /\ \A m \in Regions : region'[m].base = region[m].base
        /\ \A m \in Regions \ {n} : region'[m] = region[m]
    BY <2>3, <2>4 DEF Registers
  <2>6. Registers'
    BY <2>4, <2>5 DEF Registers, Regions
  <2>7. Progress'
    <3>1. \A m \in 0..3 : m \in Regions
      BY DEF Regions
    <3> QED  BY <1>1, <1>7, <2>1, <2>3, <2>5, <3>1 DEF MpuInv, Progress
  <2> QED  BY <2>6, <2>7 DEF MpuInv
<1> QED  BY <1>3, <1>4, <1>5, <1>6, <1>7

-----------------------------------------------------------------------------
(* The map in force.                                                       *)

\* The highest of some numbers is the one that none of them exceeds.
LEMMA HighestIs ==
    ASSUME NEW S \in SUBSET Int, NEW m \in S, \A n \in S : m >= n
    PROVE  Max(S) = m
<1>1. Max(S) \in S /\ \A n \in S : Max(S) >= n
  <2>1. \E k \in S : \A n \in S : k >= n
    OBVIOUS
  <2> QED  BY <2>1 DEF Max
<1> HIDE DEF Max
<1>2. Max(S) \in Int /\ m \in Int /\ Max(S) >= m /\ m >= Max(S)
  BY <1>1, Zenon
<1> QED  BY <1>2

\* The granules of the four regions.
LEMMA LengthsAre ==
    /\ Length(Planned(0)) = 2048 /\ Length(Planned(1)) = 512
    /\ Length(Planned(2)) = 2097152 /\ Length(Planned(3)) = 1
<1>1. 2 ^ 11 = 2048 /\ 2 ^ 9 = 512 /\ 2 ^ 21 = 2097152 /\ 2 ^ 0 = 1
  BY SMT
<1>2. /\ Planned(0).rasr.size - 7 = 11 /\ Planned(1).rasr.size - 7 = 9
      /\ Planned(2).rasr.size - 7 = 21 /\ Planned(3).rasr.size - 7 = 0
  BY PlannedAre DEF On
<1>3. /\ Length(Planned(0)) = 2 ^ 11 /\ Length(Planned(1)) = 2 ^ 9
      /\ Length(Planned(2)) = 2 ^ 21 /\ Length(Planned(3)) = 2 ^ 0
  BY <1>2, Zenon DEF Length
<1> QED  BY <1>1, <1>3, SMT

\* The granules of flash, of SRAM and of the peripherals.
FlashRegion      == {a \in Nat : Flash <= a /\ a < Flash + 2048}
SramRegion       == {a \in Nat : Sram <= a /\ a < Sram + 512}
PeripheralRegion == {a \in Nat : Peripherals <= a /\ a < Peripherals + 2097152}

\* An address is in a region if it has the region's high bits.
LEMMA InFlash ==
    ASSUME NEW a \in Nat  PROVE Flash \div 2048 = a \div 2048 <=> a \in FlashRegion
  BY SMT DEF Flash, FlashRegion

\* So for SRAM,
LEMMA InSram ==
    ASSUME NEW a \in Nat  PROVE Sram \div 512 = a \div 512 <=> a \in SramRegion
  BY SMT DEF Sram, SramRegion

\* for the peripherals,
LEMMA InPeripherals ==
    ASSUME NEW a \in Nat
    PROVE  Peripherals \div 2097152 = a \div 2097152 <=> a \in PeripheralRegion
  BY SMT DEF Peripherals, PeripheralRegion

\* and for the guard, which is one granule.
LEMMA InGuard ==
    ASSUME NEW a \in Nat  PROVE Guard \div 1 = a \div 1 <=> a = Guard
  BY SMT DEF Guard

\* Which of the unit's regions cover a granule when init is done.
LEMMA CoveredBy ==
    ASSUME MpuInv, written = 14, NEW a \in Nat
    PROVE  /\ \A n \in 0..3 : region[n] = Planned(n)
           /\ Covering(a) \subseteq 0..3
           /\ 0 \in Covering(a) <=> a \in FlashRegion
           /\ 1 \in Covering(a) <=> a \in SramRegion
           /\ 2 \in Covering(a) <=> a \in PeripheralRegion
           /\ 3 \in Covering(a) <=> a = Guard
<1>1. ASSUME NEW n \in 0..3
      PROVE  region[n] = Planned(n)
  <2>1. region[n].base = Planned(n).base /\ region[n].rasr = Planned(n).rasr
    BY DEF MpuInv, Progress
  <2>2. region[n] \in [base : Nat, rasr : Settings]
    BY DEF MpuInv, Registers, Regions
  <2>3. Planned(n) \in [base : Nat, rasr : Settings]
    BY PlannedType
  <2> QED  BY <2>1, <2>2, <2>3
<1>2. Covering(a) \subseteq 0..3
  BY DEF MpuInv, Registers, Regions, Covering, Covers
<1>3. ASSUME NEW n \in 0..3
      PROVE  n \in Covering(a) <=> /\ Planned(n).rasr.on
                                   /\ Planned(n).base \div Length(Planned(n))
                                        = a \div Length(Planned(n))
  <2>1. n \in Regions
    BY DEF Regions
  <2> QED  BY <1>1, <2>1, Zenon DEF Covering, Covers
<1>4. /\ Planned(0).rasr.on /\ Planned(1).rasr.on /\ Planned(2).rasr.on /\ Planned(3).rasr.on
  BY PlannedAre DEF On
<1>5. 0 \in 0..3 /\ 1 \in 0..3 /\ 2 \in 0..3 /\ 3 \in 0..3
  OBVIOUS
<1>6. 0 \in Covering(a) <=> Flash \div 2048 = a \div 2048
  BY <1>3, <1>4, <1>5, PlannedAre, LengthsAre, SMT
<1>7. 1 \in Covering(a) <=> Sram \div 512 = a \div 512
  BY <1>3, <1>4, <1>5, PlannedAre, LengthsAre, SMT
<1>8. 2 \in Covering(a) <=> Peripherals \div 2097152 = a \div 2097152
  BY <1>3, <1>4, <1>5, PlannedAre, LengthsAre, SMT
<1>9. 3 \in Covering(a) <=> Guard \div 1 = a \div 1
  BY <1>3, <1>4, <1>5, PlannedAre, LengthsAre, SMT
<1> QED  BY <1>1, <1>2, <1>6, <1>7, <1>8, <1>9, InFlash, InSram, InPeripherals, InGuard

RightsOf(rasr) == Rights(rasr.ap, rasr.xn, rasr.mem)

\* The rights of a granule are those of the highest region that covers it.
LEMMA AccessIs ==
    ASSUME MpuInv, written = 14, NEW a \in Nat
    PROVE  /\ \A n \in Covering(a) :
                  (\A m \in Covering(a) : n >= m)
                     => Access(a) = RightsOf(Planned(n).rasr)
           /\ Covering(a) = {} => Access(a) = DefaultMap
<1>1. "ENABLE" \in ctrl /\ "PRIVDEFENA" \in ctrl
  BY DEF MpuInv, Progress
<1>2. Covering(a) = {} => Access(a) = DefaultMap
  BY <1>1 DEF Access
<1>3. ASSUME NEW n \in Covering(a), \A m \in Covering(a) : n >= m
      PROVE  Access(a) = RightsOf(Planned(n).rasr)
  <2>1. Covering(a) \in SUBSET Int /\ n \in 0..3
    BY CoveredBy
  <2>2. Max(Covering(a)) = n
    BY <1>3, <2>1, HighestIs
  <2>3. region[n] = Planned(n)
    BY <2>1, CoveredBy
  <2>4. Covering(a) # {}
    OBVIOUS
  <2> QED  BY <1>1, <2>2, <2>3, <2>4, Zenon DEF Access, RightsOf
<1> QED  BY <1>2, <1>3

\* Every granule has the rights that are intended for it.
MapEverywhere ==
    /\ \A a \in FlashRegion : Access(a) = Intended("flash")
    /\ \A a \in SramRegion \ {Guard} : Access(a) = Intended("sram")
    /\ Access(Guard) = Intended("guard")
    /\ \A a \in PeripheralRegion : Access(a) = Intended("peripherals")
    /\ \A a \in Nat \ (FlashRegion \union SramRegion \union PeripheralRegion) :
          Access(a) = DefaultMap

\* It does when init is done.
LEMMA MapIsWhole == ASSUME MpuInv, written = 14  PROVE MapEverywhere
<1>1. /\ FlashRegion \subseteq Nat /\ SramRegion \subseteq Nat /\ PeripheralRegion \subseteq Nat
      /\ FlashRegion \intersect SramRegion = {} /\ FlashRegion \intersect PeripheralRegion = {}
      /\ SramRegion \intersect PeripheralRegion = {} /\ Guard \in SramRegion
  BY SMT DEF FlashRegion, SramRegion, PeripheralRegion, Guard, Flash, Sram, Peripherals
<1>2. /\ RightsOf(Planned(0).rasr) = Intended("flash")
      /\ RightsOf(Planned(1).rasr) = Intended("sram")
      /\ RightsOf(Planned(2).rasr) = Intended("peripherals")
      /\ RightsOf(Planned(3).rasr) = Intended("guard")
  <2>1. /\ RightsOf(On(18, "read", FALSE, "normal")) = Rights("read", FALSE, "normal")
        /\ RightsOf(On(16, "full", TRUE, "normal")) = Rights("full", TRUE, "normal")
        /\ RightsOf(On(28, "full", TRUE, "device")) = Rights("full", TRUE, "device")
        /\ RightsOf(On(7, "none", TRUE, "normal")) = Rights("none", TRUE, "normal")
    BY DEF On, RightsOf
  <2>2. /\ Intended("flash") = Rights("read", FALSE, "normal")
        /\ Intended("sram") = Rights("full", TRUE, "normal")
        /\ Intended("peripherals") = Rights("full", TRUE, "device")
        /\ Intended("guard") = Rights("none", TRUE, "normal")
    BY DEF Intended
  <2> QED  BY <2>1, <2>2, PlannedAre, Zenon
<1>3. ASSUME NEW a \in FlashRegion  PROVE Access(a) = Intended("flash")
  <2>1. Covering(a) = {0}
    BY <1>1, CoveredBy
  <2> QED  BY <1>1, <1>2, <2>1, AccessIs
<1>4. ASSUME NEW a \in SramRegion, a # Guard  PROVE Access(a) = Intended("sram")
  <2>1. Covering(a) = {1}
    BY <1>1, <1>4, CoveredBy
  <2> QED  BY <1>1, <1>2, <2>1, AccessIs
<1>5. Access(Guard) = Intended("guard")
  <2>1. Covering(Guard) = {1, 3}
    BY <1>1, CoveredBy
  <2> QED  BY <1>1, <1>2, <2>1, AccessIs
<1>6. ASSUME NEW a \in PeripheralRegion  PROVE Access(a) = Intended("peripherals")
  <2>1. Covering(a) = {2}
    BY <1>1, CoveredBy
  <2> QED  BY <1>1, <1>2, <2>1, AccessIs
<1>7. ASSUME NEW a \in Nat, a \notin FlashRegion \union SramRegion \union PeripheralRegion
      PROVE  Access(a) = DefaultMap
  <2>1. Covering(a) = {}
    BY <1>1, <1>7, CoveredBy
  <2> QED  BY <2>1, AccessIs
<1> QED  BY <1>3, <1>4, <1>5, <1>6, <1>7 DEF MapEverywhere

\* In particular, the intended map is in force at the addresses that WholeMap
\* looks at.
LEMMA WholeWhenDone == ASSUME MpuInv, written = 14  PROVE WholeMap
<1>1. /\ Granules("flash") \subseteq FlashRegion
      /\ Granules("sram") \subseteq SramRegion \ {Guard}
      /\ Granules("guard") = {Guard}
      /\ Granules("peripherals") \subseteq PeripheralRegion
      /\ Granules("system")
            \subseteq Nat \ (FlashRegion \union SramRegion \union PeripheralRegion)
  <2>1. Granules("flash") \subseteq FlashRegion
    BY SMT DEF Granules, FlashRegion, Flash, KB
  <2>2. Granules("sram") \subseteq SramRegion \ {Guard}
    BY SMT DEF Granules, SramRegion, Sram, Guard, KB
  <2>3. Granules("guard") = {Guard}
    BY DEF Granules
  <2>4. Granules("peripherals") \subseteq PeripheralRegion
    BY SMT DEF Granules, PeripheralRegion, Peripherals, MB, KB
  <2>5. Granules("system")
            \subseteq Nat \ (FlashRegion \union SramRegion \union PeripheralRegion)
    BY SMT DEF Granules, FlashRegion, SramRegion, PeripheralRegion, Flash, Sram, Peripherals
  <2> QED  BY <2>1, <2>2, <2>3, <2>4, <2>5, Zenon
<1>2. Intended("system") = DefaultMap
  BY DEF Intended
<1>3. "ENABLE" \in ctrl
  BY DEF MpuInv, Progress
<1>4. ASSUME NEW kind \in Kinds, NEW a \in Granules(kind)  PROVE Access(a) = Intended(kind)
  <2>1. kind \in {"flash", "sram", "guard", "peripherals", "system"}
    BY DEF Kinds
  <2> QED  BY <1>1, <1>2, <2>1, MapIsWhole, Zenon DEF MapEverywhere
<1> QED  BY <1>3, <1>4, Zenon DEF WholeMap

-----------------------------------------------------------------------------
(* The map, from reset on.                                                 *)

\* Before the first write nothing is claimed of the registers but their types.
LEMMA InitMpuInv == AnyRegisters => MpuInv
  BY DEF AnyRegisters, MpuInv, Progress

\* What the runs start with is among what a boot loader may leave.
LEMMA MpuInitIsAny == MpuInit => AnyRegisters
<1> SUFFICES ASSUME MpuInit  PROVE AnyRegisters
  OBVIOUS
<1> DEFINE off == [base |-> 0, rasr |-> Off]
<1>1. PICK open \in {{}, 0..3} :
          region = [n \in Regions |-> IF n \in open THEN Open ELSE off]
  BY DEF MpuInit
<1>2. Open \in [base : Nat, rasr : Settings] /\ off \in [base : Nat, rasr : Settings]
  BY DEF Open, Off, Settings
<1>3. ~off.rasr.on
  BY DEF Off
<1> HIDE DEF off
<1>4. region \in [Regions -> [base : Nat, rasr : Settings]]
  BY <1>1, <1>2
<1>5. ASSUME NEW n \in 4..7  PROVE ~region[n].rasr.on
  <2>1. n \in Regions /\ n \notin open
    BY <1>1 DEF Regions
  <2> QED  BY <1>1, <1>3, <2>1
<1> QED  BY <1>4, <1>5 DEF AnyRegisters, Registers, MpuInit

\* Only main, in its first stage, writes the unit's registers.
LEMMA MpuInvStep == MpuInv /\ [BoardNext]_boardVars => MpuInv'
<1> SUFFICES ASSUME MpuInv, [BoardNext]_boardVars  PROVE MpuInv'
  OBVIOUS
<1>1. CASE UNCHANGED mpuVars
  BY <1>1 DEF mpuVars, MpuInv, Registers, Progress
<1>2. CASE ProgramMpu
  BY <1>2, WriteRegStep DEF ProgramMpu
<1> QED  BY <1>1, <1>2
         DEF BoardNext, BoardCpuStep, CaptureReads, Proceed, BoardWake, BoardEdge, boardVars

\* From the first of init's writes on, whatever a boot loader left in the
\* regions that init sets up, and in the unit's other registers, the unit is
\* never on with anything but the whole of the intended map.
THEOREM WholeMapFromAnyRegisters ==
    AnyRegisters /\ [][BoardNext]_boardVars => []OnlyWholeMapInForce
<1>1. MpuInv => OnlyWholeMapInForce
  <2> SUFFICES ASSUME MpuInv, written > 0, "ENABLE" \in ctrl  PROVE WholeMap
    BY DEF OnlyWholeMapInForce
  <2>1. written = 14
    BY DEF MpuInv, Progress
  <2> QED  BY <2>1, WholeWhenDone
<1> QED  BY <1>1, InitMpuInv, MpuInvStep, PTL

\* The same from the registers that the runs start with.
THEOREM OnlyWholeMap == BoardSpec => []OnlyWholeMapInForce
<1>1. BoardInit => AnyRegisters
  BY MpuInitIsAny DEF BoardInit
<1> QED  BY <1>1, WholeMapFromAnyRegisters, PTL DEF BoardSpec

\* Once init is done, every granule of the address space, and not only those
\* that WholeMap looks at, has the rights intended for it, and keeps them.
THEOREM MapReachesEverywhere == BoardSpec => [](MpuDone => MapEverywhere)
<1>1. BoardInit => MpuInv
  BY MpuInitIsAny, InitMpuInv DEF BoardInit
<1>2. MpuInv => (MpuDone => MapEverywhere)
  <2> SUFFICES ASSUME MpuInv, MpuDone  PROVE MapEverywhere
    OBVIOUS
  <2>1. written = 14
    BY WritesAre DEF MpuDone
  <2> QED  BY <2>1, MapIsWhole
<1> QED  BY <1>1, <1>2, MpuInvStep, PTL DEF BoardSpec

\* main is in its first stage, or has made all of init's writes.
MpuFirst == IF boot = "mpu" THEN ~clocks /\ passed = {} ELSE written = 14

\* main leaves its first stage only when all writes are made.
LEMMA MpuFirstStep == MpuInv /\ MpuFirst /\ [BoardNext]_boardVars => MpuFirst'
<1> SUFFICES ASSUME MpuInv, MpuFirst, [BoardNext]_boardVars  PROVE MpuFirst'
  OBVIOUS
<1>1. CASE UNCHANGED <<boot, clocks, passed, written>>
  BY <1>1 DEF MpuFirst
<1>2. CASE ProgramMpu
  BY <1>2 DEF ProgramMpu, InMain, vars, MpuFirst
<1>3. ASSUME MainStep, written' = written, InMain("mpu") => MpuDone  PROVE MpuFirst'
  <2>1. CASE boot = "mpu"
    <3>1. ConfigureMpu
      BY <1>3, <2>1, CheckOrder
         DEF MainStep, InitClocks, HealthCheck, SetFlashWaitStates, SpawnTasks, InMain, Checks
    <3>2. boot' = "clocks" /\ written = 14
      BY <1>3, <3>1, WritesAre DEF ConfigureMpu, MpuDone
    <3> QED  BY <1>3, <3>2 DEF MpuFirst
  <2>2. CASE boot # "mpu"
    <3>1. boot' # "mpu"
      BY <1>3, <2>2, CheckOrder
         DEF MainStep, ConfigureMpu, InitClocks, HealthCheck, SetFlashWaitStates, SpawnTasks,
             InMain, Checks
    <3> QED  BY <1>3, <2>2, <3>1 DEF MpuFirst
  <2> QED  BY <2>1, <2>2
<1>4. CASE Proceed
  <2>1. written' = written /\ (InMain("mpu") => MpuDone) /\ CpuStep
    BY <1>4 DEF Proceed, mpuVars
  <2>2. MainStep \/ UNCHANGED <<boot, clocks, passed, written>>
    BY <2>1 DEF CpuStep, TakeQueue, PollTask, Suspend
  <2> QED  BY <1>1, <1>3, <2>1, <2>2
<1> QED  BY <1>1, <1>2, <1>4
         DEF BoardNext, BoardCpuStep, CaptureReads, BoardWake, Wake, BoardEdge, boardVars,
             vars, mpuVars

\* Neither a peripheral is used, nor the memory that the health checks write
\* to, nor a task started, before the whole map is in force.
THEOREM MapComesFirst == BoardSpec => []MapBeforeUse
<1>1. BoardInit => MpuInv /\ MpuFirst
  BY MpuInitIsAny, InitMpuInv DEF BoardInit, Init, MpuFirst
<1>2. IInv /\ MpuInv /\ MpuFirst => MapBeforeUse
  <2> SUFFICES ASSUME IInv, MpuInv, MpuFirst,
                      clocks \/ passed # {} \/ Spawned \ {"main", "none"} # {}
               PROVE  WholeMap
    BY DEF MapBeforeUse
  <2>1. boot # "mpu"
    BY DEF MpuFirst, IInv, Staged, Over
  <2> QED  BY <2>1, WholeWhenDone DEF MpuFirst
<1> QED  BY <1>1, <1>2, MpuInvStep, MpuFirstStep, Inductive, PTL DEF BoardSpec
=============================================================================
