------------------------------ MODULE Firmware ------------------------------
(***************************************************************************)
(* The boot sequence (firmware/src/main.rs) and the tasks it spawns, on    *)
(* Embassy's thread-mode executor: one stack, no preemption.  A task that  *)
(* is polled keeps the CPU until its future returns Pending; interrupts    *)
(* only put tasks on the run queue.  main is the first task.               *)
(***************************************************************************)
CONSTANT Builds   \* the sets of Cargo features the firmware is built with

Features == {"analog", "digital", "fault"}

ASSUME BuildsAssumption == Builds \subseteq SUBSET Features

Tasks == {"main", "adc", "pwm", "capture", "fault"}

VARIABLES
    features,   \* this build's features
    boot,       \* how far main has come
    clocks,     \* whether embassy_stm32::init has set up the clock tree
    queue,      \* the tasks woken since the executor last took its queue
    batch,      \* the tasks it took and has not polled yet
    cpu,        \* the task being polled, or "none"
    waiting,    \* the tasks suspended at an await
    \* History variable, which no action's guard reads:
    passed      \* the health checks that passed

vars == <<features, boot, clocks, queue, batch, cpu, waiting, passed>>

Spawned == queue \union batch \union waiting \union {cpu}

Init ==
    /\ features \in Builds
    /\ boot = "mpu"
    /\ clocks = FALSE
    /\ queue = {"main"}
    /\ batch = {}
    /\ cpu = "none"
    /\ waiting = {}
    /\ passed = {}

-----------------------------------------------------------------------------
(* The executor.                                                           *)

\* Mutant: the queue is read without being emptied.
TakeQueue_Copy ==
    /\ cpu = "none" /\ batch = {} /\ queue # {}
    /\ batch' = queue
    /\ UNCHANGED <<features, boot, clocks, queue, cpu, waiting, passed>>

\* It takes the whole run queue at once; what is woken from then on has to
\* wait for the next round.
TakeQueue ==
    /\ cpu = "none" /\ batch = {} /\ queue # {}
    /\ batch' = queue
    /\ queue' = {}
    /\ UNCHANGED <<features, boot, clocks, cpu, waiting, passed>>

PollTask(t) ==
    /\ cpu = "none" /\ t \in batch
    /\ cpu' = t
    /\ batch' = batch \ {t}
    /\ UNCHANGED <<features, boot, clocks, queue, waiting, passed>>

\* The tasks whose futures register a waker.
Awaiting == {"adc", "pwm", "capture"}

\* An interrupt (DMA, timer) completes what a task awaits, whoever has the
\* CPU: also the task itself, whose poll has taken it off the run queue, and
\* which is on it again then.
Wake(t) ==
    /\ t \in waiting \/ (t = cpu /\ t \in Awaiting \ queue)
    /\ waiting' = waiting \ {t}
    /\ queue' = queue \union {t}
    /\ UNCHANGED <<features, boot, clocks, batch, cpu, passed>>

-----------------------------------------------------------------------------
(* The tasks.                                                              *)

\* Mutant: the acquisition task reads its ring without awaiting.
Suspend_BlockingAdc(t) ==
    /\ cpu = t /\ t \in {"pwm", "capture"}
    /\ cpu' = "none"
    /\ waiting' = waiting \union ({t} \ queue)
    /\ UNCHANGED <<features, boot, clocks, queue, batch, passed>>

\* Mutant: the capture task waits for its half second in a busy loop.
Suspend_BlockingCapture(t) ==
    /\ cpu = t /\ t \in {"pwm", "adc"}
    /\ cpu' = "none"
    /\ waiting' = waiting \union ({t} \ queue)
    /\ UNCHANGED <<features, boot, clocks, queue, batch, passed>>

\* adc_task, pwm_task and capture_task suspend at every await of their loops
\* when what they await has not happened; one woken since then stays on the
\* run queue.  fault_task_entry has no such action: the futures it awaits
\* busy-wait for the start bit and never return Pending.
Suspend(t) ==
    /\ cpu = t /\ t \in Awaiting
    /\ cpu' = "none"
    /\ waiting' = waiting \union ({t} \ queue)
    /\ UNCHANGED <<features, boot, clocks, queue, batch, passed>>

InMain(at) == cpu = "main" /\ boot = at

ConfigureMpu ==
    /\ InMain("mpu")
    /\ boot' = "clocks"
    /\ UNCHANGED <<features, clocks, queue, batch, cpu, waiting, passed>>

InitClocks ==
    /\ InMain("clocks")
    /\ clocks' = TRUE
    /\ boot' = "clock check"
    /\ UNCHANGED <<features, queue, batch, cpu, waiting, passed>>

CheckAfter == [c \in {"clock check", "canary check", "ram check"} |->
    CASE c = "clock check"  -> "canary check"
      [] c = "canary check" -> "ram check"
      [] c = "ram check"    -> "flash"]

\* Mutant: a failed check is logged, and main goes on.
HealthCheck_LogOnly(c, ok) ==
    /\ InMain(c)
    /\ boot' = CheckAfter[c]
    /\ passed' = IF ok THEN passed \union {c} ELSE passed
    /\ UNCHANGED <<features, clocks, queue, batch, cpu, waiting>>

\* health_check: the first check that fails ends in `loop {}`.
HealthCheck(c, ok) ==
    /\ InMain(c)
    /\ boot' = IF ok THEN CheckAfter[c] ELSE "halted"
    /\ passed' = IF ok THEN passed \union {c} ELSE passed
    /\ UNCHANGED <<features, clocks, queue, batch, cpu, waiting>>

SetFlashWaitStates ==
    /\ InMain("flash")
    /\ boot' = "spawn"
    /\ UNCHANGED <<features, clocks, queue, batch, cpu, waiting, passed>>

TasksOf(f) == CASE f = "analog"  -> {"adc"}
                [] f = "digital" -> {"pwm", "capture"}
                [] f = "fault"   -> {"fault"}

\* Every enabled feature's tasks are spawned, that is, put on the run queue.
\* Then main is over, or stays in `loop {}` in a build that has neither
\* analog nor digital.
SpawnTasks ==
    /\ InMain("spawn")
    /\ queue' = queue \union UNION {TasksOf(f) : f \in features}
    /\ IF features \intersect {"analog", "digital"} # {}
       THEN boot' = "done" /\ cpu' = "none"
       ELSE boot' = "no features" /\ UNCHANGED cpu
    /\ UNCHANGED <<features, clocks, batch, waiting, passed>>

MainStep ==
    \/ ConfigureMpu
    \/ InitClocks
    \/ \E c \in DOMAIN CheckAfter, ok \in BOOLEAN : HealthCheck(c, ok)
    \/ SetFlashWaitStates
    \/ SpawnTasks

\* The CPU is never idle while there is something to do.
CpuStep ==
    \/ TakeQueue
    \/ \E t \in Tasks : PollTask(t) \/ Suspend(t)
    \/ MainStep

Next == CpuStep \/ \E t \in Tasks : Wake(t)

Spec == Init /\ [][Next]_vars

\* The CPU runs, and what a task awaits happens some time: the ADC converts,
\* the timers run, the USART's DMA ends.
FairSpec == Spec /\ WF_vars(CpuStep) /\ \A t \in Tasks : WF_vars(Wake(t))

-----------------------------------------------------------------------------
(* Properties.                                                             *)

\* The types of the system's state, and where a task may be: on the run
\* queue, taken from it, or suspended, and in one of these places only.
\* Embassy's queue is intrusive, and a task that was on it twice would
\* corrupt it.  The task being polled is in none of them, unless it has been
\* woken since and is on the queue.
TypeOK ==
    /\ features \in Builds
    /\ boot \in {"mpu", "clocks", "flash", "spawn", "done", "halted", "no features"}
                \union DOMAIN CheckAfter
    /\ clocks \in BOOLEAN
    /\ cpu \in Tasks \union {"none"}
    /\ passed \subseteq DOMAIN CheckAfter
    /\ queue \union batch \union waiting \subseteq Tasks
    /\ queue \intersect (batch \union waiting) = {} /\ batch \intersect waiting = {}
    /\ cpu \notin batch \union waiting \union (queue \ Awaiting)

\* No peripheral task is ever spawned on a board that failed a health check,
\* or before the clock tree runs.
TasksOnlyIfHealthy ==
    Spawned \ {"main", "none"} # {} => clocks /\ passed = DOMAIN CheckAfter

\* The acquisition task is polled every time its DMA has woken it.
AdcServed == ("adc" \in queue) ~> (cpu = "adc")

\* So are the PWM and capture tasks.
DigitalServed == \A t \in {"pwm", "capture"} : (t \in queue) ~> (cpu = t)
=============================================================================
