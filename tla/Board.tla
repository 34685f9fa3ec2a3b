-------------------------------- MODULE Board --------------------------------
(***************************************************************************)
(* The board from reset on: the firmware, with main's first stage,         *)
(* mpu::init, write by write, and capture_task's polls read by read.       *)
(***************************************************************************)
EXTENDS Firmware, Mpu, Capture

boardVars == <<vars, mpuVars, captureVars>>

BoardInit == Init /\ MpuInit /\ CaptureInit

\* main writes the unit's registers, with the CPU to itself.
ProgramMpu ==
    /\ InMain("mpu")
    /\ WriteReg
    /\ UNCHANGED <<vars, captureVars>>

\* capture_task, woken by its timer, reads the latches without suspending.
CaptureReads ==
    /\ cpu = "capture"
    /\ Read
    /\ UNCHANGED <<vars, mpuVars>>

\* Mutant: main goes on while mpu::init is still to be done.
Proceed_BeforeMpu ==
    /\ CpuStep
    /\ IF cpu = "capture" THEN SetUp \/ Reported ELSE UNCHANGED captureVars
    /\ UNCHANGED mpuVars

\* The executor, main after mpu::init, and the tasks' suspensions.
Proceed ==
    /\ InMain("mpu") => MpuDone
    /\ CpuStep
    /\ IF cpu = "capture" THEN SetUp \/ Reported ELSE UNCHANGED captureVars
    /\ UNCHANGED mpuVars

BoardCpuStep == ProgramMpu \/ CaptureReads \/ Proceed

BoardWake(t) == Wake(t) /\ UNCHANGED <<mpuVars, captureVars>>

\* TIM3 runs by itself.
BoardEdge == Edge /\ UNCHANGED <<vars, mpuVars>>

BoardNext == BoardCpuStep \/ (\E t \in Tasks : BoardWake(t)) \/ BoardEdge

BoardSpec == BoardInit /\ [][BoardNext]_boardVars

\* As in Firmware: the CPU runs, and what a task awaits happens some time.
BoardFairSpec ==
    BoardSpec /\ WF_boardVars(BoardCpuStep) /\ \A t \in Tasks : WF_boardVars(BoardWake(t))

-----------------------------------------------------------------------------
(* Properties.                                                             *)

\* Nothing that the map is to protect is used before it is in force: neither
\* a peripheral (the clock tree is the first), nor the memory that the
\* health checks write to, nor a task.
MapBeforeUse ==
    clocks \/ passed # {} \/ Spawned \ {"main", "none"} # {} => WholeMap
=============================================================================
