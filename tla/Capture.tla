------------------------------- MODULE Capture -------------------------------
(***************************************************************************)
(* pwm_task's outputs, and capture_task with the timer that it reads       *)
(* (firmware/src/digital.rs).                                              *)
(*                                                                         *)
(* TIM3 (external) captures by itself: a rising edge on PA6 latches the    *)
(* count of ticks since the one before and starts the count again, a       *)
(* falling edge latches the count so far.  The task makes four reads of    *)
(* the two latches, and an edge may come between any of them.  A cycle of  *)
(* the input is a record of its real lengths.                              *)
(***************************************************************************)
EXTENDS Integers

CONSTANTS
    TickLen,     \* a tick of TIM3: 1 / CLOCK_SPEED_KHZ, the PWM outputs' period, too
    CntRange,    \* 2^16: TIM3 has 16 bits
    Inputs       \* what PA6 may be connected to

ASSUME CaptureAssumption ==
    /\ TickLen \in Nat \ {0}
    /\ CntRange \in Nat \ {0}
    /\ Inputs \subseteq [period : Nat \ {0}, width : Nat]
    /\ \A i \in Inputs : i.width <= i.period

VARIABLES
    cycle,         \* the cycle that the input is in, followed from set-up on
    high,          \* its level
    ccr1, ccr2,    \* the latches: ticks in the last period, and in the last pulse
    rd,            \* what capture_task does next; "off" before it has set up TIM3
    period_ticks, width_ticks, duty_period, duty_cycle_pct,
    synced,        \* whether the count in progress began at an edge
    \* History variables, which no action's guard reads:
    timed1, timed2,   \* the cycles, at most one each, whose whole length a latch holds
    seen           \* the cycles the latches have held since the first read of this round

timerVars == <<cycle, high, ccr1, ccr2, synced, timed1, timed2>>
readVars == <<rd, period_ticks, width_ticks, duty_period, duty_cycle_pct>>
captureVars == <<timerVars, readVars, seen>>

\* set_duty_cycle_fraction(n, d) of a PWM output.
Fraction(n, d) == [period |-> TickLen, width |-> (TickLen * n) \div d]

PwmOutputs == {Fraction(1, 4), Fraction(1, 2), Fraction(3, 4), Fraction(1, 10)}

\* What the counter shows after a time.
Ticks(len) == (len \div TickLen) % CntRange

CaptureInit ==
    /\ cycle = [period |-> 0, width |-> 0] /\ high = FALSE
    /\ ccr1 = 0 /\ ccr2 = 0
    /\ rd = "off"
    /\ period_ticks = 0 /\ width_ticks = 0 /\ duty_period = 0 /\ duty_cycle_pct = 0
    /\ synced = FALSE
    /\ timed1 = {} /\ timed2 = {} /\ seen = {}

-----------------------------------------------------------------------------
(* The timer.                                                              *)

\* The count at an edge: a part of len if TIM3 was set up since len began.
Counts(len) == IF synced THEN {Ticks(len)} ELSE {Ticks(l) : l \in 0..len}

\* What a latch then holds the whole length of.
Timed == IF synced THEN {cycle} ELSE {}

\* Nothing is of interest before a round's first read.
Seen(cycles) == IF seen = {} THEN {} ELSE seen \union cycles

\* A cycle ends, and one of another input may follow.
RisingEdge(next) ==
    /\ rd # "off" /\ ~high
    /\ ccr1' \in Counts(cycle.period)
    /\ timed1' = Timed
    /\ seen' = Seen(Timed)
    /\ high' = TRUE
    /\ synced' = TRUE
    /\ cycle' = next
    /\ UNCHANGED <<ccr2, timed2, readVars>>

FallingEdge ==
    /\ rd # "off" /\ high
    /\ ccr2' \in Counts(cycle.width)
    /\ timed2' = Timed
    /\ seen' = Seen(Timed)
    /\ high' = FALSE
    /\ UNCHANGED <<cycle, ccr1, synced, timed1, readVars>>

Edge == FallingEdge \/ \E next \in Inputs : RisingEdge(next)

-----------------------------------------------------------------------------
(* capture_task.                                                           *)

\* The task sets up TIM3, in the middle of what the input is doing.
SetUp ==
    /\ rd = "off"
    /\ rd' = "period"
    /\ cycle' \in Inputs /\ high' \in BOOLEAN
    /\ UNCHANGED <<ccr1, ccr2, synced, timed1, timed2, period_ticks, width_ticks,
                   duty_period, duty_cycle_pct, seen>>

\* It has reported, and the next round starts.
Reported ==
    /\ rd = "report"
    /\ rd' = "period"
    /\ period_ticks' = 0 /\ width_ticks' = 0 /\ duty_period' = 0 /\ duty_cycle_pct' = 0
    /\ seen' = {}
    /\ UNCHANGED timerVars

ReadPeriod ==
    /\ rd = "period"
    /\ period_ticks' = ccr1
    /\ rd' = "width"
    /\ seen' = IF timed1 # {} /\ timed2 # {} THEN timed1 \union timed2 ELSE {}
    /\ UNCHANGED <<timerVars, width_ticks, duty_period, duty_cycle_pct>>

\* Mutant: the width is read from the period's latch.
ReadWidth_Ccr1 ==
    /\ rd = "width"
    /\ width_ticks' = ccr1
    /\ rd' = "duty period"
    /\ UNCHANGED <<timerVars, period_ticks, duty_period, duty_cycle_pct, seen>>

ReadWidth ==
    /\ rd = "width"
    /\ width_ticks' = ccr2
    /\ rd' = "duty period"
    /\ UNCHANGED <<timerVars, period_ticks, duty_period, duty_cycle_pct, seen>>

\* get_duty_cycle reads both latches again.
ReadDutyPeriod ==
    /\ rd = "duty period"
    /\ duty_period' = ccr1
    /\ rd' = IF ccr1 = 0 THEN "report" ELSE "duty width"
    /\ UNCHANGED <<timerVars, period_ticks, width_ticks, duty_cycle_pct, seen>>

ReadDutyWidth ==
    /\ rd = "duty width"
    /\ duty_cycle_pct' = (100 * ccr2) \div duty_period
    /\ rd' = "report"
    /\ UNCHANGED <<timerVars, period_ticks, width_ticks, duty_period, seen>>

Read == ReadPeriod \/ ReadWidth \/ ReadDutyPeriod \/ ReadDutyWidth

-----------------------------------------------------------------------------
(* Properties.                                                             *)

\* What is reported of ticks is right to a tick.
Measures(ticks, len) == ticks * TickLen <= len /\ len < (ticks + 1) * TickLen

\* A duty cycle in percent of a period and a width in ticks.
Duty(period, width) == IF period = 0 THEN 0 ELSE (100 * width) \div period

\* The latches are read one after the other while TIM3 goes on capturing, so
\* a report may mix inputs.  It mixes nothing else: if the latches held whole
\* lengths at a round's first read, then the period and the width reported
\* are each right to a tick of an input that they have held in this round,
\* and so are the period and the width that the duty cycle is of.  The
\* counter must not wrap within any of these inputs' periods.
ReportsInputsSeen ==
    rd = "report" /\ seen # {} /\ (\A c \in seen : c.period < CntRange * TickLen) =>
        /\ \E c \in seen : Measures(period_ticks, c.period)
        /\ \E c \in seen : Measures(width_ticks, c.width)
        /\ \E c, d \in seen :
              duty_cycle_pct = Duty(c.period \div TickLen, d.width \div TickLen)

\* A PWM output, and nothing else in the round, is reported with its duty
\* cycle: what capture_task's comment invites to try.
PwmOutputMeasured ==
    \A c \in PwmOutputs :
        rd = "report" /\ seen = {c} => duty_cycle_pct = (100 * c.width) \div c.period
=============================================================================
