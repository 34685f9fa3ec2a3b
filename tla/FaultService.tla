---------------------------- MODULE FaultService ----------------------------
(***************************************************************************)
(* What the fault injector promises a commander that waits for each answer *)
(* before it sends the next command: every command is obeyed once, in      *)
(* order, and answered with what became of it.                             *)
(***************************************************************************)
CONSTANT None

VARIABLES request, answer, armed, fired

vars == <<request, answer, armed, fired>>

Commands == {"Arm", "Disarm", "Fire", "Status", "Reset"}

Init == request = None /\ answer = None /\ ~armed /\ ~fired

Request(c) ==
    /\ request = None
    /\ request' = c
    /\ UNCHANGED <<answer, armed, fired>>

\* What the answer to each command says.  A fault that was fired stays on
\* record until the injector is armed again or reset.
AnswerTo(c) ==
    CASE c = "Arm"                -> "Armed"
      [] c \in {"Disarm", "Reset"} -> "Disarmed"
      [] c = "Fire"               -> IF armed THEN "Fired" ELSE "Error"
      [] c = "Status"             -> IF fired THEN "Completed"
                                     ELSE IF armed THEN "Armed" ELSE "Disarmed"

Obey ==
    /\ request # None /\ answer = None
    /\ answer' = AnswerTo(request)
    /\ armed' = (request = "Arm" \/ (armed /\ request \notin {"Disarm", "Reset"}))
    /\ fired' = (answer' = "Fired" \/ (fired /\ request \notin {"Arm", "Reset"}))
    /\ UNCHANGED request

Answer ==
    /\ answer # None
    /\ request' = None
    /\ answer' = None
    /\ UNCHANGED <<armed, fired>>

Next == (\E c \in Commands : Request(c)) \/ Obey \/ Answer

Spec == Init /\ [][Next]_vars
=============================================================================
