-------------------------- MODULE InjectorContract --------------------------
(***************************************************************************)
(* What the trait FaultInjector (shared/src/lib.rs) promises whatever the  *)
(* protocol: an injector does nothing unless it is armed, damages a word   *)
(* by one bit at most, and counts every word it damages.                   *)
(***************************************************************************)
EXTENDS Integers, Sequences, FiniteSets

CONSTANTS
    Bus,          \* the sequences of words that a caller may hand over
    CountRange

VARIABLES
    armed, count,
    given, got,   \* the words handed over in the last call, and got back
    outcome       \* the last call's result, or its answer

vars == <<armed, count, given, got, outcome>>

Init == ~armed /\ count = 0 /\ given = <<>> /\ got = <<>> /\ outcome = "Ok"

\* Arming starts a new count.
Control ==
    /\ \/ armed' /\ count' = 0
       \/ ~armed' /\ count' = count
       \/ armed' = armed /\ count' \in {0, count}
    /\ given' = <<>> /\ got' = <<>> /\ outcome' = "Ok"

\* A question, to which an injector that is not armed never answers yes.
Ask ==
    /\ given' = <<>> /\ got' = <<>>
    /\ outcome' = "Yes" => armed
    /\ outcome' \in {"Yes", "No", "Other"}
    /\ UNCHANGED <<armed, count>>

Damage(x, y) == (x \ y) \union (y \ x)

Damaged(xs, ys) == {i \in DOMAIN xs : xs[i] # ys[i]}

\* A call counts each word once at most, and a fault of the line itself once.
MostCounted(xs) == IF xs = <<>> THEN 1 ELSE Len(xs)

\* Some words pass the injector.
Pass ==
    /\ given' \in Bus
    /\ DOMAIN got' = DOMAIN given'
    /\ \A i \in DOMAIN given' : Cardinality(Damage(given'[i], got'[i])) <= 1
    /\ \E k \in Cardinality(Damaged(given', got')) .. MostCounted(given') :
          /\ count' = (count + k) % CountRange
          /\ ~armed => k = 0
    /\ outcome' \in {"Ok", IF armed THEN "Fired" ELSE "Err"}
    /\ UNCHANGED armed

Next == Control \/ Ask \/ Pass

Spec == Init /\ [][Next]_vars
=============================================================================
