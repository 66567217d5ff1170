---------------------------- MODULE AttemptRace ----------------------------
(***************************************************************************)
(* What a race of connection attempts promises to its caller: attempts are *)
(* offered, and while a race runs they fail or win in any order.  The race *)
(* returns the first winner; it reports a failure only when no attempt is  *)
(* left open, and then it reports the first failure.  However a race ends, *)
(* at most one attempt is dropped without having been given its turn.      *)
(* EyeballSet is shown to implement this module.                           *)
(***************************************************************************)
EXTENDS FiniteSets, Naturals

CONSTANTS Attempts,  \* the attempts a caller can offer
          NoAttempt  \* stands for the absence of an attempt

VARIABLES open,         \* offered attempts that are neither settled nor dropped
          firstFailure, \* the first failure not yet reported, or NoAttempt
          running,      \* is a race under way?
          answer        \* what the last race returned

vars == <<open, firstFailure, running, answer>>

Answer(k, a) == [kind |-> k, attempt |-> a]
NoAnswer == Answer("None", NoAttempt)

Init ==
    /\ open = {}
    /\ firstFailure = NoAttempt
    /\ running = FALSE
    /\ answer = NoAnswer

\* The caller adds attempts between two races.
Offer(S) ==
    /\ ~running
    /\ open' = open \cup S
    /\ answer' = NoAnswer
    /\ UNCHANGED <<firstFailure, running>>

Begin ==
    /\ ~running
    /\ running' = TRUE
    /\ answer' = NoAnswer
    /\ UNCHANGED <<open, firstFailure>>

Fail(a) ==
    /\ running
    /\ a \in open
    /\ open' = open \ {a}
    /\ firstFailure' = IF firstFailure = NoAttempt THEN a ELSE firstFailure
    /\ UNCHANGED <<running, answer>>

\* A race returns; of the attempts in S all stay open but at most one.
ReturnDropping(S, ans) ==
    /\ running
    /\ running' = FALSE
    /\ answer' = ans
    /\ \/ open' = S
       \/ \E d \in S : open' = S \ {d}

Win(a) ==
    /\ a \in open
    /\ ReturnDropping(open \ {a}, Answer("Ok", a))
    /\ UNCHANGED firstFailure

GiveUp(k) ==
    /\ k \in {"Timeout", "Cancelled"}
    /\ ReturnDropping(open, Answer(k, NoAttempt))
    /\ UNCHANGED firstFailure

Exhaust ==
    /\ running
    /\ open = {}
    /\ running' = FALSE
    /\ answer' = IF firstFailure = NoAttempt
                 THEN Answer("NoProgress", NoAttempt)
                 ELSE Answer("Error", firstFailure)
    /\ firstFailure' = NoAttempt
    /\ UNCHANGED open

Next ==
    \/ \E S \in SUBSET Attempts : Offer(S)
    \/ Begin
    \/ \E a \in Attempts : Fail(a) \/ Win(a)
    \/ \E k \in {"Timeout", "Cancelled"} : GiveUp(k)
    \/ Exhaust

Spec == Init /\ [][Next]_vars
=============================================================================
