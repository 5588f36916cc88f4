---------------------------- MODULE SearchPromise ----------------------------
(***************************************************************************)
(* What a search promises to the portal: one answer, within a bound, made  *)
(* of the results of some of the sources, and final.                       *)
(***************************************************************************)
EXTENDS Naturals

CONSTANTS
    Source,
    Bound          \* ticks a user waits at most

VARIABLES
    age,           \* ticks the request has waited
    answered,
    reported       \* the sources whose results the answer has

Init ==
    /\ age = 0
    /\ answered = FALSE
    /\ reported = {}

Wait ==
    /\ ~answered
    /\ age < Bound
    /\ age' = age + 1
    /\ UNCHANGED <<answered, reported>>

Answer ==
    /\ ~answered
    /\ answered' = TRUE
    /\ reported' \in SUBSET Source
    /\ UNCHANGED age

Next == Wait \/ Answer

Spec == Init /\ [][Next]_<<age, answered, reported>>
=============================================================================
