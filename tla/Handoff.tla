------------------------------- MODULE Handoff -------------------------------
(***************************************************************************)
(* What a connector that keeps nothing promises about the work it is       *)
(* handed: whoever handed it over goes on holding it until it is done, or  *)
(* an attempt at it has failed.  It may be done without being let go of,   *)
(* and then be done again; it is never let go of unattempted.              *)
(***************************************************************************)
CONSTANT Item

VARIABLES
    offered,       \* what was handed over
    held,          \* what its owner can still hand over again
    done,
    spoiled        \* what an attempt has failed at

Init == offered = {} /\ held = {} /\ done = {} /\ spoiled = {}

Offer ==
    /\ \E S \in SUBSET (Item \ offered) :
          offered' = offered \cup S /\ held' = held \cup S
    /\ UNCHANGED <<done, spoiled>>

Work ==
    /\ done' \in SUBSET offered /\ done \subseteq done'
    /\ spoiled' \in SUBSET offered /\ spoiled \subseteq spoiled'
    /\ held' \in SUBSET held
    /\ held \ held' \subseteq done' \cup spoiled'
    /\ UNCHANGED offered

Spec == Init /\ [][Offer \/ Work]_<<offered, held, done, spoiled>>
=============================================================================
