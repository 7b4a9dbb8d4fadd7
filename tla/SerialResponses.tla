-------------------------- MODULE SerialResponses --------------------------
(***************************************************************************)
(* What blocking the unsolicited responses is for: a response that is      *)
(* raised waits until nothing else runs, is run once, and is ignored only  *)
(* if Capacity others are before it.                                       *)
(***************************************************************************)
EXTENDS Integers, FiniteSets

CONSTANTS Capacity, MaxResponses

VARIABLES arrived, waiting, running, done, lost

vars == <<arrived, waiting, running, done, lost>>

Init ==
    /\ arrived = 0
    /\ waiting = {}
    /\ running = {}
    /\ done = {}
    /\ lost = {}

Arrive ==
    /\ arrived < MaxResponses
    /\ arrived' = arrived + 1
    /\ waiting' = waiting \cup {arrived + 1}
    /\ UNCHANGED <<running, done, lost>>

(* The newest response finds every place taken.                            *)
Ignore ==
    /\ arrived \in waiting
    /\ Cardinality(waiting \ {arrived}) + Cardinality(running) >= Capacity
    /\ waiting' = waiting \ {arrived}
    /\ lost' = lost \cup {arrived}
    /\ UNCHANGED <<arrived, running, done>>

Start ==
    /\ running = {}
    /\ \E r \in waiting : waiting' = waiting \ {r} /\ running' = {r}
    /\ UNCHANGED <<arrived, done, lost>>

Finish ==
    /\ running # {}
    /\ done' = done \cup running
    /\ running' = {}
    /\ UNCHANGED <<arrived, waiting, lost>>

Next == Arrive \/ Ignore \/ Start \/ Finish

Spec == Init /\ [][Next]_vars

FairSpec == Spec /\ WF_vars(Start) /\ WF_vars(Finish)
=============================================================================
