----------------------------- MODULE DialogPromise -----------------------------
(* What the workspace may rely on of a file dialog it asked for: it could not
   be shown, or it is answered once with what its user chose, or never.       *)
EXTENDS Naturals

CONSTANTS Asks, Answers

VARIABLES outcome,   \* what the workspace was told, by ask
          choice     \* what the user chose, by ask

Asked(n) ==
    /\ outcome[n] = "unasked"
    /\ \E o \in {"failed", "showing"} : outcome' = [outcome EXCEPT ![n] = o]
    /\ UNCHANGED choice

Chooses(n) ==
    /\ choice[n] = "none"
    /\ \E a \in Answers : choice' = [choice EXCEPT ![n] = a]
    /\ UNCHANGED outcome

(* Results are applied together, in one turn of the loop. *)
Answered ==
    /\ \E N \in SUBSET {n \in Asks : outcome[n] = "showing" /\ choice[n] \in Answers} :
          outcome' = [n \in Asks |-> IF n \in N THEN choice[n] ELSE outcome[n]]
    /\ UNCHANGED choice

PromiseInit == outcome = [n \in Asks |-> "unasked"] /\ choice = [n \in Asks |-> "none"]
PromiseNext == Answered \/ \E n \in Asks : Asked(n) \/ Chooses(n)
Promise == PromiseInit /\ [][PromiseNext]_<<outcome, choice>>
=============================================================================
