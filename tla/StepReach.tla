------------------------------ MODULE StepReach ------------------------------
(* Partitioning::InsertText moves its step back, rather than to the end and then
   back in one jump, when the change is within this fraction of the partitions:
   a tenth in the code, a larger part where a small instance has to meet it.   *)
EXTENDS Naturals

CONSTANT NearFraction

ASSUME NearFractionAssumption == NearFraction \in Nat \ {0}
===============================================================================
