----------------------------- MODULE Partitioning -----------------------------
(* Partitioning: ascending positions that divide an interval, where a length still
   to be added to every position after "step" is kept aside. Indexes begin at 0,
   as in the code; body[k + 1] is the position of partition k.                  *)
EXTENDS Integers, Sequences, SequencesExt, StepReach

One == [body |-> <<0, 0>>, step |-> 0, length |-> 0]

Partitions(p) == Len(p.body) - 1

RangeAddDelta(body, start, end, delta) ==
    [k \in DOMAIN body |-> IF k \in start + 1 .. end THEN body[k] + delta ELSE body[k]]

(* Move the step forward, or back. *)
ApplyStep(p, upTo) ==
    LET body == RangeAddDelta(p.body, p.step + 1, upTo + 1, p.length)
    IN IF upTo >= Partitions(p) THEN [body |-> body, step |-> Partitions(p), length |-> 0]
       ELSE [body |-> body, step |-> upTo, length |-> p.length]
Bug_BackStep(p, downTo) == [p EXCEPT !.step = downTo]
BackStep(p, downTo) ==
    [p EXCEPT !.body = RangeAddDelta(@, downTo + 1, p.step + 1, -p.length), !.step = downTo]

StepTo(p, partition) == IF p.step < partition THEN ApplyStep(p, partition) ELSE p

InsertPartitions(p, partition, positions) ==
    LET stepped == StepTo(p, partition)
    IN [stepped EXCEPT !.body = SubSeq(@, 1, partition) \o positions
                                    \o SubSeq(@, partition + 1, Len(@)),
                       !.step = @ + Len(positions)]
InsertPartition(p, partition, position) == InsertPartitions(p, partition, <<position>>)

SetPartitionStartPosition(p, partition, position) ==
    [ApplyStep(p, partition + 1) EXCEPT !.body[partition + 1] = position]

InsertText(p, partition, delta) ==
    IF p.length = 0 THEN [p EXCEPT !.step = partition, !.length = delta]
    ELSE IF partition >= p.step
         THEN LET on == ApplyStep(p, partition) IN [on EXCEPT !.length = @ + delta]
    ELSE IF partition >= p.step - Len(p.body) \div NearFraction
         THEN LET back == BackStep(p, partition) IN [back EXCEPT !.length = @ + delta]
    ELSE [ApplyStep(p, Partitions(p)) EXCEPT !.step = partition, !.length = delta]

RemovePartition(p, partition) ==
    LET stepped == StepTo(p, partition)
    IN [stepped EXCEPT !.body = RemoveAt(@, partition + 1), !.step = @ - 1]

PositionFromPartition(p, partition) ==
    IF partition \in 0 .. Partitions(p)
    THEN p.body[partition + 1] + (IF partition > p.step THEN p.length ELSE 0)
    ELSE 0

Length(p) == PositionFromPartition(p, Partitions(p))

(* The binary search rounds high: it finds the last partition at or before. *)
PartitionFromPosition(p, position) ==
    LET search[lower \in 0 .. Partitions(p), upper \in -1 .. Partitions(p)] ==
            IF lower >= upper THEN lower
            ELSE LET middle == (upper + lower + 1) \div 2
                 IN IF position < PositionFromPartition(p, middle)
                    THEN search[lower, middle - 1] ELSE search[middle, upper]
    IN IF Partitions(p) = 0 THEN 0
       ELSE IF position >= Length(p) THEN Partitions(p) - 1
       ELSE search[0, Partitions(p)]

(* Every position, with the step applied. *)
Positions(p) == [k \in 1 .. Len(p.body) |-> PositionFromPartition(p, k - 1)]
===============================================================================
