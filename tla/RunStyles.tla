------------------------------ MODULE RunStyles ------------------------------
(* RunStyles: a value for every position, kept as runs of equal values. "starts"
   divides the positions, "styles" holds a value for each run and an unused one at
   the end. Runs and positions begin at 0, as in the code.                      *)
EXTENDS Integers, Sequences, SequencesExt, StepReach

P == INSTANCE Partitioning

NoRuns == [starts |-> P!One, styles |-> <<0, 0>>]

Runs(r) == P!Partitions(r.starts)
Start(r, run) == P!PositionFromPartition(r.starts, run)
Length(r) == Start(r, Runs(r))
StyleOf(r, run) == r.styles[run + 1]
ValueAt(r, position) == StyleOf(r, P!PartitionFromPosition(r.starts, position))
EndRun(r, position) == Start(r, P!PartitionFromPosition(r.starts, position) + 1)

(* The first run at a position: there may be an empty one before. *)
RunFromPosition(r, position) ==
    LET run == P!PartitionFromPosition(r.starts, position)
        back[k \in 0 .. run] ==
            IF k > 0 /\ Start(r, k - 1) = position THEN back[k - 1] ELSE k
    IN back[run]

WithRuns(r, run, positions, styles) ==
    [starts |-> P!InsertPartitions(r.starts, run, positions),
     styles |-> SubSeq(r.styles, 1, run) \o styles \o SubSeq(r.styles, run + 1, Len(r.styles))]
RemoveRun(r, run) ==
    [starts |-> P!RemovePartition(r.starts, run), styles |-> RemoveAt(r.styles, run + 1)]
RemoveRuns(r, run, count) ==
    LET removed[n \in 0 .. count] == IF n = 0 THEN r ELSE RemoveRun(removed[n - 1], run)
    IN removed[count]

(* A boundary at a position, continuing the style there. *)
SplitRun(r, position) ==
    LET run == RunFromPosition(r, position)
    IN IF Start(r, run) < position
       THEN [runs |-> WithRuns(r, run + 1, <<position>>, <<ValueAt(r, position)>>), run |-> run + 1]
       ELSE [runs |-> r, run |-> run]

RemoveRunIfEmpty(r, run) ==
    IF run < Runs(r) /\ Runs(r) > 1 /\ Start(r, run) = Start(r, run + 1)
    THEN RemoveRun(r, run) ELSE r
RemoveRunIfSameAsPrevious(r, run) ==
    IF run > 0 /\ run < Runs(r) /\ StyleOf(r, run - 1) = StyleOf(r, run)
    THEN RemoveRun(r, run) ELSE r

WithText(r, run, delta) == [r EXCEPT !.starts = P!InsertText(@, run, delta)]

-----------------------------------------------------------------------------
(* FillRange. What is filled already at either end is left out, and reported so. *)

NoChange(r, position, length) ==
    [runs |-> r, changed |-> FALSE, position |-> position, length |-> length]

(* Runs from "first" up to the boundary at "end" become one run of the value, which
   then joins an equal neighbour on either side.                                *)
OneRun(r, first, last, value) ==
    RemoveRuns([r EXCEPT !.styles[first + 1] = value], first + 1, last - first - 1)
JoinedAt(r, position) == RemoveRunIfSameAsPrevious(r, RunFromPosition(r, position))
ClosedAt(r, position) == RemoveRunIfEmpty(r, RunFromPosition(r, position))
Bug_Merged(r, first, last, end, value) ==
    ClosedAt(JoinedAt(OneRun(r, first, last, value), end), end)
Merged(r, first, last, end, value) ==
    ClosedAt(RemoveRunIfSameAsPrevious(JoinedAt(OneRun(r, first, last, value), end), first), end)

Changed(runs, position, end) ==
    [runs |-> runs, changed |-> TRUE, position |-> position, length |-> end - position]

(* A run begins at each end of the range. *)
FillRuns(split, position, value, end, last) ==
    IF split.run < last
    THEN Changed(Merged(split.runs, split.run, last, end, value), position, end)
    ELSE NoChange(split.runs, position, end - position)

(* The range ends at a boundary, that of run "last". *)
Bug_FillFrom(r, position, value, end, last) ==
    LET first == RunFromPosition(r, position)
        shift == IF Start(r, first) < position THEN 1 ELSE 0
    IN IF StyleOf(r, first) # value
       THEN FillRuns(SplitRun(r, position), position, value, end, last + shift)
       ELSE IF first + 1 < last
       THEN [Changed(Merged(r, first + 1, last, end, value), position, end)
                EXCEPT !.length = end - Start(r, first + 1)]
       ELSE NoChange(r, position, end - position)
FillFrom(r, position, value, end, last) ==
    LET first == RunFromPosition(r, position)
        shift == IF Start(r, first) < position THEN 1 ELSE 0
    IN IF StyleOf(r, first) # value
       THEN FillRuns(SplitRun(r, position), position, value, end, last + shift)
       ELSE IF first + 1 < last
       THEN Changed(Merged(r, first + 1, last, end, value), Start(r, first + 1), end)
       ELSE NoChange(r, position, end - position)

FillSplit(split, position, value, end) ==
    FillFrom(split.runs, position, value, end, split.run)
FillRange(r, position, value, length) ==
    LET end == position + length
        run == RunFromPosition(r, end)
    IN IF length <= 0 \/ end > Length(r) THEN NoChange(r, position, length)
       ELSE IF StyleOf(r, run) = value
       THEN IF position >= Start(r, run) THEN NoChange(r, position, length)
            ELSE FillFrom(r, position, value, Start(r, run), run)
       ELSE IF position > Start(r, run) /\ end < Start(r, run + 1)
       THEN Changed(WithRuns(r, run + 1, <<position, end>>, <<value, StyleOf(r, run)>>),
                    position, end)
       ELSE FillSplit(SplitRun(r, end), position, value, end)

SetValueAt(r, position, value) == FillRange(r, position, value, 1).runs

-----------------------------------------------------------------------------
Bug_InsertSpace(r, position, length) ==
    LET run == RunFromPosition(r, position)
    IN IF run > 0 /\ Start(r, run) = position
       THEN WithText(r, run - 1, length) ELSE WithText(r, run, length)
InsertSpace(r, position, length) ==
    LET run == RunFromPosition(r, position)
        style == ValueAt(r, position)
        unstyled == WithRuns([r EXCEPT !.styles[1] = 0], 1, <<0>>, <<style>>)
    IN IF Start(r, run) # position \/ style = 0 THEN WithText(r, run, length)
       ELSE IF run = 0 THEN WithText(unstyled, 0, length)
       ELSE WithText(r, run - 1, length)

(* The runs between two boundaries are removed with their text. *)
Emptied(from, to, length) ==
    RemoveRuns(WithText(to.runs, from.run, -length), from.run, to.run - from.run)
DeleteRuns(from, end, length) ==
    RemoveRunIfSameAsPrevious(
        RemoveRunIfEmpty(Emptied(from, SplitRun(from.runs, end), length), from.run), from.run)
DeleteRange(r, position, length) ==
    LET end == position + length
        first == RunFromPosition(r, position)
    IN IF first = RunFromPosition(r, end)
       THEN RemoveRunIfEmpty(WithText(r, first, -length), first)
       ELSE DeleteRuns(SplitRun(r, position), end, length)

AllSameAs(r, value) == \A run \in 0 .. Runs(r) - 1 : StyleOf(r, run) = value

(* The value of every position; and what Check() asks of the representation. *)
Values(r) == [k \in 1 .. Length(r) |-> ValueAt(r, k - 1)]
IsSound(r) ==
    /\ Len(r.styles) = Runs(r) + 1 /\ Runs(r) >= 1
    /\ Length(r) > 0 => \A run \in 0 .. Runs(r) - 1 : Start(r, run) < Start(r, run + 1)
    /\ r.styles[Len(r.styles)] = 0
    /\ \A run \in 1 .. Runs(r) - 1 : StyleOf(r, run) # StyleOf(r, run - 1)
===============================================================================
