----------------------------- MODULE SplitVector -----------------------------
(* SplitVector: a sequence kept in one allocation with a gap where it was last
   changed. "items" is the sequence the callers mean, a history variable of the
   model; what the gap holds is left over from earlier moves, as in the code.   *)
EXTENDS Integers, Sequences, SequencesExt

CONSTANTS
    Elements,      \* what is stored
    Empty,         \* the value-initialised element
    GrowSize,      \* growSize a vector is made with
    MaxItems       \* bound: elements stored

ASSUME SplitVectorBounds == Empty \in Elements /\ GrowSize \in Nat /\ MaxItems \in Nat

VARIABLES gapped, items
splitVars == <<gapped, items>>

NoElements == [body |-> <<>>, length |-> 0, part1 |-> 0, gap |-> 0, grow |-> 8]
SplitInit == gapped = [NoElements EXCEPT !.grow = GrowSize] /\ items = <<>>

(* The index in the allocation of an element, and the element there. *)
Index(v, position) == IF position < v.part1 THEN position ELSE v.gap + position
ValueAt(v, position) ==
    IF position \in 0 .. v.length - 1 THEN v.body[Index(v, position) + 1] ELSE Empty
SetValueAt(v, position, value) == [v EXCEPT !.body[Index(v, position) + 1] = value]

-----------------------------------------------------------------------------
Moved(body, from, to, count) ==
    [k \in DOMAIN body |->
        IF k \in to + 1 .. to + count THEN body[k - to + from] ELSE body[k]]

(* Move the gap; its cells keep what was in them. *)
Bug_GapTo(v, position) == [v EXCEPT !.part1 = position]
GapTo(v, position) ==
    IF position < v.part1
    THEN [v EXCEPT !.part1 = position,
                   !.body = Moved(@, position, v.gap + position, v.part1 - position)]
    ELSE [v EXCEPT !.part1 = position,
                   !.body = Moved(@, v.part1 + v.gap, v.part1, position - v.part1)]

ReAllocate(v, size) ==
    IF size > Len(v.body)
    THEN LET atEnd == GapTo(v, v.length)
         IN [atEnd EXCEPT !.gap = @ + size - Len(v.body),
                          !.body = @ \o [k \in 1 .. size - Len(v.body) |-> Empty]]
    ELSE v

Grown(grow, size) ==
    CHOOSE g \in {grow, 2 * grow, 4 * grow, 8 * grow} :
        /\ g >= size \div 6
        /\ \A h \in {grow, 2 * grow, 4 * grow} : h < g => h < size \div 6
RoomFor(v, length) ==
    IF v.gap < length
    THEN LET grow == Grown(IF v.grow = 0 THEN 1 ELSE v.grow, Len(v.body))
         IN ReAllocate([v EXCEPT !.grow = grow], Len(v.body) + length + grow)
    ELSE v

(* Insert, InsertValue, InsertEmpty and InsertFromArray differ in the values. *)
InsertFromArray(v, position, data) ==
    IF data = <<>> THEN v
    ELSE LET open == GapTo(RoomFor(v, Len(data)), position)
         IN [open EXCEPT !.body = [k \in DOMAIN @ |->
                 IF k \in position + 1 .. position + Len(data) THEN data[k - position] ELSE @[k]],
               !.length = @ + Len(data), !.part1 = @ + Len(data), !.gap = @ - Len(data)]

Bug_DeleteRange(v, position, length) ==
    IF position = 0 /\ length = v.length THEN NoElements
    ELSE [GapTo(v, position) EXCEPT !.length = @ - length]
DeleteRange(v, position, length) ==
    IF position = 0 /\ length = v.length THEN NoElements
    ELSE IF length > 0
    THEN LET closed == GapTo(v, position)
         IN [closed EXCEPT !.length = @ - length, !.gap = @ + length]
    ELSE v

(* The address callers read a contiguous range from. *)
RangePointer(v, position, length) ==
    IF position < v.part1
    THEN IF position + length > v.part1
         THEN [vector |-> GapTo(v, position), at |-> position + v.gap]
         ELSE [vector |-> v, at |-> position]
    ELSE [vector |-> v, at |-> position + v.gap]

BufferPointer(v) ==
    LET atEnd == GapTo(RoomFor(v, 1), v.length)
    IN [atEnd EXCEPT !.body[v.length + 1] = Empty]

GetRange(v, position, length) ==
    LET before == IF position < v.part1
                  THEN IF length > v.part1 - position THEN v.part1 - position ELSE length
                  ELSE 0
        after == position + before + v.gap
    IN SubSeq(v.body, position + 1, position + before)
           \o SubSeq(v.body, after + 1, after + length - before)

-----------------------------------------------------------------------------
(* The callers' steps, each with what it means. *)

InsertItems ==
    \E position \in 0 .. Len(items), count \in 1 .. MaxItems - Len(items), e \in Elements :
        LET data == [k \in 1 .. count |-> e]
        IN /\ gapped' = InsertFromArray(gapped, position, data)
           /\ items' = SubSeq(items, 1, position) \o data \o SubSeq(items, position + 1, Len(items))
RemoveItems ==
    \E position \in 0 .. Len(items) : \E length \in 0 .. Len(items) - position :
        /\ gapped' = DeleteRange(gapped, position, length)
        /\ items' = SubSeq(items, 1, position) \o SubSeq(items, position + length + 1, Len(items))
OverwriteItem ==
    \E position \in 0 .. Len(items) - 1, e \in Elements :
        /\ gapped' = SetValueAt(gapped, position, e)
        /\ items' = [items EXCEPT ![position + 1] = e]
ReadContiguous ==
    /\ \/ \E position \in 0 .. Len(items) : \E length \in 1 .. Len(items) - position :
              gapped' = RangePointer(gapped, position, length).vector
       \/ gapped' = BufferPointer(gapped)
    /\ UNCHANGED items

SplitNext == InsertItems \/ RemoveItems \/ OverwriteItem \/ ReadContiguous

-----------------------------------------------------------------------------
(* Type invariant, with the one the class states: gapLength = body.size() - lengthBody. *)
SplitTypeOK ==
    /\ Range(gapped.body) \subseteq Elements
    /\ gapped.part1 \in 0 .. gapped.length
    /\ gapped.gap = Len(gapped.body) - gapped.length

(* Read element by element, as a range over the gap, or through a pointer, the
   allocation holds the sequence the callers built.                            *)
GapHidesNothing ==
    /\ [k \in 1 .. gapped.length |-> ValueAt(gapped, k - 1)] = items
    /\ \A position \in 0 .. Len(items) : \A length \in 0 .. Len(items) - position :
          LET wanted == SubSeq(items, position + 1, position + length)
              range == RangePointer(gapped, position, length)
          IN /\ GetRange(gapped, position, length) = wanted
             /\ length > 0 =>
                    SubSeq(range.vector.body, range.at + 1, range.at + length) = wanted

(* The gap is nowhere to be seen. *)
GapIsHidden == SplitTypeOK /\ GapHidesNothing
===============================================================================
