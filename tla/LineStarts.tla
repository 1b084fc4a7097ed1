------------------------------ MODULE LineStarts ------------------------------
(* CellBuffer's index of line starts and the markers kept for each line. An edit
   looks only at the characters it inserts or deletes and at those next to them,
   with CR, LF and CR LF all ending a line. "marked" holds the handles of the
   markers a caller still has, a history variable of the model.                *)
EXTENDS Integers, Sequences, SequencesExt, StepReach

CONSTANTS
    Other,         \* a character that ends no line
    MaxChars,      \* bound: length of the text
    MaxTyped,      \* bound: characters inserted at once
    Handles        \* marker handles, a bound on markers

ASSUME LineBounds == Other \notin {"CR", "LF"} /\ MaxChars \in Nat /\ MaxTyped \in Nat

VARIABLES lines, marked
lineVars == <<lines, marked>>

P == INSTANCE Partitioning

CR == "CR"
LF == "LF"
Nothing == "NUL"     \* what ValueAt gives outside the text
Characters == {Other, CR, LF}

LinesInit == lines = [text |-> <<>>, starts |-> P!One, markers |-> <<>>] /\ marked = {}

CharAt(text, position) == IF position \in 0 .. Len(text) - 1 THEN text[position + 1] ELSE Nothing
LinesTotal(b) == P!Partitions(b.starts)
LineStart(b, line) == P!PositionFromPartition(b.starts, line)
LineFromPosition(b, position) == P!PartitionFromPosition(b.starts, position)

-----------------------------------------------------------------------------
(* LineVector: the index, and the markers that follow it. *)

(* Lines made at the start of a line go before it, so that it keeps its markers. *)
Bug_InsertLineStarts(b, line, positions, lineStart) ==
    [b EXCEPT !.starts = P!InsertPartitions(@, line, positions)]
InsertLineStarts(b, line, positions, lineStart) ==
    LET before == IF line > 0 /\ lineStart THEN line - 1 ELSE line
    IN [b EXCEPT !.starts = P!InsertPartitions(@, line, positions),
                 !.markers = IF @ = <<>> THEN @
                             ELSE SubSeq(@, 1, before) \o [k \in DOMAIN positions |-> {}]
                                      \o SubSeq(@, before + 1, Len(@))]

(* The markers of a line that goes are merged into the line before. *)
Bug_RemoveLine(b, line) ==
    [b EXCEPT !.starts = P!RemovePartition(@, line),
              !.markers = IF @ = <<>> THEN @ ELSE RemoveAt(@, line + 1)]
RemoveLine(b, line) ==
    [b EXCEPT !.starts = P!RemovePartition(@, line),
              !.markers = IF @ = <<>> THEN @
                          ELSE RemoveAt([@ EXCEPT ![line] = @ \cup b.markers[line + 1]], line + 1)]
SetLineStart(b, line, position) ==
    [b EXCEPT !.starts = P!SetPartitionStartPosition(@, line, position)]
MoveLines(b, line, delta) == [b EXCEPT !.starts = P!InsertText(@, line, delta)]

-----------------------------------------------------------------------------
(* CellBuffer::BasicInsertString *)

(* The places after line ends in the inserted text, from the character after
   "skipped"; a CR at its very end always counts.                              *)
EndsIn(data, skipped) ==
    {k \in skipped + 1 .. Len(data) :
        data[k] = LF \/ (data[k] = CR /\ (k = Len(data) \/ data[k + 1] # LF))}

Bug_BasicInsertString(b, position, data) ==
    LET line == LineFromPosition(b, position)
        moved == MoveLines(b, line, Len(data))
        ends == SetToSortSeq(EndsIn(data, 0), <)
    IN [InsertLineStarts(moved, line + 1, [k \in DOMAIN ends |-> position + ends[k]],
                    LineStart(b, line) = position)
        EXCEPT !.text = SubSeq(@, 1, position) \o data \o SubSeq(@, position + 1, Len(@))]

BasicInsertString(b, position, data) ==
    LET chAfter == CharAt(b.text, position)
        chPrev == CharAt(b.text, position - 1)
        line == LineFromPosition(b, position)
        atLineStart == LineStart(b, line) = position
        moved == MoveLines(b, line, Len(data))
        splitting == chPrev = CR /\ chAfter = LF
        apart == IF splitting THEN InsertLineStarts(moved, line + 1, <<position>>, FALSE) ELSE moved
        lineInsert == IF splitting THEN line + 2 ELSE line + 1
        joining == chPrev = CR /\ data[1] = LF
        patched == IF joining THEN SetLineStart(apart, lineInsert - 1, position + 1) ELSE apart
        ends == SetToSortSeq(EndsIn(data, IF joining THEN 1 ELSE 0), <)
        opened == IF ends = <<>> THEN patched
                  ELSE InsertLineStarts(patched, lineInsert,
                           [k \in DOMAIN ends |-> position + ends[k]], atLineStart)
        closed == IF chAfter = LF /\ data[Len(data)] = CR
                  THEN RemoveLine(opened, lineInsert + Len(ends) - 1) ELSE opened
    IN [closed EXCEPT !.text = SubSeq(@, 1, position) \o data \o SubSeq(@, position + 1, Len(@))]

(* CellBuffer::BasicDeleteChars *)
BasicDeleteChars(b, position, length) ==
    LET chBefore == CharAt(b.text, position - 1)
        line == LineFromPosition(b, position)
        moved == MoveLines(b, line, -length)
        inPair == chBefore = CR /\ CharAt(b.text, position) = LF
        back == IF inPair THEN SetLineStart(moved, line + 1, position) ELSE moved
        lineRemove == IF inPair THEN line + 2 ELSE line + 1
        ended == {k \in position .. position + length - 1 :
                     \/ CharAt(b.text, k) = CR /\ CharAt(b.text, k + 1) # LF
                     \/ CharAt(b.text, k) = LF /\ ~ (inPair /\ k = position)}
        removed[n \in 0 .. Cardinality(ended)] ==
            IF n = 0 THEN back ELSE RemoveLine(removed[n - 1], lineRemove)
        without == removed[Cardinality(ended)]
        closed == IF chBefore = CR /\ CharAt(b.text, position + length) = LF
                  THEN SetLineStart(RemoveLine(without, lineRemove - 1),
                                    lineRemove - 1, position + 1)
                  ELSE without
        all == [b EXCEPT !.starts = P!One, !.markers = <<>>]
    IN [IF position = 0 /\ length = Len(b.text) THEN all ELSE closed
        EXCEPT !.text = SubSeq(@, 1, position) \o SubSeq(@, position + length + 1, Len(@))]

-----------------------------------------------------------------------------
(* The callers' steps. *)

StringInserted ==
    \E position \in 0 .. Len(lines.text),
       data \in UNION {[1 .. n -> Characters] : n \in 1 .. MaxTyped} :
        /\ Len(lines.text) + Len(data) <= MaxChars
        /\ lines' = BasicInsertString(lines, position, data) /\ UNCHANGED marked
CharsDeleted ==
    \E position \in 0 .. Len(lines.text) - 1 : \E length \in 1 .. Len(lines.text) - position :
        /\ lines' = BasicDeleteChars(lines, position, length)
        /\ marked' = IF length = Len(lines.text) THEN {} ELSE marked

(* LineMarkers::AddMark makes a set for every line with the first marker. *)
AddMark ==
    \E line \in 0 .. LinesTotal(lines) - 1, handle \in Handles \ marked :
        LET sets == IF lines.markers = <<>> THEN [k \in 1 .. LinesTotal(lines) |-> {}]
                    ELSE lines.markers
        IN /\ lines' = [lines EXCEPT !.markers = [sets EXCEPT ![line + 1] = @ \cup {handle}]]
           /\ marked' = marked \cup {handle}
DeleteMarkFromHandle ==
    \E handle \in marked :
        /\ lines' = [lines EXCEPT !.markers = [k \in DOMAIN @ |-> @[k] \ {handle}]]
        /\ marked' = marked \ {handle}

LinesNext == StringInserted \/ CharsDeleted \/ AddMark \/ DeleteMarkFromHandle

-----------------------------------------------------------------------------
(* Properties. *)

(* Where the lines of the whole text start. *)
StartsOf(text) ==
    {0} \cup {k \in 1 .. Len(text) :
                 text[k] = LF \/ (text[k] = CR /\ CharAt(text, k) # LF)}

(* The index kept edit by edit is the one a scan of the whole text would give,
   through pairs of CR and LF that edits split, join and cut in half; and a search
   in it finds the line of every position.                                      *)
StartsAreExact ==
    /\ P!Positions(lines.starts) =
          Append(SetToSortSeq(StartsOf(lines.text), <), Len(lines.text))
    /\ \A position \in 0 .. Len(lines.text) :
          LET line == LineFromPosition(lines, position)
          IN /\ LineStart(lines, line) <= position
             /\ line < LinesTotal(lines) - 1 => position < LineStart(lines, line + 1)

(* There are as many sets of markers as lines once there are any: MarkValue and
   AddMark index them by line.                                                  *)
OneSetForEachLine ==
    lines.markers = <<>> \/ Len(lines.markers) = LinesTotal(lines)

(* An edit that leaves text behind loses no marker and copies none: merging,
   splitting and moving lines, every handle given out is on exactly one line.   *)
MarkersAreKept ==
    /\ UNION Range(lines.markers) = marked
    /\ \A j, k \in DOMAIN lines.markers :
          j # k => lines.markers[j] \cap lines.markers[k] = {}

(* Line starts and what is kept per line follow the text. *)
LinesAreKept == StartsAreExact /\ OneSetForEachLine /\ MarkersAreKept
===============================================================================
