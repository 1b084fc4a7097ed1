------------------------------- MODULE Selections -------------------------------
(* The editor's selection: one stream, several, or the rows of a rectangle. A drag
   adds a range over a saved copy of the others; typing and deleting go through the
   ranges one after the other while every change of the text moves them all; and
   text also changes under a selection that stands. Columns are those of a fixed
   font without tabs and there is no virtual space. Line-mode selections, overtype,
   word and line clicks, margins and drawing are left out.                     *)
EXTENDS Integers, Sequences, FiniteSets, SequencesExt, FiniteSetsExt

CONSTANTS
    Pages,         \* the texts a document may open with: TRUE is a line end
    Rows,          \* the same when several selections are on
    MaxLetters,    \* bound: length of the text
    MaxRows,       \* bound: ranges at once, the rows of a rectangle
    MaxRanges,     \* bound: the same when several selections are on
    MaxPlaces,     \* bound: ranges and letters together
    MaxHeld        \* bound: edits and other changes of the text while the button is held

ASSUME SelectionBounds == {MaxLetters, MaxRows, MaxRanges, MaxPlaces, MaxHeld} \subseteq Nat

(* "page" holds the text and the selection. Of each character it is kept whether it
   ends a line and "held", whether it belonged to the selection after the last
   command: a history variable. "astray" is another: a gesture SelectionIsSound names
   has left ranges over each other or past the end of the text. "during" counts the
   edits and changes of the text since the button went down.                   *)
VARIABLES page, mouse, several, astray
selectionVars == <<page, mouse, several, astray>>

From(caret, anchor) == [caret |-> caret, anchor |-> anchor]
At(position) == From(position, position)
First(range) == IF range.anchor < range.caret THEN range.anchor ELSE range.caret
Last1(range) == IF range.anchor < range.caret THEN range.caret ELSE range.anchor
IsBlank(range) == range.anchor = range.caret
Holds(range, k) == First(range) <= k /\ k < Last1(range)

Fresh ==
    [ranges |-> <<At(0)>>, main |-> 1, type |-> "stream", rect |-> At(0),
     saved |-> <<>>, tentative |-> FALSE]
MainRange(sel) == sel.ranges[sel.main]
IsRectangular(sel) == sel.type # "stream"
AllBlank(sel) == \A i \in DOMAIN sel.ranges : IsBlank(sel.ranges[i])

SelectionsInit ==
    /\ several \in BOOLEAN
    /\ \E text \in (IF several THEN Rows ELSE Pages) :
          page = [text |-> [k \in DOMAIN text |-> [end |-> text[k], held |-> FALSE]], sel |-> Fresh]
    /\ mouse = [captured |-> FALSE, onSelection |-> FALSE, during |-> 0]
    /\ astray = FALSE

-----------------------------------------------------------------------------
(* Positions that move with the text. *)

Length(p) == Len(p.text)
MovedByInsertion(position, start, length, moveForEqual) ==
    IF position > start \/ (position = start /\ moveForEqual) THEN position + length ELSE position
MovedByDeletion(position, start, length) ==
    IF position > start + length THEN position - length
    ELSE IF position > start THEN start ELSE position

Bug_MoveForInsertDelete(range, insertion, start, length) ==
    IF insertion
    THEN From(MovedByInsertion(range.caret, start, length, FALSE),
              MovedByInsertion(range.anchor, start, length, FALSE))
    ELSE From(MovedByDeletion(range.caret, start, length), MovedByDeletion(range.anchor, start, length))
MoveForInsertDelete(range, insertion, start, length) ==
    IF insertion
    THEN From(MovedByInsertion(range.caret, start, length, range.caret < range.anchor),
              MovedByInsertion(range.anchor, start, length, range.anchor < range.caret))
    ELSE From(MovedByDeletion(range.caret, start, length), MovedByDeletion(range.anchor, start, length))

MovePositions(sel, insertion, start, length) ==
    LET moved(range) == MoveForInsertDelete(range, insertion, start, length)
    IN [sel EXCEPT !.ranges = [i \in DOMAIN @ |-> moved(@[i])],
                   !.rect = IF IsRectangular(sel) THEN moved(@) ELSE @]

(* A character typed inside a range belongs to the selection from then on. *)
InsertedInto(p, start) ==
    LET inside == \E i \in DOMAIN p.sel.ranges :
            First(p.sel.ranges[i]) < start /\ start < Last1(p.sel.ranges[i])
    IN [text |-> InsertAt(p.text, start + 1, [end |-> FALSE, held |-> inside]),
        sel |-> MovePositions(p.sel, TRUE, start, 1)]
DeletedFrom(p, start, length) ==
    IF length = 0 \/ start < 0 THEN p
    ELSE [text |-> SubSeq(p.text, 1, start) \o SubSeq(p.text, start + length + 1, Len(p.text)),
          sel |-> MovePositions(p.sel, FALSE, start, length)]

-----------------------------------------------------------------------------
(* Selection *)

Touches(range, by) == First(by) <= Last1(range) /\ Last1(by) >= First(range)
(* What is left of a range when another takes its characters: nothing when either
   covers the other, at its start.                                             *)
TrimmedEnds(range, by) ==
    LET inner == First(range) > First(by) /\ Last1(range) < Last1(by)
        outer == First(range) < First(by) /\ Last1(range) > Last1(by)
    IN IF inner \/ outer THEN <<First(range), First(range)>>
       ELSE IF First(range) <= First(by) THEN <<First(range), First(by)>>
       ELSE <<Last1(by), Last1(range)>>
Trim(range, by) ==
    IF ~ Touches(range, by) THEN range
    ELSE LET ends == TrimmedEnds(range, by)
         IN IF range.anchor > range.caret THEN From(ends[1], ends[2]) ELSE From(ends[2], ends[1])

KeptOf(sel, keep) ==
    [sel EXCEPT !.ranges = [i \in DOMAIN keep |-> @[keep[i]]],
                !.main = @ - Cardinality({i \in DOMAIN sel.ranges : i <= @} \ Range(keep))]
Indexes(sel) == [i \in DOMAIN sel.ranges |-> i]

Bug_TrimSelection(sel, by) ==
    [sel EXCEPT !.ranges = [i \in DOMAIN @ |-> IF i = sel.main THEN @[i] ELSE Trim(@[i], by)]]
TrimSelection(sel, by) ==
    LET trimmed == [sel EXCEPT !.ranges =
                        [i \in DOMAIN @ |-> IF i = sel.main THEN @[i] ELSE Trim(@[i], by)]]
        stays(i) == \/ i = sel.main \/ ~ Touches(sel.ranges[i], by)
                    \/ ~ IsBlank(trimmed.ranges[i])
    IN KeptOf(trimmed, SelectSeq(Indexes(sel), stays))
TrimOtherSelections(sel, r, by) ==
    [sel EXCEPT !.ranges = [i \in DOMAIN @ |-> IF i = r THEN by ELSE Trim(@[i], by)]]

SetOnly(sel, range) == [sel EXCEPT !.ranges = <<range>>, !.main = 1]
AddSelectionWithoutTrim(sel, range) ==
    [sel EXCEPT !.ranges = Append(@, range), !.main = Len(sel.ranges) + 1]
AddSelection(sel, range) == AddSelectionWithoutTrim(TrimSelection(sel, range), range)
DropAdditionalRanges(sel) == SetOnly(sel, MainRange(sel))
DropSelection(sel, r) ==
    IF Len(sel.ranges) = 1 THEN sel
    ELSE [sel EXCEPT !.ranges = RemoveAt(@, r),
              !.main = IF @ < r THEN @ ELSE IF @ = 1 THEN Len(sel.ranges) - 1 ELSE @ - 1]
RotateMain(sel) == [sel EXCEPT !.main = (@ % Len(sel.ranges)) + 1]
RemoveDuplicates(sel) ==
    LET r == sel.ranges
        first(i) == ~ \E k \in 1 .. i - 1 : IsBlank(r[k]) /\ r[k] = r[i]
    IN KeptOf(sel, SelectSeq(Indexes(sel), first))

(* A drag shows its range over the ranges there were when it began. *)
TentativeSelection(sel, range) ==
    LET saved == IF sel.tentative THEN sel.saved ELSE sel.ranges
        added == AddSelection([sel EXCEPT !.ranges = saved], range)
    IN [TrimSelection(added, range) EXCEPT !.saved = saved, !.tentative = TRUE]
CommitTentative(sel) == [sel EXCEPT !.saved = <<>>, !.tentative = FALSE]

-----------------------------------------------------------------------------
(* Rectangles: a row for every line between two corners. *)

RowStarts(p) == {0} \cup {k \in DOMAIN p.text : p.text[k].end}
LineOf(p, position) == Cardinality({s \in RowStarts(p) : s < position + 1}) - 1
StartOfLine(p, position) == Max({s \in RowStarts(p) : s < position + 1})
Column(p, position) == position - StartOfLine(p, position)
RowStart(p, line) == CHOOSE s \in RowStarts(p) : LineOf(p, s) = line
RowEnd(p, line) ==
    LET later == {s \in RowStarts(p) : s > RowStart(p, line)}
    IN IF later = {} THEN Length(p) ELSE Min(later) - 1
SPositionFromLineX(p, line, x) == Min({RowStart(p, line) + x, RowEnd(p, line)})

SetRectangularRange(p) ==
    LET rect == p.sel.rect
        xAnchor == Column(p, rect.anchor)
        xCaret == IF p.sel.type = "thin" THEN xAnchor ELSE Column(p, rect.caret)
        from == LineOf(p, rect.anchor)
        to == LineOf(p, rect.caret)
        count == IF to > from THEN to - from + 1 ELSE from - to + 1
        line(i) == IF to > from THEN from + i - 1 ELSE from - i + 1
        row(i) == From(SPositionFromLineX(p, line(i), xCaret), SPositionFromLineX(p, line(i), xAnchor))
    IN IF ~ IsRectangular(p.sel) THEN p
       ELSE [p EXCEPT !.sel.ranges = [i \in 1 .. count |-> row(i)], !.sel.main = count]
ThinRectangularRange(p) ==
    LET ranges == p.sel.ranges
        end == ranges[Len(ranges)]
        corners == IF p.sel.rect.caret < p.sel.rect.anchor
                   THEN From(end.caret, ranges[1].anchor) ELSE From(end.anchor, ranges[1].caret)
    IN IF ~ IsRectangular(p.sel) THEN p
       ELSE SetRectangularRange([p EXCEPT !.sel.type = "thin", !.sel.rect = corners])

(* The rectangle's corners are read only while there is one. *)
WithType(sel, type, rect) ==
    [sel EXCEPT !.type = type, !.rect = IF type = "stream" THEN At(0) ELSE rect]
Rectangle(p, rect) == SetRectangularRange([p EXCEPT !.sel = WithType(@, "rectangle", rect)])

SetSelection(p, range) == SetRectangularRange([p EXCEPT !.sel.ranges[p.sel.main] = range])
SetCaret(p, position) ==
    IF IsRectangular(p.sel) THEN SetRectangularRange([p EXCEPT !.sel.rect.caret = position])
    ELSE [p EXCEPT !.sel.ranges[p.sel.main].caret = position]
SetEmptySelection(p, position) == [p EXCEPT !.sel = SetOnly(Fresh, At(position))]

-----------------------------------------------------------------------------
(* Typing and deleting. *)

FilterSelections(p) == IF several THEN p ELSE [p EXCEPT !.sel = DropAdditionalRanges(@)]
ClearSelectionRange(p, i) ==
    LET r == p.sel.ranges[i] IN DeletedFrom(p, First(r), Last1(r) - First(r))

InsertAtRange(p, i) ==
    LET position == First(p.sel.ranges[i])
    IN [InsertedInto(ClearSelectionRange(p, i), position) EXCEPT !.sel.ranges[i] = At(position + 1)]
Before(range, other) ==
    range.caret < other.caret \/ (range.caret = other.caret /\ range.anchor < other.anchor)
Backwards(sel) ==
    Reverse(SortSeq(Indexes(sel), LAMBDA i, j : Before(sel.ranges[i], sel.ranges[j])))
Bug_InsertCharacter(p) ==
    LET filtered == FilterSelections(p)
    IN ThinRectangularRange(FoldLeft(InsertAtRange, filtered, SubSeq(Backwards(filtered.sel), 1, 1)))
InsertCharacter(p) ==
    LET filtered == FilterSelections(p)
    IN ThinRectangularRange(FoldLeft(InsertAtRange, filtered, Backwards(filtered.sel)))

ClearOne(p, i) ==
    IF IsBlank(p.sel.ranges[i]) THEN p
    ELSE [ClearSelectionRange(p, i) EXCEPT !.sel.ranges[i] = At(First(p.sel.ranges[i]))]
Cleared(p) ==
    LET done == ThinRectangularRange(FoldLeft(ClearOne, p, Indexes(p.sel)))
    IN [done EXCEPT !.sel = RemoveDuplicates(@)]
ClearSelection(p) == Cleared(IF IsRectangular(p.sel) THEN p ELSE FilterSelections(p))

BackAt(p, i) ==
    LET caret == p.sel.ranges[i].caret
    IN IF IsRectangular(p.sel) /\ StartOfLine(p, caret) = caret THEN p ELSE DeletedFrom(p, caret - 1, 1)
DelCharBack(p) ==
    LET filtered == IF IsRectangular(p.sel) THEN p ELSE FilterSelections(p)
        back == ThinRectangularRange(FoldLeft(BackAt, filtered, Indexes(filtered.sel)))
    IN IF AllBlank(filtered.sel) THEN [back EXCEPT !.sel = RemoveDuplicates(@)]
       ELSE ClearSelection(filtered)

InsertPaste(p) ==
    LET cleared == ClearSelection(p)
        start == First(IF IsRectangular(cleared.sel) THEN cleared.sel.rect ELSE MainRange(cleared.sel))
    IN SetEmptySelection(InsertedInto(cleared, start), start + 1)

-----------------------------------------------------------------------------
(* Moving the caret. *)

Beside(p, position, step) ==
    IF position + step \in 0 .. Length(p) THEN position + step ELSE position
Limit(sel, step) ==
    LET ends == {First(sel.ranges[i]) : i \in DOMAIN sel.ranges}
                    \cup {Last1(sel.ranges[i]) : i \in DOMAIN sel.ranges}
    IN CHOOSE e \in ends : \A f \in ends : IF step > 0 THEN f <= e ELSE e <= f
SelectionMove(p, i, step, extends) ==
    LET range == p.sel.ranges[i]
        moved == Beside(p, range.caret, step)
    IN IF extends THEN TrimOtherSelections(p.sel, i, From(moved, range.anchor))
       ELSE [p.sel EXCEPT !.ranges[i] =
                 At(IF IsBlank(range) THEN moved ELSE IF step < 0 THEN First(range) ELSE Last1(range))]
HorizontalMove(p, step, extends) ==
    LET one == IF several THEN p ELSE [p EXCEPT !.sel = DropAdditionalRanges(@)]
        move(q, i) == [q EXCEPT !.sel = SelectionMove(q, i, step, extends)]
        done == IF IsRectangular(p.sel)
                THEN [p EXCEPT !.sel = SetOnly(WithType(@, "stream", At(0)), At(Limit(p.sel, step)))]
                ELSE FoldLeft(move, one, Indexes(one.sel))
    IN [done EXCEPT !.sel = RemoveDuplicates(@)]
RectangularMove(p, step) ==
    LET base == IF IsRectangular(p.sel) THEN p.sel.rect ELSE MainRange(p.sel)
        one == IF IsRectangular(p.sel) THEN p ELSE [p EXCEPT !.sel = DropAdditionalRanges(@)]
        done == Rectangle(one, From(Beside(p, base.caret, step), base.anchor))
    IN [done EXCEPT !.sel = RemoveDuplicates(@)]

-----------------------------------------------------------------------------
(* The mouse. *)

(* First the ranges around the character pointed at, then the carets beside it. *)
PartsUnder(p, position, character) ==
    LET over == {r \in DOMAIN p.sel.ranges : Holds(p.sel.ranges[r], character)}
        beside == {r \in DOMAIN p.sel.ranges : p.sel.ranges[r] = At(position)}
    IN IF over # {} THEN over ELSE beside
SelectionFromPoint(p, position, character) ==
    LET parts == PartsUnder(p, position, character)
    IN IF parts = {} THEN 0 ELSE CHOOSE r \in parts : \A o \in parts : r <= o

Pressed(p, position, add) ==
    IF add THEN [p EXCEPT !.sel = WithType(TentativeSelection(@, At(position)), "stream", At(0))]
    ELSE LET plain == IF Len(p.sel.ranges) > 1 \/ IsRectangular(p.sel)
                      THEN [p EXCEPT !.sel = Fresh] ELSE p
         IN [plain EXCEPT !.sel.ranges[plain.sel.main] = At(position)]
(* With Shift the selection is stretched to the press. *)
Stretched(p, position, alt) ==
    LET set == SetCaret(p, position)
        anchor == IF IsRectangular(set.sel) THEN set.sel.rect.anchor ELSE MainRange(set.sel).anchor
    IN IF alt THEN Rectangle(set, From(position, anchor))
       ELSE [set EXCEPT !.sel = WithType(@, "stream", At(0))]
Dragged(p, position) ==
    IF IsRectangular(p.sel) THEN SetRectangularRange([p EXCEPT !.sel.rect.caret = position])
    ELSE LET range == From(position, MainRange(p.sel).anchor)
         IN IF Len(p.sel.ranges) > 1 THEN [p EXCEPT !.sel = TentativeSelection(@, range)]
            ELSE SetSelection(p, range)
Released(p, position) ==
    LET count == Len(p.sel.ranges)
        set == IF count > 1
               THEN [p EXCEPT !.sel.ranges[p.sel.main] = From(position, p.sel.ranges[count].anchor)]
               ELSE SetSelection(p, From(position, MainRange(p.sel).anchor))
    IN SetRectangularRange([set EXCEPT !.sel = CommitTentative(@)])

-----------------------------------------------------------------------------
(* Commands: afterwards the selection is the user's word, whatever it was. *)

(* All ranges lie in the text; none reaches into another. *)
Inside(p, ranges) ==
    \A i \in DOMAIN ranges : {ranges[i].caret, ranges[i].anchor} \subseteq 0 .. Length(p)
Apart(ranges) ==
    \A i, j \in DOMAIN ranges :
        i # j => Last1(ranges[i]) <= First(ranges[j]) \/ Last1(ranges[j]) <= First(ranges[i])
(* There is a main range, all ranges lie in the text, and each character is inside
   only one: SelectionFromPoint says so and drawing and copying take it so. A caret
   may stand inside another range: a move trims ranges and drops none.         *)
IsSound(p) ==
    LET r == p.sel.ranges
    IN /\ p.sel.main \in DOMAIN r
       /\ Inside(p, r)
       /\ \A i, j \in DOMAIN r : i # j => ~ \E k \in 0 .. Length(p) : Holds(r[i], k) /\ Holds(r[j], k)

Selected(p) == {k \in 0 .. Length(p) - 1 : \E i \in DOMAIN p.sel.ranges : Holds(p.sel.ranges[i], k)}
Settled(p) ==
    LET selected == Selected(p)
    IN [p EXCEPT !.text = [k \in DOMAIN @ |-> [end |-> @[k].end, held |-> k - 1 \in selected]]]
(* "loose": nothing keeps the ranges, or a drag's copy of them, apart and in the text. *)
Gesture(done, loose) == \E p \in {Settled(done)} :
    /\ Len(p.sel.ranges) <= (IF several THEN MaxRanges ELSE MaxRows)
    /\ Len(p.text) <= MaxLetters
    /\ Len(p.sel.ranges) + Len(p.text) <= MaxPlaces
    /\ page' = p
    /\ astray' = (loose /\ ~ (IsSound(p) /\ Apart(p.sel.ranges) /\ Apart(p.sel.saved)))
Becomes(p) == Gesture(p, FALSE)

(* Keys edit and text changes with the button held or not. *)
Still ==
    LET held == mouse.captured \/ page.sel.tentative
    IN /\ held => mouse.during < MaxHeld
       /\ mouse' = [mouse EXCEPT !.during = IF held THEN @ + 1 ELSE @]
       /\ UNCHANGED several
Command(p) == ~ mouse.captured /\ Becomes(p) /\ Still
Edits(p) == Becomes(p) /\ Still
Positions == 0 .. Length(page)

PressDown(position, character, ctrl, alt) ==
    LET part == SelectionFromPoint(page, position, character)
        deselects == part > 0 /\ several /\ ctrl
        base == IF deselects THEN SetSelection(page, At(position)) ELSE page
        grabs == part > 0 /\ ~ IsBlank(base.sel.ranges[part])
        pressed == Pressed(base, position, ctrl /\ several)
    IN /\ IF deselects /\ Len(page.sel.ranges) > 1
          THEN /\ Becomes([page EXCEPT !.sel = DropSelection(@, part)])
               /\ mouse' = [mouse EXCEPT !.onSelection = FALSE]
          ELSE /\ Becomes(IF grabs THEN base
                          ELSE IF alt THEN Rectangle(pressed, At(position)) ELSE pressed)
               /\ mouse' = [mouse EXCEPT !.captured = TRUE, !.onSelection = grabs]
Press ==
    /\ ~ mouse.captured /\ UNCHANGED several
    /\ \E position \in Positions, character \in Positions, ctrl \in BOOLEAN, alt \in BOOLEAN :
          /\ character \in {position - 1, position}
          /\ IF several THEN ~ alt ELSE ~ ctrl
          /\ PressDown(position, character, ctrl, alt)
(* A shifted press stretches the main range; over other ranges, none of which it trims. *)
ShiftPress ==
    /\ ~ mouse.captured /\ UNCHANGED several
    /\ \E position \in Positions, alt \in BOOLEAN :
          /\ several => ~ alt
          /\ Gesture(Stretched(page, position, alt),
                     Len(page.sel.ranges) > 1 /\ ~ IsRectangular(page.sel))
          /\ mouse' = [mouse EXCEPT !.captured = TRUE, !.onSelection = FALSE]
(* A drag of selected text is given up, and with it the gesture, which the release
   still ends. Another goes back to the copy of the ranges, which no edit moved and
   some of which may be past the end of the text by now.                        *)
Drag ==
    /\ UNCHANGED several
    /\ IF mouse.onSelection
       THEN /\ mouse' = [mouse EXCEPT !.captured = FALSE]
            /\ UNCHANGED <<page, astray>>
       ELSE /\ mouse.captured /\ UNCHANGED mouse
            /\ \E position \in Positions :
                  Gesture(Dragged(page, position), ~ Inside(page, page.sel.saved))
(* With several ranges the main one becomes what lies between the release and the
   anchor of the last, and none is trimmed: where no move had gone, or when the main
   one is not the last, it may lie over another.                                *)
Release ==
    /\ UNCHANGED several
    /\ mouse.captured \/ mouse.onSelection
    /\ \E position \in Positions :
          LET clicked == IF mouse.onSelection THEN SetEmptySelection(page, position) ELSE page
              sel == clicked.sel
          IN Gesture(IF mouse.captured THEN Released(clicked, position) ELSE clicked,
                 /\ Len(sel.ranges) > 1 /\ ~ IsRectangular(sel)
                 /\ position # MainRange(sel).caret \/ sel.main # Len(sel.ranges))
    /\ mouse' = [captured |-> FALSE, onSelection |-> FALSE, during |-> 0]

Place == \E position \in Positions : Command(SetEmptySelection(page, position))
SelectAll == Command(SetSelection([page EXCEPT !.sel = Fresh], From(0, Length(page))))
(* MultipleSelectAdd, where the next text like the main selection was found. *)
Add ==
    LET main == MainRange(page.sel)
        length == Last1(main) - First(main)
    IN /\ several /\ ~ IsBlank(main)
       /\ \E start \in Positions :
             /\ start + length <= First(main) \/ Last1(main) <= start
             /\ start + length <= Length(page)
             /\ Command([page EXCEPT !.sel = AddSelection(@, From(start + length, start))])
Rotate == Command([page EXCEPT !.sel = RotateMain(@)])
Move == \E step \in {-1, 1}, extends \in BOOLEAN : Command(HorizontalMove(page, step, extends))
MoveCorner == ~ several /\ \E step \in {-1, 1} : Command(RectangularMove(page, step))

TypeKey == Edits(InsertCharacter(page))
Backspace == Edits(DelCharBack(page))
Clear == Edits(ClearSelection(page))
Paste == Edits(InsertPaste(page))

(* The text changes under the selection: a review's replacement, a folded line's
   text, another view of the document.                                         *)
TextChanges ==
    /\ Still /\ UNCHANGED astray
    /\ \/ /\ Length(page) < MaxLetters /\ Length(page) + Len(page.sel.ranges) < MaxPlaces
          /\ \E start \in Positions : page' = InsertedInto(page, start)
       \/ \E start \in Positions, length \in 1 .. 2 :
             start + length <= Length(page) /\ page' = DeletedFrom(page, start, length)

(* What comes after a gesture astray is not followed. *)
SelectionsNext ==
    /\ ~ astray
    /\ \/ Press \/ ShiftPress \/ Drag \/ Release \/ Place \/ SelectAll \/ Add \/ Rotate \/ Move
       \/ MoveCorner \/ TypeKey \/ Backspace \/ Clear \/ Paste \/ TextChanges

-----------------------------------------------------------------------------
(* Properties. *)

(* There is a main range, all ranges lie in the text, and each character is inside only
   one, whatever edits go through the ranges and whatever else changes the text. Three
   gestures are the exception in the code, and "astray" marks what they leave: a press
   with Shift over several ranges (Editor.cxx:3666-3675), a release with several where
   no move had gone or with another main range than the last (3946-3948), and a drag
   that goes back to a copy of the ranges the text has shrunk under (Selection.cxx:523). *)
SelectionIsSound == IsSound(page) \/ astray

(* However the text changes around a selection, the characters that were selected
   are, and no others.                                                         *)
SelectionFollowsText ==
    \A k \in DOMAIN page.text : page.text[k].held <=> k - 1 \in Selected(page)

(* What a key should leave: one character in the place of each range. *)
WithKeyTyped(p) ==
    LET places(k) == {i \in DOMAIN p.sel.ranges : First(p.sel.ranges[i]) = k}
        typed(k) == [n \in 1 .. Cardinality(places(k)) |-> FALSE]
        kept(k) == IF k < Length(p) /\ k \notin Selected(p) THEN <<p.text[k + 1].end>> ELSE <<>>
    IN FlattenSeq([k \in 1 .. Length(p) + 1 |-> typed(k - 1) \o kept(k - 1)])
LineEndsOf(p) == [k \in DOMAIN p.text |-> p.text[k].end]

(* Typing puts one character in the place of each range and touches nothing else,
   though each range is replaced while the others move; and a key that deletes
   takes what is selected, or what stands before each caret.                   *)
KeysEditTheirRanges ==
    LET f == FilterSelections(page)
        typed == InsertCharacter(page)
        cleared == Cleared(page)
    IN /\ LineEndsOf(typed) = WithKeyTyped(f)
       /\ (~ IsRectangular(page.sel)) => Selected(typed) = {}
       /\ Length(cleared) = Length(page) - Cardinality(Selected(page))
       /\ (AllBlank(f.sel) /\ ~ IsRectangular(f.sel) /\ RemoveDuplicates(f.sel) = f.sel) =>
             Length(DelCharBack(f)) =
                 Length(f) - Cardinality({f.sel.ranges[i].caret : i \in DOMAIN f.sel.ranges} \ {0})

SelectionsAreKept ==
    SelectionIsSound /\ SelectionFollowsText /\ (~ astray => KeysEditTheirRanges)
===============================================================================
