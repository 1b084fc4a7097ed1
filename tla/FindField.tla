------------------------------ MODULE FindField ------------------------------
(* The find bar as a text field and as a search: FindBarModel with its keys, its input
   method and its pastes, the state it tells text-input, and ApplicationUi's searches
   from it in the documents. Texts are bytes in UTF-8. Pointer, menus and cards are in
   Interface; the cause of a change, preedit text, scrolling and layout are left out,
   and so are invalid texts, which the platform's side refuses already.        *)
EXTENDS Integers, Sequences, FiniteSets, SequencesExt, FiniteSetsExt

CONSTANTS
    Width,          \* a function from characters to their bytes in UTF-8
    Folded,         \* from characters to what CaseFolderUnicode makes of them
    LineEnd,        \* the characters that end a line
    Typed,          \* the characters typed, committed and pasted
    Bodies,         \* what the two documents hold
    MaximumSurroundingBytes,
    MaxQuery,       \* bound: bytes of the query
    MaxFocus        \* bound: focus changes

ASSUME FieldBounds == {MaximumSurroundingBytes, MaxQuery, MaxFocus} \subseteq Nat
ASSUME WidthsAssumption == \A c \in DOMAIN Width : Width[c] \in 1 .. 4

(* "told" is what text-input has been told since the last change, "search" the search of
   this step, "asked" the query of the last and "came" where the selection began when the
   field last was given focus, or the document changed under it: history variables. *)
VARIABLE bar
barVars == <<bar>>

Unknown == [text |-> <<>>, cursor |-> -1, anchor |-> -1]
NoSurrounding == [Unknown EXCEPT !.cursor = -2]
NoOrigin == [document |-> 0, position |-> 0]
NoMatch == [from |-> -1, to |-> -1]
NoSearch == [direction |-> "none", origin |-> 0, outcome |-> "none"]

-----------------------------------------------------------------------------
(* Bytes and characters. *)

Byte(c, n) == [of |-> c, at |-> n]
Encoded(letters) ==
    FlattenSeq([n \in DOMAIN letters |-> [k \in 1 .. Width[letters[n]] |-> Byte(letters[n], k)]])
LettersOf(text) ==
    LET leads == SelectSeq(text, LAMBDA b : b.at = 1) IN [n \in DOMAIN leads |-> leads[n].of]
FoldedText(text) == FlattenSeq([n \in DOMAIN LettersOf(text) |-> Folded[LettersOf(text)[n]]])
Slice(text, from, to) == SubSeq(text, from + 1, to)

IsUtf8Boundary(text, index) ==
    index \in {0, Len(text)} \/ (index \in 1 .. Len(text) - 1 /\ text[index + 1].at = 1)
Boundaries(text) == {p \in 0 .. Len(text) : IsUtf8Boundary(text, p)}
Utf8Floor(text, index) == Max({p \in Boundaries(text) : p <= index})
Utf8Next(text, index) == IF index >= Len(text) THEN Len(text) ELSE index + Width[text[index + 1].of]
Utf8Prev(text, index) == IF index = 0 THEN 0 ELSE Utf8Floor(text, index - 1)

-----------------------------------------------------------------------------
(* FindBarModel. *)

SelectionStart(b) == Min({b.caret, b.anchor})
SelectionEnd(b) == Max({b.caret, b.anchor})
HasSelection(b) == b.caret # b.anchor

MarkTextInputDirty(b) == [b EXCEPT !.dirty = TRUE]
MarkQueryChanged(b) == [b EXCEPT !.status = "none", !.dirty = TRUE]
CaretAt(b, index) == [b EXCEPT !.caret = index, !.anchor = index]
ClampCaretAndAnchor(b) ==
    [b EXCEPT !.caret = Utf8Floor(b.query, @), !.anchor = Utf8Floor(b.query, @)]
SelectWhole(b) == [b EXCEPT !.anchor = 0, !.caret = Len(b.query)]
CancelPreedit(b) == IF b.preedit THEN [b EXCEPT !.preedit = FALSE, !.dirty = TRUE] ELSE b

SetFieldFocused(b, now) ==
    LET turned == [b EXCEPT !.focused = now, !.generation = @ + 1]
    IN IF b.focused # now
       THEN MarkTextInputDirty(CancelPreedit(IF now THEN SelectWhole(turned) ELSE turned))
       ELSE IF now THEN MarkTextInputDirty(CancelPreedit(SelectWhole(b))) ELSE b
SetQuery(b, text) ==
    LET end == CaretAt(MarkQueryChanged(CancelPreedit([b EXCEPT !.query = text])), Len(text))
    IN IF b.focused THEN SelectWhole(end) ELSE end
Spliced(b, from, to, text) ==
    LET query == Slice(b.query, 0, from) \o text \o Slice(b.query, to, Len(b.query))
    IN MarkQueryChanged(CaretAt([b EXCEPT !.query = query], from + Len(text)))
DeleteSelection(b) ==
    IF HasSelection(b) THEN Spliced(b, SelectionStart(b), SelectionEnd(b), <<>>) ELSE b
InsertIntoField(b, text) ==
    LET c == ClampCaretAndAnchor(CancelPreedit(b))
    IN Spliced(c, SelectionStart(c), SelectionEnd(c), text)

CanDelete(b, before, after) ==
    /\ before <= SelectionStart(b) /\ after <= Len(b.query) - SelectionEnd(b)
    /\ IsUtf8Boundary(b.query, SelectionStart(b) - before)
    /\ IsUtf8Boundary(b.query, SelectionEnd(b) + after)
DeleteSurrounding(b, before, after) ==
    LET kept == Slice(b.query, SelectionStart(b), SelectionEnd(b))
    IN ClampCaretAndAnchor([b EXCEPT
           !.query = Slice(@, 0, SelectionStart(b) - before) \o kept
                         \o Slice(@, SelectionEnd(b) + after, Len(@)),
           !.caret = @ - before, !.anchor = @ - before])

-----------------------------------------------------------------------------
(* The search: Document::FindText without case, and ApplicationEditor's two ranges. *)

MovePositionOutsideChar(text, position, forward) ==
    IF forward THEN Min({p \in Boundaries(text) : p >= position}) ELSE Utf8Floor(text, position)
MatchEnds(text, position, limit, query) ==
    {end \in Boundaries(text) :
        end > position /\ end <= limit /\ FoldedText(Slice(text, position, end)) = FoldedText(query)}
FindText(text, minPos, maxPos, query) ==
    LET forward == minPos <= maxPos
        start == MovePositionOutsideChar(text, minPos, forward)
        end == MovePositionOutsideChar(text, maxPos, forward)
        limit == Max({start, end})
        visited == {p \in Boundaries(text) : IF forward THEN start <= p /\ p < end
                                             ELSE end <= p /\ p <= Utf8Prev(text, start)}
        hits == {p \in visited : MatchEnds(text, p, limit, query) # {}}
        first == IF forward THEN Min(hits) ELSE Max(hits)
    IN IF hits = {} THEN NoMatch
       ELSE [from |-> first, to |-> Min(MatchEnds(text, first, limit, query))]

BodyOf(b) == b.bodies[b.active]
SelectedIn(b) == b.selection[b.active]
SearchedFor(b, direction, origin, outcome, match) ==
    [b EXCEPT !.status = CASE outcome = "found" -> "none" [] OTHER -> outcome,
              !.asked = b.query,
              !.search = [direction |-> direction, origin |-> origin, outcome |-> outcome],
              !.selection[b.active] = IF match = NoMatch THEN @ ELSE match]
FindIn(b, direction, origin, near, far) ==
    IF near # NoMatch THEN SearchedFor(b, direction, origin, "found", near)
    ELSE IF far # NoMatch THEN SearchedFor(b, direction, origin, "wrapped", far)
    ELSE SearchedFor(b, direction, origin, "no matches", NoMatch)
FindTextForward(b, position) ==
    LET text == BodyOf(b)
        origin == Min({position, Len(text)})
    IN FindIn(b, "forward", origin, FindText(text, origin, Len(text), b.query),
              IF origin > 0 THEN FindText(text, 0, origin, b.query) ELSE NoMatch)
FindTextBackward(b, position) ==
    LET text == BodyOf(b)
        origin == Min({position, Len(text)})
    IN FindIn(b, "backward", origin,
              IF origin > 0 THEN FindText(text, origin, 0, b.query) ELSE NoMatch,
              IF origin < Len(text) THEN FindText(text, Len(text), origin, b.query) ELSE NoMatch)

Searchable(b) == b.shown /\ b.query # <<>>
CaptureFindOrigin(b) == [b EXCEPT !.origin = [document |-> b.active, position |-> SelectedIn(b).from]]
RunIncrementalFind(b) ==
    LET c == IF b.origin = NoOrigin \/ b.origin.document # b.active THEN CaptureFindOrigin(b) ELSE b
    IN IF Searchable(b) THEN FindTextForward(c, c.origin.position) ELSE [b EXCEPT !.status = "none"]
RunFindForward(b) ==
    IF Searchable(b) THEN FindTextForward(b, SelectedIn(b).to) ELSE [b EXCEPT !.status = "none"]
RunFindBackward(b) ==
    IF Searchable(b) THEN FindTextBackward(b, SelectedIn(b).from) ELSE [b EXCEPT !.status = "none"]
QueryChanged(b) == RunIncrementalFind(b)

-----------------------------------------------------------------------------
(* BuildFindBarTextInputState: the query around the selection, with places in it. *)

WindowAround(b) ==
    LET first == SelectionStart(b)
        last == SelectionEnd(b)
        half == (MaximumSurroundingBytes - (last - first)) \div 2
        start == Max({0, first - half})
        end == Min({Len(b.query), start + MaximumSurroundingBytes})
    IN IF end < last THEN [start |-> Max({0, last - MaximumSurroundingBytes}), end |-> last]
       ELSE [start |-> start, end |-> end]
BuildTextInputState(b) ==
    LET start == Utf8Floor(b.query, WindowAround(b).start)
        end == Utf8Floor(b.query, WindowAround(b).end)
        fits == SelectionEnd(b) - SelectionStart(b) <= MaximumSurroundingBytes
    IN IF fits /\ start <= SelectionStart(b) /\ end >= SelectionEnd(b)
       THEN [text |-> Slice(b.query, start, end), cursor |-> b.caret - start, anchor |-> b.anchor - start]
       ELSE NoSurrounding

-----------------------------------------------------------------------------
(* ApplicationUi and the keys of HandleFindBarKeyboard. *)

OpenBar(b) ==
    LET selected == Slice(BodyOf(b), SelectedIn(b).from, SelectedIn(b).to)
        seeds == /\ b.query = <<>> /\ selected # <<>>
                 /\ \A n \in DOMAIN selected : selected[n].of \notin LineEnd
        seeded == IF seeds THEN SetQuery(b, selected) ELSE b
        opened == CaptureFindOrigin(SetFieldFocused([seeded EXCEPT !.shown = TRUE], TRUE))
        ready == MarkTextInputDirty(SelectWhole(opened))
    IN IF ready.query # <<>> THEN RunIncrementalFind(ready) ELSE ready
CloseBar(b) ==
    IF b.shown
    THEN [SetFieldFocused(CancelPreedit(b), FALSE) EXCEPT !.shown = FALSE, !.origin = NoOrigin]
    ELSE b
Erase(b, from, to) == QueryChanged(Spliced(b, from, to, <<>>))

Key(b, key) ==
    CASE key = "return" -> RunFindForward(b)
      [] key = "shift return" -> RunFindBackward(b)
      [] key = "escape" -> CloseBar(b)
      [] key = "select all" -> MarkTextInputDirty(SelectWhole(b))
      [] key = "copy" -> b
      [] key = "cut" -> IF HasSelection(b) THEN QueryChanged(DeleteSelection(b)) ELSE b
      [] key = "paste" -> [b EXCEPT !.pasting = b.generation]
      [] key = "left" ->
            MarkTextInputDirty(CaretAt(b, IF HasSelection(b) THEN SelectionStart(b)
                                          ELSE Utf8Prev(b.query, b.caret)))
      [] key = "right" ->
            MarkTextInputDirty(CaretAt(b, IF HasSelection(b) THEN SelectionEnd(b)
                                          ELSE Utf8Next(b.query, b.caret)))
      [] key = "home" -> MarkTextInputDirty(CaretAt(b, 0))
      [] key = "end" -> MarkTextInputDirty(CaretAt(b, Len(b.query)))
      [] key = "back" -> IF HasSelection(b) THEN QueryChanged(DeleteSelection(b))
                         ELSE IF b.caret > 0 THEN Erase(b, Utf8Prev(b.query, b.caret), b.caret) ELSE b
      [] key = "delete" -> IF HasSelection(b) THEN QueryChanged(DeleteSelection(b))
                           ELSE IF b.caret < Len(b.query)
                                THEN Erase(b, b.caret, Utf8Next(b.query, b.caret)) ELSE b
      [] OTHER -> QueryChanged(InsertIntoField(b, Encoded(<<key>>)))
CommandKeys == {"return", "shift return", "escape", "select all", "copy", "cut", "paste",
                "left", "right", "home", "end", "back", "delete"}

FieldFocused(b) == b.shown /\ b.focused
(* What a step leaves: the state told is out of date once another is due. *)
BarBecomes(b) ==
    /\ Len(b.query) <= MaxQuery /\ b.generation <= MaxFocus
    /\ bar' = [b EXCEPT !.told = IF b.dirty \/ ~ FieldFocused(b) THEN Unknown ELSE @,
                        !.came = IF FieldFocused(b) THEN @ ELSE 0]
Unsearched == [bar EXCEPT !.search = NoSearch]
(* Focus comes to the field, over the selection that the document has. *)
FocusComes(b) == [b EXCEPT !.came = SelectedIn(bar).from]

BarInit ==
    \E bodies \in Bodies :
        bar = [query |-> <<>>, caret |-> 0, anchor |-> 0, focused |-> FALSE, generation |-> 0,
               preedit |-> FALSE, dirty |-> FALSE, status |-> "none", shown |-> FALSE,
               origin |-> NoOrigin, pasting |-> 0, active |-> 1,
               bodies |-> <<Encoded(bodies[1]), Encoded(bodies[2])>>,
               selection |-> [d \in 1 .. 2 |-> [from |-> 0, to |-> 0]],
               told |-> Unknown, search |-> NoSearch, asked |-> <<>>, came |-> 0]

OpenFind == BarBecomes(FocusComes(OpenBar(Unsearched)))
BlurField == bar.focused /\ BarBecomes(SetFieldFocused(Unsearched, FALSE))
(* A press on the field, focused or not. *)
Bug_FocusField == bar.shown /\ BarBecomes(FocusComes(SetFieldFocused(Unsearched, TRUE)))
FocusField ==
    bar.shown /\ BarBecomes(FocusComes(CaptureFindOrigin(SetFieldFocused(Unsearched, TRUE))))
PressButton ==
    /\ bar.shown
    /\ \/ BarBecomes(RunFindForward(Unsearched))
       \/ BarBecomes(RunFindBackward(Unsearched))
       \/ BarBecomes(CloseBar(Unsearched))
PressKey ==
    /\ FieldFocused(bar)
    /\ \E key \in CommandKeys \cup Typed :
        /\ key = "paste" => bar.pasting = 0
        /\ BarBecomes(Key(CancelPreedit(Unsearched), key))

(* A batch that cancels, and one that deletes, commits and starts to compose. *)
CancelBatch == bar.preedit /\ BarBecomes(CancelPreedit(Unsearched))
TextInputBatch ==
    /\ FieldFocused(bar)
    /\ \E before \in 0 .. 2, after \in {0, 2}, preedit \in BOOLEAN,
          commit \in {<<>>} \cup {<<c>> : c \in Typed} :
        LET b == [Unsearched EXCEPT !.preedit = FALSE]
            deletes == before + after > 0
            deleted == IF deletes THEN MarkQueryChanged(DeleteSurrounding(b, before, after)) ELSE b
            committed == IF commit = <<>> THEN deleted ELSE InsertIntoField(deleted, Encoded(commit))
            composed == [committed EXCEPT !.preedit = preedit,
                            !.dirty = @ \/ bar.preedit \/ deletes \/ commit # <<>> \/ preedit]
        IN IF ~ CanDelete(b, before, after) THEN BarBecomes(MarkTextInputDirty(b))
           ELSE BarBecomes(IF deletes \/ commit # <<>> THEN QueryChanged(composed) ELSE composed)

PasteAnswered ==
    /\ bar.pasting # 0
    /\ LET b == [Unsearched EXCEPT !.pasting = 0]
           wanted == FieldFocused(bar) /\ bar.pasting = bar.generation
       IN \/ BarBecomes(b)
          \/ \E c \in Typed :
                 BarBecomes(IF wanted
                            THEN MarkTextInputDirty(QueryChanged(InsertIntoField(b, Encoded(<<c>>))))
                            ELSE b)

TakeTextInputState ==
    /\ FieldFocused(bar) /\ bar.dirty
    /\ BarBecomes([Unsearched EXCEPT !.dirty = FALSE, !.told = BuildTextInputState(bar)])

(* The document meanwhile: another is shown, the selection moves or is deleted. *)
ActivateDocument ==
    LET b == [Unsearched EXCEPT !.active = 3 - @, !.came = bar.selection[3 - bar.active].from]
        captured == IF b.shown THEN CaptureFindOrigin(b) ELSE b
    IN BarBecomes(IF b.shown /\ b.focused /\ b.query # <<>> THEN RunIncrementalFind(captured) ELSE captured)
SelectText ==
    /\ ~ FieldFocused(bar)
    /\ \E from, to \in Boundaries(BodyOf(bar)) :
        from <= to /\ BarBecomes([Unsearched EXCEPT !.selection[bar.active] = [from |-> from, to |-> to]])
DeleteSelected ==
    /\ ~ FieldFocused(bar) /\ SelectedIn(bar).from < SelectedIn(bar).to
    /\ LET sel == SelectedIn(bar) IN
       BarBecomes([Unsearched EXCEPT
           !.bodies[bar.active] = Slice(@, 0, sel.from) \o Slice(@, sel.to, Len(@)),
           !.selection[bar.active] = [from |-> sel.from, to |-> sel.from]])

BarNext ==
    \/ OpenFind \/ BlurField \/ FocusField \/ PressButton \/ PressKey \/ CancelBatch \/ TextInputBatch
    \/ PasteAnswered \/ TakeTextInputState \/ ActivateDocument \/ SelectText \/ DeleteSelected
BarSpec == BarInit /\ [][BarNext]_barVars

-----------------------------------------------------------------------------
(* Properties. *)

(* Whatever is typed, composed, deleted around and pasted, the query is whole
   characters and the caret and anchor stand between two of them.              *)
QueryIsText ==
    /\ bar.query = Encoded(LettersOf(bar.query))
    /\ {bar.caret, bar.anchor} \subseteq Boundaries(bar.query)
    /\ bar.preedit => FieldFocused(bar)

(* No change of the query or of the selection escapes the input method: what was told
   last is what would be told now, unless another state is due.                *)
ToldIsCurrent == FieldFocused(bar) /\ ~ bar.dirty => bar.told = BuildTextInputState(bar)

(* What is told is whole characters of the query with the cursor and the anchor where
   they are in it, so that lengths counted in it reach the right bytes.        *)
SurroundingIsQuery ==
    LET s == BuildTextInputState(bar) IN
    s # NoSurrounding =>
        LET start == bar.caret - s.cursor IN
        /\ s.text = Slice(bar.query, start, start + Len(s.text)) /\ s.text = Encoded(LettersOf(s.text))
        /\ {s.cursor, s.anchor} \subseteq Boundaries(s.text) /\ bar.anchor = start + s.anchor

(* "surroundingText->size() > MaximumSurroundingBytes" is an invalid argument to
   WaylandTextInputState::UpdateClientState, which throws (WaylandTextInput.cxx:87). *)
SurroundingFits ==
    bar.told \notin {Unknown, NoSurrounding} => Len(bar.told.text) <= MaximumSurroundingBytes

(* Everything that reads as the query, up to case. *)
Occurrences(b) ==
    {m \in [from : 0 .. Len(BodyOf(b)), to : 0 .. Len(BodyOf(b))] :
        m.to \in MatchEnds(BodyOf(b), m.from, Len(BodyOf(b)), b.query)
            /\ IsUtf8Boundary(BodyOf(b), m.from)}
(* A search selects the nearest occurrence in its direction, wraps only when there is
   none, and finds nothing only when there is nothing but an occurrence the search
   began inside of, which lies in neither of its ranges.                       *)
SearchIsRight ==
    bar.search # NoSearch =>
        LET s == bar.search
            forward == s.direction = "forward"
            after == {m \in Occurrences(bar) : m.from >= s.origin}
            before == {m \in Occurrences(bar) : m.to <= s.origin}
            ahead == IF forward THEN after ELSE before
            behind == IF forward THEN before ELSE after
            nearest(set, m) ==
                m \in set /\ \A n \in set : IF forward THEN m.from <= n.from ELSE n.from <= m.from
        IN CASE s.outcome = "found" -> nearest(ahead, SelectedIn(bar))
             [] s.outcome = "wrapped" -> ahead = {} /\ nearest(behind, SelectedIn(bar))
             [] OTHER -> ahead \cup behind = {}

(* While the field has the focus an incremental search starts where the selection began
   when the focus came or the document changed, not where an earlier match left it: "the
   origin is document-qualified and is reset on focus gain and active-document change"
   (docs/application-ui.md:71).                                                *)
OriginIsOfThisFocus ==
    FieldFocused(bar) => bar.origin = [document |-> bar.active, position |-> bar.came]

(* The bar never shows "wrapped" or "no matches" for a query other than its own. *)
StatusIsForTheQuery == bar.status # "none" => bar.asked = bar.query

FieldAgrees ==
    /\ QueryIsText /\ ToldIsCurrent /\ SurroundingIsQuery /\ SearchIsRight
    /\ OriginIsOfThisFocus /\ StatusIsForTheQuery
===============================================================================
