----------------------------- MODULE UndoHistory -----------------------------
(* A document's text and its undo history: UndoHistory under CellBuffer and
   Document, driven by the editor's own calls: typing, deleting, grouped
   replacement, undo and redo, saving, loading, and the input method's tentative
   text. Each call is an operator from editor record to editor record.

   "trail" and "savedTrail" are history variables of the model: the texts between
   the recorded actions, now and at the last save.                             *)
EXTENDS Integers, Sequences, SequencesExt

CONSTANTS
    Letters,      \* what can be typed
    Composed,     \* what an input method shows while it composes
    MaxLength,    \* bound: length of the text
    MaxActions    \* bound: recorded actions

ASSUME HistoryBounds ==
    Composed \notin Letters /\ MaxLength \in Nat /\ MaxActions \in Nat

VARIABLE editor
historyVars == <<editor>>

None == -1

Joined(text, position, data) ==
    SubSeq(text, 1, position) \o data \o SubSeq(text, position + 1, Len(text))
Cut(text, position, length) ==
    SubSeq(text, 1, position) \o SubSeq(text, position + length + 1, Len(text))
Part(text, position, length) == SubSeq(text, position + 1, position + length)

IsSavePoint(d) == d.savePoint = d.current
Tentative(d) == d.tentative >= 0
Recorded(d) == Len(d.actions)

HistoryInit ==
    editor = [text |-> <<>>, actions |-> <<>>, current |-> 0, depth |-> 0,
              savePoint |-> 0, tentative |-> None, detach |-> None,
              scraps |-> <<>>, scrapAt |-> 0,
              notified |-> TRUE, trail |-> << <<>> >>, savedTrail |-> << <<>> >>]

-----------------------------------------------------------------------------
(* Recording. *)

(* Close the action before the current one: what follows starts a new unit. *)
Close(d) ==
    IF d.current = 0 THEN d ELSE [d EXCEPT !.actions[d.current].mayCoalesce = FALSE]

(* Two actions side by side look like one stream of typing or of deleting. *)
Streams(last, action) ==
    /\ last.at = action.at
    /\ action.at = "insert" => action.position = last.position + last.length
    /\ action.at = "remove" =>
          /\ action.length \in {1, 2}
          /\ last.position \in {action.position, action.position + action.length}

Bug_Coalesces(d, action) ==
    /\ d.current > 0 /\ d.actions[d.current].mayCoalesce
    /\ d.depth > 0 \/ (d.current # d.tentative /\ Streams(d.actions[d.current], action))
Coalesces(d, action) ==
    /\ d.current > 0 /\ d.actions[d.current].mayCoalesce
    /\ \/ d.depth > 0
       \/ /\ d.current \notin {d.savePoint, d.tentative}
          /\ Streams(d.actions[d.current], action)

(* A save point in the actions given up is lost; the detach point is where the
   history left the way to it.                                                 *)
Bug_Detached(d) ==
    IF d.current < d.savePoint
    THEN [d EXCEPT !.savePoint = None,
                   !.detach = IF d.detach = None THEN d.current ELSE d.detach]
    ELSE d
Bug_KeptSavePoint(d) ==
    IF d.detach > d.current THEN [d EXCEPT !.detach = d.current] ELSE d
Detached(d) ==
    IF d.current < d.savePoint
    THEN [d EXCEPT !.savePoint = None,
                   !.detach = IF d.detach = None THEN d.current ELSE d.detach]
    ELSE IF d.detach > d.current THEN [d EXCEPT !.detach = d.current] ELSE d

Bug_Push(d, data) ==
    [d EXCEPT !.scraps = @ \o data, !.scrapAt = Len(d.scraps) + Len(data)]
Push(d, data) ==
    [d EXCEPT !.scraps = SubSeq(@, 1, d.scrapAt) \o data, !.scrapAt = d.scrapAt + Len(data)]

AppendAction(d, at, position, data) ==
    LET action == [at |-> at, mayCoalesce |-> TRUE, position |-> position, length |-> Len(data)]
        left == Detached(d)
        closed == IF Coalesces(left, action) THEN left ELSE Close(left)
        pushed == Push(closed, data)
    IN [pushed EXCEPT !.actions = Append(SubSeq(@, 1, d.current), action),
                      !.current = d.current + 1]

(* Document: the change, the model's trail, and the watchers' save point. *)
Changed(d, before, text) ==
    [d EXCEPT !.text = text,
              !.trail = Append(SubSeq(before.trail, 1, before.current + 1), text),
              !.notified = IF IsSavePoint(before) THEN FALSE ELSE before.notified]

InsertString(d, position, data) ==
    IF data = <<>> THEN d
    ELSE Changed(AppendAction(d, "insert", position, data), d, Joined(d.text, position, data))
DeleteChars(d, position, length) ==
    IF length = 0 THEN d
    ELSE Changed(AppendAction(d, "remove", position, Part(d.text, position, length)), d,
                 Cut(d.text, position, length))

BeginUndoAction(d) ==
    LET closed == IF d.depth = 0 THEN Close(d) ELSE d
    IN [closed EXCEPT !.depth = @ + 1]
Bug_EndUndoAction(d) == Close(d)
EndUndoAction(d) ==
    LET ended == [d EXCEPT !.depth = @ - 1]
    IN IF ended.depth = 0 THEN Close(ended) ELSE ended

(* The texts that "data" replaces at a place, in one unit of undo. *)
Replaced(d, position, length, data) ==
    EndUndoAction(InsertString(DeleteChars(BeginUndoAction(d), position, length), position, data))

-----------------------------------------------------------------------------
(* Undo and redo. *)

UndoStep(d) ==
    LET action == d.actions[d.current]
        undone == [d EXCEPT !.current = @ - 1, !.scrapAt = @ - action.length]
    IN IF action.at = "insert"
       THEN [undone EXCEPT !.text = Cut(@, action.position, action.length)]
       ELSE [undone EXCEPT !.text =
                Joined(@, action.position, Part(d.scraps, d.scrapAt - action.length, action.length))]

RedoStep(d) ==
    LET action == d.actions[d.current + 1]
        redone == [d EXCEPT !.current = @ + 1, !.scrapAt = @ + action.length]
    IN IF action.at = "insert"
       THEN [redone EXCEPT !.text =
                Joined(@, action.position, Part(d.scraps, d.scrapAt, action.length))]
       ELSE [redone EXCEPT !.text = Cut(@, action.position, action.length)]

Undone(d, steps) ==
    LET after[n \in 0 .. steps] == IF n = 0 THEN d ELSE UndoStep(after[n - 1]) IN after[steps]
Redone(d, steps) ==
    LET after[n \in 0 .. steps] == IF n = 0 THEN d ELSE RedoStep(after[n - 1]) IN after[steps]

(* The first action of the unit that ends before the current place. *)
StartUndo(d) ==
    CHOOSE first \in 1 .. d.current :
        /\ first = 1 \/ ~ d.actions[first - 1].mayCoalesce
        /\ \A k \in first .. d.current - 1 : d.actions[k].mayCoalesce
(* The last action of the unit that begins there. *)
EndRedo(d) ==
    CHOOSE last \in d.current + 1 .. Recorded(d) :
        /\ last = Recorded(d) \/ ~ d.actions[last].mayCoalesce
        /\ \A k \in d.current + 1 .. last - 1 : d.actions[k].mayCoalesce

Bug_Notify(before, d) == d
Notify(before, d) ==
    IF IsSavePoint(before) = IsSavePoint(d) THEN d ELSE [d EXCEPT !.notified = IsSavePoint(d)]

Undo(d) ==
    IF d.current = 0 THEN d
    ELSE Notify(d, Undone(d, d.current - StartUndo(d) + 1))
Redo(d) ==
    IF d.current = Recorded(d) THEN d
    ELSE Notify(d, Redone(d, EndRedo(d) - d.current))

-----------------------------------------------------------------------------
(* Tentative text. *)

TentativeStart(d) == [d EXCEPT !.tentative = d.current]

Bug_TentativeCommit(d) == [d EXCEPT !.tentative = None]
TentativeCommit(d) ==
    [d EXCEPT !.tentative = None, !.actions = SubSeq(@, 1, d.current),
              !.trail = SubSeq(@, 1, d.current + 1)]

TentativeUndo(d) ==
    IF Tentative(d)
    THEN TentativeCommit(Notify(d, Undone(d, d.current - d.tentative)))
    ELSE d
CancelTextInput(d) == TentativeUndo(d)

SetSavePoint(d) ==
    [d EXCEPT !.savePoint = d.current, !.detach = None, !.notified = TRUE,
              !.savedTrail = SubSeq(d.trail, 1, d.current + 1)]
DeleteUndoHistory(d) ==
    [d EXCEPT !.actions = <<>>, !.current = 0, !.savePoint = 0, !.tentative = None,
              !.scraps = <<>>, !.scrapAt = 0, !.trail = <<d.text>>]

-----------------------------------------------------------------------------
(* The editor's calls. *)

Fits(d) == Len(d.text) <= MaxLength /\ Recorded(d) <= MaxActions
Become(d) == Fits(d) /\ editor' = d
Free == CancelTextInput(editor)    \* every command first drops the composition

Type ==
    \E position \in 0 .. Len(Free.text), letter \in Letters :
        Become(InsertString(Free, position, <<letter>>))
Delete ==
    \E position \in 0 .. Len(Free.text) - 1 :
        \E length \in 1 .. Len(Free.text) - position :
            Become(DeleteChars(Free, position, length))
Replace ==
    \E position \in 0 .. Len(Free.text) - 1, letter \in Letters :
        Become(Replaced(Free, position, 1, <<letter>>))
RequestUndo == Become(Undo(Free))
RequestRedo == Become(Redo(Free))
CancelComposition == Tentative(editor) /\ Become(Free)

(* A delayed Save As result marks the text saved whatever is being composed. *)
MarkSaved == Become(SetSavePoint(editor))

LoadInitialBuffer ==
    \E data \in {<<>>} \cup {<<letter>> : letter \in Letters} :
        LET set == EndUndoAction(InsertString(
                       DeleteChars(BeginUndoAction(Free), 0, Len(Free.text)), 0, data))
        IN Become(SetSavePoint(DeleteUndoHistory(set)))

(* HandleTextInputBatch: drop the old tentative text, delete and commit in one
   unit, clear the selection before a composition that starts, show the new one. *)
Deleted(d, position, surrounding, commit) ==
    IF surrounding \/ commit # <<>>
    THEN EndUndoAction(InsertString(
             IF surrounding THEN DeleteChars(BeginUndoAction(d), position, 1) ELSE BeginUndoAction(d),
             position, commit))
    ELSE d
ClearBeforeTentativeStart(d, position, selected) ==
    IF selected THEN EndUndoAction(DeleteChars(BeginUndoAction(d), position, 1)) ELSE d
Composing(d, position, length) ==
    LET shown[n \in 0 .. length] ==
            IF n = 0 THEN TentativeStart(d)
            ELSE InsertString(shown[n - 1], position + n - 1, <<Composed>>)
    IN shown[length]

HandleTextInputBatch ==
    \E position \in 0 .. Len(Free.text), surrounding, selected \in BOOLEAN,
       commit \in {<<>>} \cup {<<letter>> : letter \in Letters}, preedit \in 0 .. 2 :
        LET committed == Deleted(Free, position, surrounding, commit)
            caret == position + Len(commit)
            cleared == IF Tentative(editor) THEN committed
                       ELSE ClearBeforeTentativeStart(committed, caret, selected)
        IN /\ surrounding => position < Len(Free.text)
           /\ selected => preedit > 0 /\ caret < Len(committed.text)
           /\ Become(IF preedit = 0 THEN committed ELSE Composing(cleared, caret, preedit))

(* The surrounding text to delete is not where the input method thought. *)
HandleBadBatch ==
    /\ Tentative(editor)
    /\ Become(EndUndoAction(BeginUndoAction(Free)))

HistoryNext ==
    \/ Type \/ Delete \/ Replace \/ RequestUndo \/ RequestRedo \/ CancelComposition
    \/ MarkSaved \/ LoadInitialBuffer \/ HandleTextInputBatch \/ HandleBadBatch

HistorySpec == HistoryInit /\ [][HistoryNext]_historyVars

-----------------------------------------------------------------------------
(* Properties. *)

Texts == Seq(Letters \cup {Composed})

(* Type invariant; between two calls no group is open, and the places the history
   remembers lie in it.                                                         *)
HistoryTypeOK ==
    /\ editor.text \in Texts
    /\ editor.depth = 0
    /\ editor.current \in 0 .. Recorded(editor)
    /\ editor.tentative \in {None} \cup 0 .. editor.current
    /\ editor.savePoint \in {None} \cup Nat
    /\ editor.detach \in {None} \cup 0 .. Recorded(editor)
    /\ \A k \in 1 .. Recorded(editor) :
          /\ editor.actions[k].at \in {"insert", "remove"}
          /\ editor.actions[k].mayCoalesce \in BOOLEAN
          /\ editor.actions[k].length \in Nat \ {0}
    /\ editor.scrapAt \in 0 .. Len(editor.scraps)

(* Undo and redo retrace the texts the document went through, however saving,
   composing and abandoned redo actions moved the store the scraps lie in.      *)
UndoRetraces ==
    /\ Len(editor.trail) = Recorded(editor) + 1
    /\ editor.text = editor.trail[editor.current + 1]

(* A document that says it is not modified has the text of its last save: what
   the close prompt relies on (Document::IsSavePoint).                          *)
SavePointIsSavedText ==
    IsSavePoint(editor) => editor.text = editor.savedTrail[Len(editor.savedTrail)]

(* The watchers were told the truth about the save point, the last they heard. *)
ModifiedIsNotified == editor.notified = IsSavePoint(editor)

(* No unit of undo or redo reaches over a save point, so that undo can always come
   back to the saved text.                                                      *)
UndoStopsAtSavePoint ==
    editor.savePoint \in 1 .. Recorded(editor) - 1 =>
        ~ editor.actions[editor.savePoint].mayCoalesce

(* Once a composition is over nothing of its tentative text is left, neither in
   the document nor within reach of undo or redo.                               *)
CompositionLeavesNoTrace ==
    ~ Tentative(editor) =>
        \A k \in 1 .. Len(editor.trail) : Composed \notin Range(editor.trail[k])

(* A save point and a detach point are never held together; up to the one that is
   held, the history is the way that led to the saved text.                     *)
HistoryKnowsTheSavedPath ==
    LET shared == IF editor.detach # None THEN editor.detach
                  ELSE IF editor.savePoint < Recorded(editor) THEN editor.savePoint
                  ELSE Recorded(editor)
    IN /\ editor.detach # None => editor.savePoint = None
       /\ SubSeq(editor.trail, 1, shared + 1) = SubSeq(editor.savedTrail, 1, shared + 1)

(* The history knows the text of every point it can return to, the saved one
   among them, and tells the watchers when it is reached or left; and what the user
   sees as one step, a save or a composition, undo takes as one.              *)
HistoryIsTrue ==
    /\ HistoryTypeOK /\ UndoRetraces /\ SavePointIsSavedText
    /\ ModifiedIsNotified /\ HistoryKnowsTheSavedPath
    /\ UndoStopsAtSavePoint /\ CompositionLeavesNoTrace
===============================================================================
