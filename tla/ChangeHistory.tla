----------------------------- MODULE ChangeHistory -----------------------------
(* The change history that margins and indicators show: which characters are saved,
   modified or reverted, and where text was deleted. CellBuffer tells it of every
   edit, undo, redo and save; a deletion keeps on a stack what it buried and undoing
   it digs that up again. RunStyles and SparseVector are taken as the values they
   hold for a position. The undo history goes action by action; undo collection
   stays on and the epoch before the session is left out.                        *)
EXTENDS Integers, Sequences, FiniteSets, SequencesExt, FiniteSetsExt

CONSTANTS
    TextLengths,   \* lengths a text opens with
    MaxBuffer,     \* bound: length of the text
    MaxEdits,      \* bound: edits of one letter, one fewer of more; steps of reversions
    MaxSaves       \* bound: saves

ASSUME ChangeBounds == {MaxBuffer, MaxEdits, MaxSaves} \cup TextLengths \subseteq Nat

(* "text" names each character by the action that typed it, 0 for the ones opened
   with, and its place there; "saved" is the text last saved and "restored" the
   characters that undoing a deletion brought back: both are history variables. *)
VARIABLE buffer
changeVars == <<buffer>>

Undetached == -1
Original == 0
RevertedOriginal == 1
Saved == 2
Modified == 3
RevertedToChange == 4

-----------------------------------------------------------------------------
(* A set of editions with their counts, oldest first. *)

One(edition) == [edition |-> edition, count |-> 1]
EditionSetPush(set, ec) ==
    IF set = <<>> \/ Last(set).edition # ec.edition THEN Append(set, ec)
    ELSE [set EXCEPT ![Len(set)].count = @ + ec.count]
EditionSetPop(set) ==
    IF set = <<>> THEN set
    ELSE IF Last(set).count = 1 THEN Front(set) ELSE [set EXCEPT ![Len(set)].count = @ - 1]
EditionSetCount(set) == FoldLeft(LAMBDA n, ec : n + ec.count, 0, set)
PopTimes(set, times) == FoldLeft(LAMBDA s, n : EditionSetPop(s), set, [n \in 1 .. times |-> n])
AsSaved(edition) == IF edition = Modified THEN Saved ELSE edition

-----------------------------------------------------------------------------
(* ChangeLog: an edition for each character, the editions deleted before each
   position, and the stack of what deletions buried: a count of spans for each step,
   and the spans. "straddled" remembers a step that added to the span of another and
   has spans of its own over it: a history variable.                           *)

ClearedLog(length) ==
    [inserts |-> [k \in 1 .. length |-> Original], deletes |-> [p \in 0 .. length |-> <<>>],
     steps |-> <<>>, spans |-> <<>>, straddled |-> FALSE]
LogLength(log) == Len(log.inserts)

(* The style RunStyles gives to inserted space: the one before, if styled on both
   sides.                                                                      *)
SpaceStyle(values, position) ==
    IF position = 0 THEN Original
    ELSE IF position < Len(values) /\ values[position + 1] = Original THEN Original
    ELSE values[position]
SpaceIn(log, position, length) ==
    [log EXCEPT
        !.inserts = SubSeq(@, 1, position) \o [k \in 1 .. length |-> SpaceStyle(@, position)]
                        \o SubSeq(@, position + 1, Len(@)),
        !.deletes = [p \in 0 .. LogLength(log) + length |->
                        IF p < position THEN @[p]
                        ELSE IF p < position + length THEN <<>> ELSE @[p - length]]]
Filled1(log, start, edition, length) ==
    [log EXCEPT !.inserts = [k \in DOMAIN @ |->
        IF k \in start + 1 .. start + length THEN edition ELSE @[k]]]

(* SparseVector::DeleteRange: at the start of the text the last element of the range
   stays, elsewhere the one at its end.                                        *)
SparseWithout(deletes, position, length, textLength) ==
    LET filled == {p \in 1 .. length : deletes[p] # <<>>}
        first == IF length = textLength THEN deletes[length]
                 ELSE IF filled = {} THEN deletes[0] ELSE deletes[Max(filled)]
    IN [p \in 0 .. textLength - length |->
           IF p < position THEN deletes[p]
           ELSE IF p = 0 THEN first ELSE deletes[p + length]]
RangeCut(log, position, length) ==
    LET cut == SparseWithout(log.deletes, position, length, LogLength(log))
    IN [log EXCEPT
           !.inserts = SubSeq(@, 1, position) \o SubSeq(@, position + length + 1, Len(@)),
           !.deletes = IF @[position] = <<>> THEN cut ELSE [cut EXCEPT ![position] = log.deletes[position]]]

PushDeletionAt(log, position, ec) ==
    [log EXCEPT !.deletes[position] = EditionSetPush(@, ec)]

EndRun(values, position) ==
    LET ends == {p \in position + 1 .. Len(values) - 1 : values[p + 1] # values[position + 1]}
    IN IF ends = {} THEN Len(values) ELSE Min(ends)
(* From the first styled run on, every other run: the one after a styled run is
   taken for unstyled and skipped.                                             *)
SavedRuns(values, position, end) ==
    LET from[p \in 0 .. Len(values)] ==
            IF p >= end THEN <<>>
            ELSE LET next == EndRun(values, p)
                 IN <<[start |-> p, length |-> Min({next, end}) - p, edition |-> values[p + 1],
                       count |-> 1, direction |-> "insertion"]>> \o from[EndRun(values, next)]
    IN from[IF values[position + 1] = Original THEN EndRun(values, position) ELSE position]
PushInsertion(log, span) ==
    [log EXCEPT !.steps[Len(log.steps)] = @ + 1, !.spans = Append(@, span)]
PushDeletion(log, span) ==
    LET same == log.spans # <<>> /\ [Last(log.spans) EXCEPT !.count = span.count] = span
        counted == [log EXCEPT !.steps[Len(log.steps)] = @ + span.count]
    IN IF same THEN [counted EXCEPT !.spans[Len(log.spans)].count = @ + span.count]
       ELSE [counted EXCEPT !.spans = Append(@, span)]
DeletedIn(log, position, length) ==
    LET at(p) == [n \in DOMAIN log.deletes[p] |->
            [start |-> p, length |-> 0, edition |-> log.deletes[p][n].edition,
             count |-> log.deletes[p][n].count, direction |-> "deletion"]]
    IN FlattenSeq([n \in 1 .. length |-> at(position + n)])
SaveRange(log, position, length) ==
    LET pushed == FoldLeft(PushDeletion,
            FoldLeft(PushInsertion, [log EXCEPT !.steps = Append(@, 0)],
                SavedRuns(log.inserts, position, position + length)),
            DeletedIn(log, position, length))
        own == SubSeq(pushed.spans, Len(log.spans) + 1, Len(pushed.spans))
    IN [pushed EXCEPT !.straddled = @ \/
           (own # <<>> /\ Last(pushed.steps) # FoldLeft(LAMBDA n, s : n + s.count, 0, own))]
Bug_CollapseRange(log, position, length) ==
    FoldLeft(LAMBDA l, span : PushDeletionAt(l, position, [edition |-> span.edition, count |-> 1]),
        [log EXCEPT !.deletes = [p \in DOMAIN @ |->
            IF p \in position + 1 .. position + length THEN <<>> ELSE @[p]]],
        DeletedIn(log, position, length))
CollapseRange(log, position, length) ==
    FoldLeft(LAMBDA l, span :
            PushDeletionAt(l, position, [edition |-> span.edition, count |-> span.count]),
        [log EXCEPT !.deletes = [p \in DOMAIN @ |->
            IF p \in position + 1 .. position + length THEN <<>> ELSE @[p]]],
        DeletedIn(log, position, length))
SaveHistoryForDelete(log, position, length) ==
    CollapseRange(SaveRange(log, position, length), position, length)
CutSavingHistory(log, position, length) ==
    RangeCut(SaveHistoryForDelete(log, position, length), position, length)

(* One span of the step being undone; "left" is what the step has still to pop,
   yet a span gives up to the whole of the step.                               *)
PopSpan(acc, step) ==
    LET span == Last(acc.log.spans)
        remove == Min({step, span.count})
        popped == IF remove = span.count THEN Front(acc.log.spans)
                  ELSE [acc.log.spans EXCEPT ![Len(acc.log.spans)].count = @ - remove]
        log == [acc.log EXCEPT !.spans = popped]
        ec == [edition |-> span.edition, count |-> remove]
    IN IF span.direction = "insertion"
       THEN [log |-> Filled1(log, span.start, span.edition, span.length),
             set |-> acc.set, left |-> acc.left - 1]
       ELSE [log |-> [log EXCEPT !.deletes[span.start] = <<ec>> \o @],
             set |-> PopTimes(acc.set, remove), left |-> acc.left - remove]
PopDeletion(log, position, length) ==
    LET step == Last(log.steps)
        begun == [log |-> [log EXCEPT !.deletes[position + length] = <<>>, !.steps = Front(@)],
                  set |-> EditionSetPop(log.deletes[position + length]), left |-> step]
        done == FoldLeft(LAMBDA acc, n : IF acc.left > 0 THEN PopSpan(acc, step) ELSE acc,
                         begun, [n \in 1 .. step |-> n])
    IN [done.log EXCEPT !.deletes[position] = done.set]

LogSaved(log) ==
    [log EXCEPT
        !.inserts = [k \in DOMAIN @ |-> AsSaved(@[k])],
        !.deletes = [p \in DOMAIN @ |-> [n \in DOMAIN @[p] |-> [@[p][n] EXCEPT !.edition = AsSaved(@)]]],
        !.spans = [n \in DOMAIN @ |-> [@[n] EXCEPT !.edition = AsSaved(@)]]]

-----------------------------------------------------------------------------
(* ChangeHistory: the log and, while saved changes are undone, that of the reversions. *)

History(length) == [log |-> ClearedLog(length), reverting |-> FALSE, reversions |-> ClearedLog(0)]
StartReversion(h) ==
    IF h.reverting THEN h
    ELSE [h EXCEPT !.reverting = TRUE, !.reversions = ClearedLog(LogLength(h.log))]
EndReversion(h) == [h EXCEPT !.reverting = FALSE, !.reversions = ClearedLog(0)]

ReversionInsert(log, position, length, beforeSave) ==
    LET spaced == SpaceIn(log, position, length)
    IN IF beforeSave THEN PopDeletion(spaced, position, length) ELSE spaced
InsertInto(h, position, length, beforeSave) ==
    LET edition == IF beforeSave THEN Saved ELSE Modified
        log == Filled1(SpaceIn(h.log, position, length), position, edition, length)
    IN IF h.reverting
       THEN [h EXCEPT !.log = log, !.reversions = ReversionInsert(@, position, length, beforeSave)]
       ELSE [h EXCEPT !.log = log]

CutBack(log, position, length, reverting) ==
    LET cut == CutSavingHistory(log, position, length)
    IN IF reverting THEN PushDeletionAt(cut, position, One(RevertedOriginal)) ELSE cut
DeleteRangeOf(h, position, length, reverting) ==
    LET log == RangeCut(h.log, position, length)
    IN IF h.reverting
       THEN [h EXCEPT !.log = log, !.reversions = CutBack(@, position, length, reverting)]
       ELSE [h EXCEPT !.log = log]

DeleteSaving(h, position, length, beforeSave, isDetached) ==
    LET cut == CutSavingHistory(h.log, position, length)
        log == PushDeletionAt(cut, position, One(IF beforeSave THEN Saved ELSE Modified))
        kept(l) == IF isDetached THEN SaveHistoryForDelete(l, position, length) ELSE l
    IN IF h.reverting
       THEN [h EXCEPT !.log = log, !.reversions = RangeCut(kept(@), position, length)]
       ELSE [h EXCEPT !.log = log]

ReversionRestore(log, position, length, isDetached) ==
    LET spaced == SpaceIn(log, position, length)
    IN IF isDetached THEN spaced ELSE Filled1(spaced, position, RevertedOriginal, length)
UndoDeleteStep(h, position, length, isDetached) ==
    LET log == PopDeletion(SpaceIn(h.log, position, length), position, length)
    IN IF h.reverting
       THEN [h EXCEPT !.log = log, !.reversions = ReversionRestore(@, position, length, isDetached)]
       ELSE [h EXCEPT !.log = log]

EditionAt(h, position) ==
    LET edition == h.log.inserts[position + 1]
    IN IF h.reverting /\ h.reversions.inserts[position + 1] # Original
       THEN IF edition = Original THEN RevertedOriginal ELSE RevertedToChange
       ELSE edition

-----------------------------------------------------------------------------
(* UndoHistory's points and CellBuffer's operations. *)

BeforeSavePoint(b) == b.savePoint < 0 \/ b.savePoint > b.current
PreviousBeforeSavePoint(b) == b.savePoint < 0 \/ b.savePoint >= b.current
BeforeReachableSavePoint(b) == b.savePoint > 0 /\ b.savePoint > b.current
AfterSavePoint(b) == b.savePoint >= 0 /\ b.savePoint <= b.current
AfterDetachPoint(b) == b.detach # Undetached /\ b.detach < b.current
AfterOrAtDetachPoint(b) == b.detach # Undetached /\ b.detach <= b.current

AppendStep(b, type, position, characters) ==
    LET loses == b.current < b.savePoint
    IN [b EXCEPT
           !.actions = Append(SubSeq(@, 1, b.current),
               [type |-> type, position |-> position, characters |-> characters]),
           !.current = @ + 1, !.edits = @ + 1, !.single = @ /\ Len(characters) = 1,
           !.savePoint = IF loses THEN Undetached ELSE @,
           !.detach = IF (loses /\ @ = Undetached) \/ (~ loses /\ @ > b.current) THEN b.current ELSE @]

TextIn(text, position, characters) ==
    SubSeq(text, 1, position) \o characters \o SubSeq(text, position + 1, Len(text))
TextWithout(text, position, length) ==
    SubSeq(text, 1, position) \o SubSeq(text, position + length + 1, Len(text))
InsertCharacters(b, position, characters) ==
    LET to == AppendStep(b, "insert", position, characters)
    IN [to EXCEPT
           !.text = TextIn(@, position, characters),
           !.changes = InsertInto(@, position, Len(characters), BeforeReachableSavePoint(to))]
DeleteCharacters(b, position, length) ==
    LET to == AppendStep(b, "remove", position, SubSeq(b.text, position + 1, position + length))
    IN [to EXCEPT
           !.text = TextWithout(@, position, length), !.restored = @ \ ToSet(Last(to.actions).characters),
           !.changes = DeleteSaving(@, position, length, BeforeReachableSavePoint(to),
                                    AfterOrAtDetachPoint(to))]
PerformUndoStep(b) ==
    LET step == b.actions[b.current]
        length == Len(step.characters)
        back == PreviousBeforeSavePoint(b)
        h == IF back THEN StartReversion(b.changes) ELSE b.changes
    IN IF step.type = "insert"
       THEN [b EXCEPT !.text = TextWithout(@, step.position, length), !.current = @ - 1,
                      !.restored = @ \ ToSet(step.characters),
                      !.changes = DeleteRangeOf(h, step.position, length, back /\ ~ AfterDetachPoint(b))]
       ELSE [b EXCEPT !.text = TextIn(@, step.position, step.characters), !.current = @ - 1,
                      !.restored = @ \cup ToSet(step.characters),
                      !.changes = UndoDeleteStep(h, step.position, length, AfterDetachPoint(b))]
PerformRedoStep(b) ==
    LET step == b.actions[b.current + 1]
        length == Len(step.characters)
        h == IF step.type = "insert"
             THEN InsertInto(b.changes, step.position, length,
                             BeforeSavePoint(b) /\ ~ AfterOrAtDetachPoint(b))
             ELSE DeleteSaving(b.changes, step.position, length, BeforeReachableSavePoint(b),
                               AfterOrAtDetachPoint(b))
    IN [b EXCEPT !.text = IF step.type = "insert" THEN TextIn(@, step.position, step.characters)
                          ELSE TextWithout(@, step.position, length),
                 !.current = @ + 1, !.restored = @ \ ToSet(step.characters),
                 !.changes = IF AfterSavePoint(b) THEN EndReversion(h) ELSE h]

ChangesInit ==
    \E length \in TextLengths :
        LET text == [k \in 1 .. length |-> [by |-> 0, place |-> k]]
        IN buffer = [text |-> text, actions |-> <<>>, current |-> 0, savePoint |-> 0,
                     detach |-> Undetached, changes |-> History(length), saved |-> text, restored |-> {},
                     edits |-> 0, single |-> TRUE, saves |-> 0]

\* Another edit is within the bound.
More(length) == buffer.edits + (IF buffer.single /\ length = 1 THEN 0 ELSE 1) < MaxEdits

InsertText ==
    \E position \in 0 .. Len(buffer.text), length \in 1 .. 2 :
        /\ Len(buffer.text) + length <= MaxBuffer /\ More(length)
        /\ buffer' = InsertCharacters(buffer, position,
               [k \in 1 .. length |-> [by |-> buffer.current + 1, place |-> k]])
RemoveText ==
    \E position \in 0 .. Len(buffer.text) - 1 : \E length \in 1 .. Len(buffer.text) - position :
        /\ More(length) /\ Len(buffer.changes.reversions.steps) < MaxEdits
        /\ buffer' = DeleteCharacters(buffer, position, length)
UndoOne == buffer.current > 0 /\ buffer' = PerformUndoStep(buffer)
RedoOne ==
    /\ buffer.current < Len(buffer.actions) /\ Len(buffer.changes.reversions.steps) < MaxEdits
    /\ buffer' = PerformRedoStep(buffer)
SaveText ==
    buffer.saves < MaxSaves /\ buffer' = [buffer EXCEPT
        !.saves = @ + 1, !.savePoint = buffer.current, !.detach = Undetached, !.saved = buffer.text,
        !.changes = EndReversion([@ EXCEPT !.log = LogSaved(@)])]

(* ChangeStack::Check: the steps count the spans that are on the stack. A build with
   assertions ends where it fails; another goes on with the wrong counts, in the end off
   an empty stack, and is not followed.                                        *)
Counted(log) ==
    FoldLeft(+, 0, log.steps) = FoldLeft(LAMBDA n, s : n + s.count, 0, log.spans)
Check(h) == Counted(h.log) /\ Counted(h.reversions)

ChangesNext ==
    Check(buffer.changes) /\ (InsertText \/ RemoveText \/ UndoOne \/ RedoOne \/ SaveText)

-----------------------------------------------------------------------------
(* Properties. *)

(* The logs are as long as the text, and the steps count the spans (Check), but for one
   exception that is the code's: PopDeletion lets a span give up as many as the whole
   step has (ChangeHistory.cxx:243-245), so that undoing a step which straddles the span
   of another takes of it what the other put there.                            *)
LogsAreSound ==
    LET h == buffer.changes
    IN /\ LogLength(h.log) = Len(buffer.text)
       /\ h.reverting => LogLength(h.reversions) = Len(buffer.text)
       /\ Check(h) \/ h.log.straddled \/ h.reversions.straddled

(* A step to be undone finds what it left: no deletions inside an insertion, a
   deletion's editions before its place (the assertions of DeleteRange and of
   PopDeletion).                                                               *)
StepsCanBeUndone ==
    LET step == buffer.actions[buffer.current]
        log == buffer.changes.log
    IN buffer.current > 0 =>
           IF step.type = "insert"
           THEN \A p \in step.position .. step.position + Len(step.characters) - 1 : log.deletes[p] = <<>>
           ELSE log.deletes[step.position] # <<>> /\ log.steps # <<>>

(* Where the place of a deletion is after the action that followed. *)
AfterStep(position, step) ==
    LET length == Len(step.characters)
    IN IF step.type = "insert" THEN IF position < step.position THEN position ELSE position + length
       ELSE IF position <= step.position THEN position
       ELSE IF position <= step.position + length THEN step.position ELSE position - length
PlaceOf(n) ==
    FoldLeft(AfterStep, buffer.actions[n].position, SubSeq(buffer.actions, n + 1, buffer.current))
Horizon == IF buffer.savePoint >= 0 THEN buffer.savePoint ELSE buffer.detach

(* However edits, undo, redo and saves follow each other, every deletion still in
   force is marked where its text was, once.                                   *)
DeletionsAreMarked ==
    \A p \in 0 .. Len(buffer.text) :
        EditionSetCount(buffer.changes.log.deletes[p]) =
            Cardinality({n \in 1 .. buffer.current : buffer.actions[n].type = "remove" /\ PlaceOf(n) = p})

(* A character is original, saved or modified as its typing was, whatever went on
   around it; one brought back by undoing its deletion may not be (SavedRuns,
   SpaceStyle).                                                                *)
EditionsAreTrue ==
    \A k \in DOMAIN buffer.text : buffer.text[k] \notin buffer.restored =>
        buffer.changes.log.inserts[k] =
            IF buffer.text[k].by = 0 THEN Original
            ELSE IF buffer.text[k].by <= Horizon THEN Saved ELSE Modified

(* While the saved text is ahead, to be reached by redo, what undo brought back that
   is not in it is shown as reverted. Characters that are in it may be shown so too,
   having taken the mark of their neighbour (SpaceStyle).                      *)
ReversionsAreShown ==
    buffer.current < buffer.savePoint =>
        \A k \in DOMAIN buffer.text :
            buffer.text[k].by <= buffer.savePoint /\ buffer.text[k] \notin ToSet(buffer.saved) =>
                EditionAt(buffer.changes, k - 1) \in {RevertedOriginal, RevertedToChange}

(* The marks agree with the text as long as the counts do. *)
ChangesAreKept ==
    /\ LogsAreSound
    /\ Check(buffer.changes) =>
          StepsCanBeUndone /\ DeletionsAreMarked /\ EditionsAreTrue /\ ReversionsAreShown
===============================================================================
