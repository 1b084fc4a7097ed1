--------------------------- MODULE ContractionState ---------------------------
(* Which document lines are displayed, and on how many display lines each (hidden
   by folding, tall by wrapping). Nothing is stored while every line is one
   display line; the first exception makes the run lists and the partitioning of
   the display lines. "folds" is what the calls asked for line by line, a history
   variable of the model.                                                      *)
EXTENDS Integers, Sequences, SequencesExt, StepReach

CONSTANTS
    Heights,       \* display lines of a wrapped line
    MaxLines,      \* bound: lines of the document
    MaxExceptions  \* bound: lines hidden, contracted or tall at once

ASSUME FoldBounds ==
    Heights \subseteq Nat \ {0} /\ MaxLines \in Nat \ {0} /\ MaxExceptions \in Nat

VARIABLES contraction, folds
foldVars == <<contraction, folds>>

Display == INSTANCE Partitioning
Lists == INSTANCE RunStyles

Plain == [visible |-> TRUE, expanded |-> TRUE, height |-> 1]
Flag(b) == IF b THEN 1 ELSE 0

(* ContractionState::Clear *)
OneToOneState(lines) == [oneToOne |-> TRUE, linesInDocument |-> lines]
FoldsInit == contraction = OneToOneState(1) /\ folds = <<Plain>>

LinesInDoc(c) == IF c.oneToOne THEN c.linesInDocument ELSE Display!Partitions(c.displayLines) - 1
DisplayFromDoc(c, line) ==
    IF c.oneToOne THEN (IF line <= c.linesInDocument THEN line ELSE c.linesInDocument)
    ELSE Display!PositionFromPartition(c.displayLines, line)
LinesDisplayed(c) == DisplayFromDoc(c, LinesInDoc(c))
DocFromDisplay(c, display) ==
    IF c.oneToOne THEN display
    ELSE Display!PartitionFromPosition(c.displayLines,
             IF display > LinesDisplayed(c) THEN LinesDisplayed(c) ELSE display)
GetVisible(c, line) ==
    c.oneToOne \/ line >= Lists!Length(c.flags.visible) \/ Lists!ValueAt(c.flags.visible, line) = 1
GetExpanded(c, line) == c.oneToOne \/ Lists!ValueAt(c.flags.expanded, line) = 1
GetHeight(c, line) == IF c.oneToOne THEN 1 ELSE Lists!ValueAt(c.flags.heights, line)
HiddenLines(c) == ~ c.oneToOne /\ ~ Lists!AllSameAs(c.flags.visible, 1)
ContractedNext(c, line) ==
    IF c.oneToOne THEN -1
    ELSE IF ~ GetExpanded(c, line) THEN line
    ELSE IF Lists!EndRun(c.flags.expanded, line) < LinesInDoc(c) THEN Lists!EndRun(c.flags.expanded, line)
    ELSE -1

-----------------------------------------------------------------------------
Opened(runs, line) == Lists!SetValueAt(Lists!InsertSpace(runs, line, 1), line, 1)
OneMore(starts, line, display) ==
    Display!InsertText(Display!InsertPartition(starts, line, display), line, 1)

Bug_InsertLine(c, line) ==
    [c EXCEPT !.flags = [f \in DOMAIN @ |->
                    IF f = "visible" THEN Lists!InsertSpace(@[f], line, 1) ELSE Opened(@[f], line)],
              !.displayLines = OneMore(@, line, DisplayFromDoc(c, line))]
InsertLine(c, line) ==
    [c EXCEPT !.flags = [f \in DOMAIN @ |-> Opened(@[f], line)],
              !.displayLines = OneMore(@, line, DisplayFromDoc(c, line))]
InsertLines(c, line, count) ==
    LET inserted[n \in 0 .. count] == IF n = 0 THEN c ELSE InsertLine(inserted[n - 1], line + n - 1)
    IN IF c.oneToOne THEN [c EXCEPT !.linesInDocument = @ + count] ELSE inserted[count]

Dropped(runs, line) == Lists!DeleteRange(runs, line, 1)
Shifted(starts, line, delta) == Display!InsertText(starts, line, delta)

DeleteLine(c, line) ==
    LET gone == IF GetVisible(c, line) THEN GetHeight(c, line) ELSE 0
    IN [c EXCEPT !.flags = [f \in DOMAIN @ |-> Dropped(@[f], line)],
                 !.displayLines = Display!RemovePartition(
                     IF gone = 0 THEN @ ELSE Shifted(@, line, -gone), line)]
DeleteLines(c, line, count) ==
    LET deleted[n \in 0 .. count] == IF n = 0 THEN c ELSE DeleteLine(deleted[n - 1], line)
    IN IF c.oneToOne THEN [c EXCEPT !.linesInDocument = @ - count] ELSE deleted[count]

NoLines ==
    [oneToOne |-> FALSE, displayLines |-> Display!One,
     flags |-> [f \in {"visible", "expanded", "heights"} |-> Lists!NoRuns]]
EnsureData(c) == IF c.oneToOne THEN InsertLines(NoLines, 0, c.linesInDocument) ELSE c

ShownFrom(starts, c, first, last, isVisible) ==
    LET shown[line \in first .. last + 1] ==
            IF line = first THEN starts
            ELSE IF GetVisible(c, line - 1) = isVisible THEN shown[line - 1]
            ELSE Shifted(shown[line - 1], line - 1,
                     IF isVisible THEN GetHeight(c, line - 1) ELSE -GetHeight(c, line - 1))
    IN shown[last + 1]
WithVisible(c, first, last, isVisible) ==
    IF \A line \in first .. last : GetVisible(c, line) = isVisible THEN c
    ELSE [c EXCEPT !.displayLines = ShownFrom(@, c, first, last, isVisible),
             !.flags.visible = Lists!FillRange(@, first, Flag(isVisible), last - first + 1).runs]
SetVisible(c, first, last, isVisible) ==
    IF c.oneToOne /\ isVisible THEN c ELSE WithVisible(EnsureData(c), first, last, isVisible)

WithExpanded(c, line, isExpanded) ==
    IF isExpanded = GetExpanded(c, line) THEN c
    ELSE [c EXCEPT !.flags.expanded = Lists!SetValueAt(@, line, Flag(isExpanded))]
SetExpanded(c, line, isExpanded) ==
    IF c.oneToOne /\ isExpanded THEN c ELSE WithExpanded(EnsureData(c), line, isExpanded)

WithHeight(c, line, height) ==
    IF GetHeight(c, line) = height THEN c
    ELSE [c EXCEPT !.flags.heights = Lists!SetValueAt(@, line, height),
             !.displayLines = IF GetVisible(c, line)
                              THEN Shifted(@, line, height - GetHeight(c, line)) ELSE @]
SetHeight(c, line, height) ==
    IF c.oneToOne /\ height = 1 THEN c ELSE WithHeight(EnsureData(c), line, height)

ExpandAll(c) ==
    IF c.oneToOne THEN c
    ELSE [c EXCEPT !.flags.expanded = Lists!FillRange(@, 0, 1, Lists!Length(@)).runs]
ShowAll(c) == OneToOneState(LinesInDoc(c))

-----------------------------------------------------------------------------
(* The editor's calls. *)

Lines == 0 .. Len(folds) - 1
Exceptions(list) == {<<k, field>> \in (DOMAIN list) \X DOMAIN Plain : list[k][field] # Plain[field]}
Within == Cardinality(Exceptions(folds')) <= MaxExceptions

LinesInserted ==
    \E line \in 0 .. Len(folds) : \E count \in 1 .. MaxLines - Len(folds) :
        /\ contraction' = InsertLines(contraction, line, count)
        /\ folds' = SubSeq(folds, 1, line) \o [k \in 1 .. count |-> Plain]
                        \o SubSeq(folds, line + 1, Len(folds))
LinesDeleted ==
    \E line \in Lines : \E count \in 1 .. Len(folds) - line :
        /\ count < Len(folds)
        /\ contraction' = DeleteLines(contraction, line, count)
        /\ folds' = SubSeq(folds, 1, line) \o SubSeq(folds, line + count + 1, Len(folds))
LinesFolded ==
    \E first \in Lines, last \in Lines, isVisible \in BOOLEAN :
        /\ first <= last
        /\ contraction' = SetVisible(contraction, first, last, isVisible)
        /\ folds' = [k \in DOMAIN folds |->
               IF k \in first + 1 .. last + 1 THEN [folds[k] EXCEPT !.visible = isVisible]
               ELSE folds[k]]
        /\ Within
LineExpanded ==
    \E line \in Lines, isExpanded \in BOOLEAN :
        /\ contraction' = SetExpanded(contraction, line, isExpanded)
        /\ folds' = [folds EXCEPT ![line + 1].expanded = isExpanded]
        /\ Within
LineWrapped ==
    \E line \in Lines, height \in Heights :
        /\ contraction' = SetHeight(contraction, line, height)
        /\ folds' = [folds EXCEPT ![line + 1].height = height]
        /\ Within
EverythingExpanded ==
    /\ contraction' = ExpandAll(contraction)
    /\ folds' = [k \in DOMAIN folds |-> [folds[k] EXCEPT !.expanded = TRUE]]
EverythingShown ==
    /\ contraction' = ShowAll(contraction)
    /\ folds' = [k \in DOMAIN folds |-> Plain]

FoldsNext ==
    \/ LinesInserted \/ LinesDeleted \/ LinesFolded \/ LineExpanded \/ LineWrapped
    \/ EverythingExpanded \/ EverythingShown

-----------------------------------------------------------------------------
(* Properties. *)

DisplayStart(line) ==
    LET before[k \in 0 .. line] ==
            IF k = 0 THEN 0
            ELSE before[k - 1] + (IF folds[k].visible THEN folds[k].height ELSE 0)
    IN before[line]

(* Every line starts at the display line that the visible lines before it fill up,
   and every display line leads back to the visible line it shows: what painting,
   scrolling and the caret's movements between lines take for granted.          *)
DisplayLinesAgree ==
    LET c == contraction
    IN /\ LinesInDoc(c) = Len(folds)
       /\ \A line \in 0 .. Len(folds) : DisplayFromDoc(c, line) = DisplayStart(line)
       /\ \A display \in 0 .. LinesDisplayed(c) - 1 :
             LET line == DocFromDisplay(c, display)
             IN /\ line \in Lines /\ folds[line + 1].visible
                /\ display \in DisplayStart(line) .. DisplayStart(line + 1) - 1

(* Line by line the run lists say what was asked for, whatever was inserted and
   deleted between; the search for the next contracted line, which walks the runs,
   finds it, and "no hidden lines" is said only when there is none.             *)
FoldsAreKept ==
    LET c == contraction
    IN /\ \A line \in Lines :
              /\ GetVisible(c, line) = folds[line + 1].visible
              /\ GetExpanded(c, line) = folds[line + 1].expanded
              /\ GetHeight(c, line) = folds[line + 1].height
              /\ LET contracted == {k \in line .. Len(folds) - 1 : ~ folds[k + 1].expanded}
                 IN IF contracted = {} THEN ContractedNext(c, line) = -1
                    ELSE /\ ContractedNext(c, line) \in contracted
                         /\ \A k \in contracted : ContractedNext(c, line) <= k
       /\ HiddenLines(c) = (\E line \in Lines : ~ folds[line + 1].visible)

(* Document lines and display lines stand for each other, folds and all. *)
FoldsAgree == DisplayLinesAgree /\ FoldsAreKept
===============================================================================
