---------------------------- MODULE DecorationList ----------------------------
(* The document's decorations (indicators drawn over the text): a run list for
   each indicator in use, dropped when it decorates nothing, and the cached
   pointer to the one being filled. "values" says what every indicator has at
   every position, a history variable of the model.                            *)
EXTENDS Integers, Sequences, SequencesExt, StepReach

CONSTANTS
    Indicators,    \* their numbers
    Coloured,      \* those filled with more values than "on"
    Styles,        \* the values of a coloured one; 0 is none
    MaxText        \* bound: length of the text

ASSUME StyleBounds ==
    0 \in Indicators /\ 0 \in Styles /\ Styles \subseteq Nat /\ MaxText \in Nat

VARIABLES
    decorations,       \* decorationList: run lists of the indicators in use
    current,           \* the decoration cached for FillRange, or none
    currentIndicator,
    values
decorationVars == <<decorations, current, currentIndicator, values>>

R == INSTANCE RunStyles

NotCached == -1
StylesOf(i) == IF i \in Coloured THEN Styles ELSE {0, 1}
InUse == DOMAIN decorations
IsEmpty(runs) == R!Runs(runs) = 1 /\ R!AllSameAs(runs, 0)
Only(list, kept) == [i \in kept |-> list[i]]
TextLength == Len(values[CHOOSE i \in Indicators : TRUE])

DecorationsInit ==
    /\ decorations = <<>> /\ current = NotCached
    /\ currentIndicator = 0 /\ values = [i \in Indicators |-> <<>>]

SetCurrentIndicator ==
    \E i \in Indicators :
        /\ currentIndicator' = i /\ current' = IF i \in InUse THEN i ELSE NotCached
        /\ UNCHANGED <<decorations, values>>

(* The decoration that FillRange fills: the cached one, else the indicator's,
   made of unstyled text when it has none.                                     *)
Filling ==
    IF current # NotCached THEN decorations[current]
    ELSE IF currentIndicator \in InUse THEN decorations[currentIndicator]
    ELSE R!InsertSpace(R!NoRuns, 0, TextLength)

Filled(seq, position, value, length) ==
    [k \in DOMAIN seq |-> IF k \in position + 1 .. position + length THEN value ELSE seq[k]]

DecorationFillRange ==
    \E position \in 0 .. TextLength, value \in StylesOf(currentIndicator), length \in 0 .. MaxText :
        LET runs == R!FillRange(Filling, position, value, length).runs
            i == currentIndicator
        IN /\ position + length <= TextLength
           /\ IF IsEmpty(runs)
              THEN decorations' = Only(decorations, InUse \ {i}) /\ current' = NotCached
              ELSE decorations' = [k \in InUse \cup {i} |-> IF k = i THEN runs ELSE decorations[k]]
                   /\ current' = i
           /\ values' = [values EXCEPT ![i] = Filled(@, position, value, length)]
           /\ UNCHANGED currentIndicator

(* Text inserted at the end of the document stays undecorated. *)
Spaced(runs, position, length) ==
    IF position = TextLength
    THEN R!FillRange(R!InsertSpace(runs, position, length), position, 0, length).runs
    ELSE R!InsertSpace(runs, position, length)

(* New text is decorated as the text before it, if there is decorated text on both
   sides.                                                                      *)
Inherited(seq, position) ==
    IF position \in 1 .. Len(seq) - 1 /\ seq[position + 1] # 0 THEN seq[position] ELSE 0

InsertSpace ==
    \E position \in 0 .. TextLength, length \in 1 .. 2 :
        /\ TextLength + length <= MaxText
        /\ decorations' = [i \in InUse |-> Spaced(decorations[i], position, length)]
        /\ values' = [i \in Indicators |->
               SubSeq(values[i], 1, position)
                   \o [k \in 1 .. length |-> Inherited(values[i], position)]
                   \o SubSeq(values[i], position + 1, TextLength)]
        /\ UNCHANGED <<current, currentIndicator>>

Kept(list, length) == IF length = 0 THEN {} ELSE {i \in DOMAIN list : ~ IsEmpty(list[i])}
Bug_Cached(kept) == current
Cached(kept) == IF kept # InUse THEN NotCached ELSE current

DeleteText ==
    \E position \in 0 .. TextLength - 1 : \E length \in 1 .. TextLength - position :
        LET cut == [i \in InUse |-> R!DeleteRange(decorations[i], position, length)]
            kept == Kept(cut, TextLength - length)
        IN /\ decorations' = Only(cut, kept) /\ current' = Cached(kept)
           /\ values' = [i \in Indicators |->
                  SubSeq(values[i], 1, position)
                      \o SubSeq(values[i], position + length + 1, TextLength)]
           /\ UNCHANGED currentIndicator

DecorationsNext == SetCurrentIndicator \/ DecorationFillRange \/ InsertSpace \/ DeleteText

-----------------------------------------------------------------------------
(* The runs give every position the value the edits gave it; an indicator without
   a decoration has none anywhere.                                             *)
RunsAreValues ==
    \A i \in Indicators :
        IF i \in InUse THEN R!Values(decorations[i]) = values[i]
        ELSE \A k \in DOMAIN values[i] : values[i][k] = 0

(* After every edit no run is empty, no two neighbours are equal and the style at
   the end is unused (RunStyles::Check): Empty() and the walks from run to run
   rely on it, so a decoration is kept only while it decorates something.       *)
RunsAreSound ==
    \A i \in InUse : R!IsSound(decorations[i]) /\ ~ IsEmpty(decorations[i])

(* The cached decoration is still in the list, and is the current indicator's:
   otherwise the next fill would go to freed memory or to another indicator.    *)
CacheIsLive == current # NotCached => current \in InUse /\ current = currentIndicator

(* The range a fill reports holds all that it changed, and a fill that reports no
   change made none: the editor repaints no more than that.                     *)
FillReportsItsChange ==
    \A position \in 0 .. TextLength - 1, value \in StylesOf(currentIndicator) :
        \A length \in 1 .. TextLength - position :
            LET result == R!FillRange(Filling, position, value, length)
                old == values[currentIndicator]
                filled == Filled(old, position, value, length)
                changed == {k \in DOMAIN old : old[k] # filled[k]}
            IN /\ result.changed = (changed # {})
               /\ result.changed => changed \subseteq
                      result.position + 1 .. result.position + result.length

(* Runs, the list of decorations and its cached pointer stand for the styles
   that the edits and fills give. *)
StylesAreKept == RunsAreValues /\ RunsAreSound /\ CacheIsLive /\ FillReportsItsChange
===============================================================================
