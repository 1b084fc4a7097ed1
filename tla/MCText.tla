-------------------------------- MODULE MCText --------------------------------
(* The editor component's storage in one run: the text and its undo history, the
   gap vector under every per-character and per-line table, the decorations' run
   lists, the index of line starts, the folded and wrapped lines, the selection and the
   change history; and the find field, which searches the text.  The parts are told of
   each edit one after another and read nothing of each other, so each behaviour follows
   one of them.                                                                *)
EXTENDS UndoHistory, SplitVector, DecorationList, LineStarts, ContractionState,
    Selections, ChangeHistory, MCFindField

VARIABLE part
vars == <<part, historyVars, splitVars, decorationVars, lineVars, foldVars, selectionVars,
    changeVars, barVars>>

Init ==
    /\ part \in {"history", "vector", "decorations", "lines", "folds", "selections",
                "changes", "find"}
    /\ HistoryInit /\ SplitInit /\ DecorationsInit /\ LinesInit /\ FoldsInit
    /\ SelectionsInit /\ (several => part = "selections")
    /\ BarInit
    /\ ChangesInit /\ (Len(buffer.text) # Min(TextLengths) => part = "changes")

Next ==
    /\ \/ /\ part = "history" /\ HistoryNext
          /\ UNCHANGED <<splitVars, decorationVars, lineVars, foldVars, selectionVars, changeVars,
                         barVars>>
       \/ /\ part = "vector" /\ SplitNext
          /\ UNCHANGED <<historyVars, decorationVars, lineVars, foldVars, selectionVars, changeVars,
                         barVars>>
       \/ /\ part = "decorations" /\ DecorationsNext
          /\ UNCHANGED <<historyVars, splitVars, lineVars, foldVars, selectionVars, changeVars,
                         barVars>>
       \/ /\ part = "lines" /\ LinesNext
          /\ UNCHANGED <<historyVars, splitVars, decorationVars, foldVars, selectionVars, changeVars,
                         barVars>>
       \/ /\ part = "folds" /\ FoldsNext
          /\ UNCHANGED <<historyVars, splitVars, decorationVars, lineVars, selectionVars, changeVars,
                         barVars>>
       \/ /\ part = "selections" /\ SelectionsNext
          /\ UNCHANGED <<historyVars, splitVars, decorationVars, lineVars, foldVars, changeVars,
                         barVars>>
       \/ /\ part = "changes" /\ ChangesNext
          /\ UNCHANGED <<historyVars, splitVars, decorationVars, lineVars, foldVars, selectionVars,
                         barVars>>
       \/ /\ part = "find" /\ BarNext
          /\ UNCHANGED <<historyVars, splitVars, decorationVars, lineVars, foldVars, selectionVars,
                         changeVars>>
    /\ UNCHANGED part

Spec == Init /\ [][Next]_vars

(* In the part that runs: the gap is nowhere to be seen, and runs, decorations, selections and change marks go
   on standing for the characters they were set for.                           *)
StoresAgree ==
    /\ part = "vector" => GapIsHidden
    /\ part = "decorations" => StylesAreKept
    /\ part = "selections" => SelectionsAreKept
    /\ part = "changes" => ChangesAreKept

(* The texts selections are tried on, of one line and of two. *)
OneLine == {<<FALSE, FALSE, FALSE>>}
TwoLines == {<<FALSE, TRUE, FALSE>>}

(* Line starts, what is kept per line, and the display lines follow the text. *)
LinesAgree ==
    /\ part = "lines" => LinesAreKept
    /\ part = "folds" => FoldsAgree
===============================================================================
