------------------------------ MODULE Interface ------------------------------
(* What ApplicationUi keeps beside the workspace: which cards, menus, fields and
   lists are up, which control a button went down on, who composes text, and what
   opening one of them takes from the others.  The state is one record; an
   operator here is what a member function makes of it.

   A pointer gesture is a left button going down and up.  aim remembers what the
   user pressed for as long as it is still there, and where it was, to be released
   on.  loose holds the owners of presses that the code keeps past that.  Both are
   history: nothing the program does depends on them.                          *)
EXTENDS Naturals, FiniteSets, Sequences, TLC

CONSTANTS Documents, MaxErrors
ASSUME InterfaceConstants ==
    /\ Documents # {} /\ IsFiniteSet(Documents) /\ "none" \notin Documents
    /\ MaxErrors \in Nat \ {0}

Prompts == {"external", "large", "unsaved"}
Cards   == {"error", "spell"} \cup Prompts
Owners  == Cards \cup {"menu", "context", "find", "emoji", "bar"}
No == "none"

(* The card DesiredOverlay and the input handlers find on top. *)
Top(s) ==
    IF s.errors > 0 THEN "error"
    ELSE IF s.spell # "closed" THEN "spell"
    ELSE IF "external" \in s.prompts THEN "external"
    ELSE IF "large" \in s.prompts THEN "large"
    ELSE IF "unsaved" \in s.prompts THEN "unsaved"
    ELSE No

CardsUp(s) ==
    s.prompts \cup (IF s.errors > 0 THEN {"error"} ELSE {})
              \cup (IF s.spell # "closed" THEN {"spell"} ELSE {})

ChromeOwnsInput(s) == Top(s) # No \/ s.menu # No \/ s.context
Reviewing(s) == s.spell \in {"working", "decision"}

Pressed(s, owner) == IF owner \in DOMAIN s.press THEN s.press[owner] ELSE No
Drop(s, owners) ==
    IF DOMAIN s.press \cap owners = {} THEN s
    ELSE [s EXCEPT !.press = [o \in DOMAIN @ \ owners |-> @[o]]]
Dragging(s) == Pressed(s, "bar") = "thumb"
Spoil(s, owners) == IF s.aim[1] \in owners THEN [s EXCEPT !.aim = <<No, No>>] ELSE s
Arm(s, owner, control) ==
    IF control = No THEN [Drop(s, {owner}) EXCEPT !.aim = <<No, No>>]
    ELSE [s EXCEPT !.press = [o \in DOMAIN @ \cup {owner} |-> IF o = owner THEN control ELSE @[o]],
                   !.aim = <<owner, control>>, !.loose = @ \ {owner}]
Loosen(s, owners) == [s EXCEPT !.loose = @ \cup owners]
Fire(s, owner, control) ==
    [s EXCEPT !.misfired = @ \/ (owner \notin s.loose /\ s.aim # <<owner, control>>)]

CancelTextInput(s) == [s EXCEPT !.tentative = FALSE]
CancelScrollBarInteraction(s) == Drop(s, {"bar"})

CloseMenuBar(s) == Spoil([Drop(s, {"menu"}) EXCEPT !.menu = No], {"menu"})
DismissOpenMenu(s) == IF s.menu = No THEN s ELSE CloseMenuBar(s)

CloseContextMenu(s) == Spoil([Drop(s, {"context"}) EXCEPT !.context = FALSE], {"context"})
CloseShell(s) ==
    IF s.shell THEN [s EXCEPT !.shell = FALSE, !.effects = Append(@, "close")] ELSE s
DismissContextMenu(s) == CloseShell(CloseContextMenu(s))
NotifyContextPopupDone(s) == [CloseContextMenu(s) EXCEPT !.shell = FALSE]

CloseEmojiCompletion(s) == Spoil([Drop(s, {"emoji"}) EXCEPT !.emoji = FALSE], {"emoji"})

SetFocused(s, focused) ==
    CASE focused              -> [s EXCEPT !.focused = TRUE, !.preedit = FALSE]
      [] s.focused /\ ~focused ->
            [Drop(s, {"find"}) EXCEPT !.focused = FALSE, !.preedit = FALSE]
      [] OTHER                -> s
BlurFindField(s) == SetFocused(s, FALSE)

CaptureFindOrigin(s) == [s EXCEPT !.origin = s.document]
RunIncrementalFind(s) ==
    IF s.find /\ s.origin # s.document THEN CaptureFindOrigin(s) ELSE s

CloseFindBar(s) ==
    IF ~s.find THEN s
    ELSE CancelTextInput(
            [Drop(s, {"find", "spell"}) EXCEPT !.find = FALSE, !.focused = FALSE,
                                               !.preedit = FALSE, !.origin = No])

(* The bar opens with its field focused; a retained query is searched for again. *)
OpenFindBar(s) ==
    RunIncrementalFind(CaptureFindOrigin(
        [SetFocused(CloseEmojiCompletion(CancelTextInput(s)), TRUE) EXCEPT !.find = TRUE]))

CloseSpellcheck(s) ==
    IF s.spell = "closed" THEN s
    ELSE CancelTextInput([Spoil(Drop(s, {"spell"}), {"spell"})
                            EXCEPT !.spell = "closed", !.word = FALSE])
OpenSpellcheck(s) ==
    CancelScrollBarInteraction(CancelTextInput(CloseFindBar(CloseEmojiCompletion(
        DismissContextMenu(DismissOpenMenu(
            [CloseSpellcheck(s) EXCEPT !.spell = "loading", !.control = "no"]))))))

(* The session takes the buffer, which ends a selection the mouse is making; what it
   finds next, unless it is the word already shown, moves the focus to its field. *)
StartSpellcheckSession(s) == [CancelTextInput(s) EXCEPT !.word = FALSE, !.captured = FALSE]
SynchronizeSpellcheckDialog(s, state, sameWord) ==
    CASE state = "working" -> [s EXCEPT !.spell = state, !.word = FALSE]
      [] state = "ended"   -> [s EXCEPT !.spell = state, !.word = FALSE, !.control = "no"]
      [] state = "decision" /\ sameWord ->
            [s EXCEPT !.spell = state, !.word = @ \/ (s.control = "word" /\ s.errors = 0)]
      [] state = "decision" /\ ~sameWord ->
            [s EXCEPT !.spell = state, !.control = "word", !.word = (s.errors = 0)]
SessionBegun(s) ==
    {SynchronizeSpellcheckDialog(StartSpellcheckSession(s), "working", FALSE),
     [SynchronizeSpellcheckDialog(s, "ended", FALSE) EXCEPT !.tentative = FALSE]}
SessionDecided(s) ==
    {SynchronizeSpellcheckDialog(s, x, same) :
        x \in {"working", "decision", "ended"}, same \in BOOLEAN}

(* A prompt's card comes up below the spelling card, which stays where it is, as the
   controls of the find bar do.                                                *)
Underneath == Owners \ {"error", "find"}
Bug_NotifyPromptBegan(s) ==
    CancelScrollBarInteraction(BlurFindField(CloseEmojiCompletion(
        DismissContextMenu(DismissOpenMenu(Spoil(Drop(s, Prompts), Underneath \ {"spell"}))))))
NotifyPromptBegan(s) ==
    CancelScrollBarInteraction(BlurFindField(CancelTextInput(CloseEmojiCompletion(
        DismissContextMenu(DismissOpenMenu(Spoil(Drop(s, Prompts), Underneath \ {"spell"})))))))

(* The first error puts its card over all others and disarms them. *)
Bug_AppendFileErrors(s) ==
    IF s.errors > 0 THEN [s EXCEPT !.errors = IF @ < MaxErrors THEN @ + 1 ELSE @]
    ELSE CancelScrollBarInteraction(BlurFindField(CancelTextInput(CloseEmojiCompletion(
            DismissContextMenu(DismissOpenMenu(Spoil(
                [Drop(s, {"error"}) EXCEPT !.errors = 1, !.word = FALSE], Underneath)))))))
AppendFileErrors(s) ==
    IF s.errors > 0 THEN [s EXCEPT !.errors = IF @ < MaxErrors THEN @ + 1 ELSE @]
    ELSE CancelScrollBarInteraction(BlurFindField(CancelTextInput(CloseEmojiCompletion(
            DismissContextMenu(DismissOpenMenu(Spoil(
                [Drop(s, Cards) EXCEPT !.errors = 1, !.word = FALSE], Underneath)))))))
DismissFileError(s) == Spoil([Drop(s, {"error"}) EXCEPT !.errors = @ - 1], {"error"})

(* What belongs to a document does not outlive its turn. *)
Bug_Turned(s) ==
    LET t == CloseEmojiCompletion(DismissContextMenu(CancelScrollBarInteraction(s))) IN
    [t EXCEPT !.last = s.document]
Turned(s) ==
    LET t == CloseEmojiCompletion(DismissContextMenu(CancelScrollBarInteraction(s))) IN
    [IF t.find THEN RunIncrementalFind(CaptureFindOrigin(t)) ELSE t EXCEPT !.last = s.document]
SynchronizeInteraction(s) ==
    IF s.document # s.last THEN Turned(s)
    ELSE IF Pressed(s, "bar") # No /\ ChromeOwnsInput(s) THEN CancelScrollBarInteraction(s) ELSE s

(* The list follows the text before the caret, which may or may not be the start
   of an alias.                                                               *)
RefreshEmojiCompletion(s) ==
    IF ChromeOwnsInput(s) \/ s.focused \/ s.tentative THEN {CloseEmojiCompletion(s)}
    ELSE {CloseEmojiCompletion(s),
          Spoil([Drop(s, {"emoji"}) EXCEPT !.emoji = TRUE], {"emoji"})}
CompleteEmoji(s) == CloseEmojiCompletion(s)

(* Every control may move.  "clear armed press origins so a later release cannot
   activate a control that moved under the pointer": of all presses the spelling
   card's is not cleared.                                                       *)
Bug_HandleFrameSizeChange(s) ==
    Spoil(Loosen(CloseEmojiCompletion(DismissContextMenu(CancelScrollBarInteraction(
            Drop(s, Prompts \cup {"error", "find"})))), {"spell"}), Owners)
HandleFrameSizeChange(s) ==
    Spoil(Loosen(CloseEmojiCompletion(DismissContextMenu(CancelScrollBarInteraction(
            Drop(s, Prompts \cup {"error", "find", "menu"})))), {"spell"}), Owners)

(* "Keep the bar and query; only drop field focus and presses": the bar's press is
   dropped with the focus of its field, and stays if the field had none.          *)
FocusLost(s) ==
    BlurFindField(Spoil(Loosen(Drop(CancelScrollBarInteraction(CloseEmojiCompletion(
        DismissContextMenu(DismissOpenMenu(CancelTextInput(
            IF s.spell = "closed" THEN s ELSE [s EXCEPT !.word = FALSE, !.control = "no"]))))),
        Cards), {"find"}), Owners))
===============================================================================
