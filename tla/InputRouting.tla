----------------------------- MODULE InputRouting -----------------------------
(* The input loop of RunWaylandApplication around ApplicationUi: every event goes to
   its handler, what the handler leaves to the editor goes there, and the effects the
   handlers asked for are applied before the next event is read.                 *)
EXTENDS PointerRouting

VARIABLE ui

\* No operator tells the documents apart.
DocumentSymmetry == Permutations(Documents)

InitialUi(document) ==
    [errors |-> 0, spell |-> "closed", word |-> FALSE, control |-> "no", prompts |-> {},
     menu |-> No, context |-> FALSE, shell |-> FALSE, popup |-> FALSE,
     find |-> FALSE, focused |-> FALSE, preedit |-> FALSE, origin |-> No,
     emoji |-> FALSE, tentative |-> FALSE, captured |-> FALSE, held |-> FALSE, lost |-> FALSE,
     document |-> document, last |-> document, press |-> <<>>, aim |-> <<No, No>>,
     loose |-> {}, effects |-> <<>>, work |-> {}, given |-> FALSE, misfired |-> FALSE]
-------------------------------------------------------------------------------
(* The keyboard.  On a card that asks, "enter" stands for every key that answers. *)

Keys == {"escape", "enter", "tab", "arrow", "letter", "menu", "contextMenu",
         "find", "field", "command", "released"}

HandleCardKeyboard(s, card, key) ==
    LET t == DismissContextMenu(BlurFindField(CancelScrollBarInteraction(s))) IN
    IF card = "error" THEN (IF key \in {"escape", "enter"} THEN {DismissFileError(t)} ELSE {t})
    ELSE IF key = "enter" THEN {t} \cup Outcomes(t)
    ELSE {t}

CycleFocus(s) ==
    {[s EXCEPT !.control = c, !.word = (s.spell = "decision" /\ c = "word")] :
        c \in {"yes", "no", "word"} \ (IF s.control = "yes" THEN {} ELSE {s.control})}
HandleSpellcheckKeyboard(s, key) ==
    LET t == DismissContextMenu(CancelScrollBarInteraction(s)) IN
    IF key = "escape" THEN {CloseSpellcheck(t)}
    ELSE IF key = "tab" THEN CycleFocus(t)
    ELSE IF t.control = "word" THEN
            IF key = "enter" /\ t.word THEN ActivateSpellcheckControl(t, "yes") ELSE {t}
    ELSE IF key = "enter" THEN ActivateSpellcheckControl(t, t.control)
    ELSE IF key = "arrow" /\ t.control = "yes" /\ t.spell # "loading"
    THEN {t} \cup SessionBegun(t)
    ELSE {t}

HandleContextMenuKeyboard(s, key) ==
    CASE key = "escape" -> {DismissContextMenu(s)}
      [] key = "arrow"  -> {Drop(s, {"context"})}
      [] key = "enter"  -> {s, CloseShell(CloseContextMenu(s))}
      [] OTHER -> {s}

OpenMenuFromKeyboard(s, menu) == Spoil([Drop(s, {"menu"}) EXCEPT !.menu = menu], {"menu"})
HandleOpenMenuKeyboard(s, key) ==
    CASE key = "escape" -> {CloseMenuBar(s)}
      [] key = "menu"   -> {OpenMenuFromKeyboard(s, m) : m \in Headings}
      [] key = "arrow"  -> {OpenMenuFromKeyboard(s, m) : m \in Headings} \cup {Drop(s, {"menu"})}
      [] key = "enter"  -> {s} \cup Commands(CloseMenuBar(s))
      [] OTHER -> {s}

HandleFindFieldKeyboard(s, key) ==
    LET t == IF key = "released" THEN s ELSE [s EXCEPT !.preedit = FALSE] IN
    CASE key = "escape" -> {CloseFindBar(t)}
      [] key = "letter" -> {RunIncrementalFind(t)}
      [] OTHER -> {t}

EditorKeyboard(s, key) ==
    RefreshEmojiCompletion(IF key = "released" \/ Reviewing(s) THEN s ELSE CancelTextInput(s))
HandleEmojiKeyboard(s, key) ==
    CASE key = "escape" -> {CloseEmojiCompletion(s)}
      [] key = "arrow"  -> {s}
      [] key \in {"enter", "tab"} -> {CompleteEmoji(s)}
      [] OTHER -> EditorKeyboard(s, key)

(* Below the cards and the menus.  A field key is one the find field keeps to itself
   while it is focused and an application shortcut otherwise.                    *)
Edits(s) == {s, CancelTextInput(s)}
HandleShortcutOrText(s, key) ==
    IF key = "find" THEN {OpenFindBar(s)}
    ELSE IF key = "command" THEN {CloseEmojiCompletion(t) : t \in Commands(s) \cup Edits(s)}
    ELSE IF s.find /\ s.focused
    THEN {CloseEmojiCompletion(t) : t \in HandleFindFieldKeyboard(s, key)}
    ELSE IF key = "field" THEN {CloseEmojiCompletion(t) : t \in Edits(s)}
    ELSE IF s.emoji THEN HandleEmojiKeyboard(s, key)
    ELSE EditorKeyboard(s, key)

KeyboardRoute(s, key) ==
    IF Top(s) = "spell" THEN HandleSpellcheckKeyboard(s, key)
    ELSE IF Top(s) # No THEN HandleCardKeyboard(s, Top(s), key)
    ELSE IF s.context THEN HandleContextMenuKeyboard(s, key)
    ELSE IF key = "contextMenu" THEN {OpenContextMenu(s)}
    ELSE IF s.menu # No THEN HandleOpenMenuKeyboard(s, key)
    ELSE IF key = "menu" THEN {MenuOpened(OpenMenuFromKeyboard(s, m)) : m \in Headings}
    ELSE HandleShortcutOrText(s, key)
HandleKeyboard(s, key) ==
    LET chrome == Top(s) # No \/ s.context \/ s.menu # No \/ key \in {"contextMenu", "menu"} IN
    {SynchronizeInteraction(IF chrome THEN CloseEmojiCompletion(t) ELSE t) :
        t \in KeyboardRoute(s, key)}
-------------------------------------------------------------------------------
(* The input method, and the editor's own use of the pointer. *)

Batches == {"preedit", "commit", "cancel"}
FieldBatch(s, batch) ==
    CASE batch = "preedit" -> [s EXCEPT !.preedit = TRUE]
      [] batch = "commit"  -> RunIncrementalFind([s EXCEPT !.preedit = FALSE])
      [] OTHER             -> [s EXCEPT !.preedit = FALSE]
EditorBatch(s, batch) ==
    IF batch = "preedit" /\ ~Reviewing(s)
    THEN {CloseEmojiCompletion([s EXCEPT !.tentative = TRUE])}
    ELSE LET t == CancelTextInput(s) IN
         IF batch = "preedit" THEN {CloseEmojiCompletion(t)} ELSE RefreshEmojiCompletion(t)
HandleTextInputBatch(s, batch) ==
    IF s.errors = 0 /\ s.spell # "closed" /\ s.control = "word" /\ s.word THEN {s}
    ELSE IF ChromeOwnsInput(s) THEN
            {[s EXCEPT !.preedit = FALSE, !.tentative = @ /\ batch # "cancel"]}
    ELSE IF s.find /\ s.focused THEN {FieldBatch(s, batch)}
    ELSE EditorBatch(s, batch)

EditorPointer(s, e) ==
    IF Reviewing(s) /\ e.kind \notin {"move", "leave"} THEN {s}
    ELSE IF e.kind = "press" THEN   \* a click that only drops a selection takes no capture
            {CancelTextInput(s), [CancelTextInput(s) EXCEPT !.captured = TRUE]}
    ELSE IF e.kind \in {"right", "middle"} THEN {CancelTextInput(s)}
    ELSE IF e.kind = "release" THEN {[s EXCEPT !.captured = FALSE]}
    ELSE {s}
-------------------------------------------------------------------------------
(* What the loop does between two events. *)

AskedFor(s) ==
    LET a == IF "dialog" \in s.work THEN DismissContextMenu(DismissOpenMenu(s)) ELSE s
        b == IF "prompt" \in s.work THEN NotifyPromptBegan(a) ELSE a
        c == IF "recent" \in s.work /\ b.menu = "recent" THEN CloseMenuBar(b) ELSE b IN
    IF "error" \in s.work THEN AppendFileErrors(c) ELSE c
(* The last of the effects decides: a popup that is shown replaces the one there is. *)
ShowContextMenuPopup(s) ==
    {[s EXCEPT !.popup = TRUE], [NotifyContextPopupDone(s) EXCEPT !.popup = FALSE]}
ApplyEffects(s, effects) ==
    CASE effects = <<>> -> {s}
      [] effects # <<>> /\ effects[Len(effects)] = "show" -> ShowContextMenuPopup(s)
      [] OTHER -> {[s EXCEPT !.popup = FALSE]}
Synchronized(s) ==
    ApplyEffects(SynchronizeInteraction([s EXCEPT !.effects = <<>>, !.work = {}]), s.effects)
ApplyShellEffects(s) == Synchronized(IF s.work = {} THEN s ELSE AskedFor(s))

Rest(s) == [s EXCEPT !.given = FALSE, !.loose = @ \cap DOMAIN s.press]
Settles(states) == \E t \in states : \E u \in ApplyShellEffects(t) : ui' = Rest(u)

(* A release the editor was to have may end with a card, a menu or another surface. *)
Lost(s, t, e) ==
    t.captured /\ (s.lost \/ e.kind = "leave" \/ (e.kind = "release" /\ (Top(s) # No \/ s.context)))
(* A press the find bar still has is not of the gesture that begins. *)
Before(s, e) ==
    IF e.kind = "press" THEN Loosen([s EXCEPT !.aim = <<No, No>>, !.held = TRUE], {"find"}) ELSE s
After(s, t, e) ==
    [t EXCEPT !.lost = Lost(s, t, e) /\ ~(e.kind = "press" /\ t.given),
              !.held = @ /\ e.kind # "release",
              !.aim  = IF e.kind = "release" THEN <<No, No>> ELSE @]
Pointed(s, e) ==
    UNION {{After(s, u, e) : u \in IF t.given THEN EditorPointer(t, e) ELSE {t}} :
              t \in HandlePointer(Before(s, e), e)}
-------------------------------------------------------------------------------
(* Where the pointer may be, given what is drawn. *)

Places(s) ==
    IF Top(s) # No THEN {"yes", "no", "word", "text"}
    ELSE {"tab", "text", "margin", "bar", "file", "recent", "thumb", "track"}
         \cup (IF s.menu # No THEN {"entry"} ELSE {})
         \cup (IF s.find THEN FindBand ELSE {})
         \cup (IF s.emoji THEN {"row", "panel"} ELSE {})
         \cup (IF s.popup \/ s.aim[1] = "context" THEN {"item", "padding"} ELSE {})
(* The places at which a handler tells an event other than a left click apart. *)
Telling ==
    [move   |-> {"yes", "text", "file", "recent", "field", "item"},
     right  |-> {"yes", "text", "margin", "tab", "item"},
     middle |-> {"text"},
     leave  |-> {"yes", "text", "field", "row", "item"}]
Clicks(s) == [kind : {IF s.held THEN "release" ELSE "press"}, place : Places(s)]
Others(s) ==
    {e \in [kind : {"move", "right", "middle"}, place : Places(s)] : e.place \in Telling[e.kind]}

Pointer(e) == Settles(Pointed(ui, e))
(* After it left, the pointer's release may go to another surface. *)
PointerLeaves(place) ==
    \E kept \in BOOLEAN :
        Settles({[t EXCEPT !.held = @ /\ kept] :
                    t \in Pointed(ui, [kind |-> "leave", place |-> place])})
Keyboard(key) == Settles(HandleKeyboard(ui, key))
TextInput(batch) == Settles(HandleTextInputBatch(ui, batch))
LoseFocus == Settles({FocusLost(ui)})
Resize == Settles({HandleFrameSizeChange(ui)})
(* RequestClose and NotifyDialogResult. *)
WorkspaceTurns == Settles({SynchronizeInteraction(t) : t \in Outcomes(ui)})
ProcessSpellcheckResults ==
    /\ ui.spell \in {"loading", "working"}
    /\ Settles(IF ui.spell = "loading" THEN SessionBegun(ui)
               ELSE {SynchronizeSpellcheckDialog(ui, x, FALSE) : x \in {"decision", "ended"}})
(* ServiceContextMenuPopup after the compositor dismissed the popup. *)
PopupDone == ui.popup /\ Settles({[NotifyContextPopupDone(ui) EXCEPT !.popup = FALSE]})

InputInit == \E d \in Documents : ui = InitialUi(d)
InputNext ==
    \/ \E e \in Clicks(ui) \cup Others(ui) : Pointer(e)
    \/ \E place \in Places(ui) \cap Telling["leave"] : PointerLeaves(place)
    \/ \E key \in IF Top(ui) \in Prompts THEN {"enter", "tab"} ELSE Keys : Keyboard(key)
    \/ \E batch \in Batches : TextInput(batch)
    \/ LoseFocus
    \/ Resize
    \/ WorkspaceTurns
    \/ ProcessSpellcheckResults
    \/ PopupDone
InputSpec == InputInit /\ [][InputNext]_ui
-------------------------------------------------------------------------------
(* Every value is of its kind, and between two events nothing is left to apply: the
   popup is there exactly while the shell and the model say so. *)
UiTypeOK ==
    /\ ui.errors \in 0..MaxErrors
    /\ ui.spell \in {"closed", "loading", "working", "decision", "ended"}
    /\ ui.control \in {"yes", "no", "word"} /\ ui.menu \in {No} \cup Headings
    /\ ui.prompts \subseteq Prompts /\ ui.document \in Documents
    /\ ui.effects = <<>> /\ ui.work = {} /\ ui.last = ui.document
PopupAgrees == ui.popup = ui.shell /\ ui.shell = ui.context

(* One overlay owns the input: a menu never lies under a card or beside another menu,
   and the emoji list under none of them. *)
OverlaysExclude ==
    /\ Top(ui) # No => ui.menu = No /\ ~ui.context
    /\ ui.menu # No => ~ui.context
    /\ ui.emoji => ~ChromeOwnsInput(ui) /\ ~(ui.find /\ ui.focused) /\ ~ui.tentative

(* The find bar searches from a place in the document on screen. *)
OriginIsCurrent == ui.find => ui.origin = ui.document

InterfaceAgrees == UiTypeOK /\ PopupAgrees /\ OverlaysExclude /\ OriginIsCurrent

(* Uncommitted text belongs to whoever has the keyboard: the editor has none behind a
   card, a menu or the find field, and a field has none it is not focused for. *)
TextInputIsOwned ==
    /\ ui.tentative => ~ChromeOwnsInput(ui) /\ ~(ui.find /\ ui.focused) /\ ~Reviewing(ui)
    /\ ui.preedit => ui.find /\ ui.focused
    /\ ui.word => ui.spell = "decision" /\ ui.errors = 0

(* "When a higher-priority card becomes active, any armed press on a lower-priority
   card is cleared so a later release cannot activate it." *)
CardsArmOnlyTheTop == \A card \in CardsUp(ui) : Pressed(ui, card) # No => card = Top(ui)

(* A release fires the control the user pressed, if it is still there and has not
   moved, and no other; and it ends a selection drag unless another owner took the
   release.  Two presses are kept by the code past that, and what they fire is left
   out: a resize does not clear the press of the spelling card, so its release may
   fire a control that moved; and a press on the find bar goes with the focus of its
   field, so where the field had none it is kept when the window loses the focus or
   the release goes to another owner, and a later release on the control fires it. *)
GesturesComplete == ~ui.misfired /\ (ui.captured /\ ~ui.held => ui.lost)
===============================================================================
