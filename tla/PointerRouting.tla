---------------------------- MODULE PointerRouting ----------------------------
(* ApplicationUi::HandlePointer and the handlers it asks in turn: the card on top,
   the context menu, the emoji list, the find bar, the menu bar, the tabs and the
   scroll bars.  A handler gives the records it may leave; given says whether the
   editor gets the event as well.  Of the conditions a handler tests, the first that
   holds decides, as in the code.  What the workspace makes of a command is any of
   Outcomes.                                                                    *)
EXTENDS Interface

Give(s, given)   == [s EXCEPT !.given = given]
Given(states)    == {Give(t, TRUE) : t \in states}
Consumed(states) == {Give(t, FALSE) : t \in states}

(* What a command may do: prompts it answers or begins, another active document,
   a dialog asked for, a file remembered, an error.  Text under review stays active,
   a prompt refuses to begin under a conflict, and only a conflict begins over one. *)
Begun(prompts) ==
    IF "external" \in prompts THEN {}
    ELSE {"external"} \cup (IF prompts = {} THEN {"large", "unsaved"} ELSE {})
Answer(s, prompts, document) ==
    [Spoil(s, s.prompts \ prompts) EXCEPT !.prompts = prompts, !.document = document,
                                          !.tentative = @ /\ document = s.document]
Answers(s) ==
    {Answer(s, p, d) :
        p \in SUBSET s.prompts, d \in IF Reviewing(s) THEN {s.document} ELSE Documents}
Asks == {{}, {"dialog"}, {"recent"}, {"error"}}
Asking(s, work) == [s EXCEPT !.work = work]
Beginning(s, prompt) == [s EXCEPT !.prompts = @ \cup {prompt}, !.work = {"prompt"}]
Outcomes(s) ==
    {Asking(t, w) : t \in Answers(s), w \in Asks}
    \cup UNION {{Beginning(t, b) : b \in Begun(t.prompts)} : t \in Answers(s)}
Commands(s) == Outcomes(s) \cup {OpenFindBar(s), OpenSpellcheck(s)}

OpenContextMenu(s) ==
    LET t == CancelScrollBarInteraction(BlurFindField(CancelTextInput(CloseEmojiCompletion(
                DismissOpenMenu(DismissContextMenu(s)))))) IN
    [t EXCEPT !.context = TRUE, !.shell = TRUE, !.effects = Append(@, "show")]
-------------------------------------------------------------------------------
(* The cards. *)

CardHit(card, place) ==
    IF place = "yes" \/ (place = "no" /\ card # "error") \/ (place = "word" /\ card = "spell")
    THEN place ELSE No

(* "yes" stands for the dictionary, the suggestions and the five decisions. *)
ActivateSpellcheckControl(s, control) ==
    CASE control = "no" -> {CloseSpellcheck(s)}
      [] control = "yes" /\ s.spell # "loading" ->
            {s} \cup SessionBegun(s) \cup (IF s.spell = "decision" THEN SessionDecided(s) ELSE {})
      [] OTHER -> {s}
Activate(s, card, control) ==
    CASE card = "error"   -> {DismissFileError(s)}
      [] card = "spell"   -> ActivateSpellcheckControl(s, control)
      [] OTHER            -> Outcomes(s)

SpellcheckPress(s, hit) ==
    [s EXCEPT !.control = IF hit = No THEN @ ELSE hit,
              !.word = hit = "word" /\ s.spell = "decision"]

CardRelease(s, card, hit) ==
    LET t == Drop(s, {card}) IN
    IF hit # No /\ Pressed(s, card) = hit
    THEN Activate(Fire(t, card, hit), card, hit) ELSE {t}

UnderCard(s, card) ==
    DismissContextMenu(IF card = "spell" THEN CancelScrollBarInteraction(s)
                       ELSE BlurFindField(CancelScrollBarInteraction(s)))
HandleCardPointer(s, card, e) ==
    LET hit == CardHit(card, e.place)
        t   == UnderCard(s, card) IN
    CASE e.kind = "press" ->
            Consumed({Arm(IF card = "spell" THEN SpellcheckPress(t, hit) ELSE t, card, hit)})
      [] e.kind = "release" -> Consumed(CardRelease(t, card, hit))
      [] e.kind = "leave" /\ card = "spell" -> Given({Drop(t, {"spell"})})
      [] OTHER -> Consumed({t})
-------------------------------------------------------------------------------
(* The context menu, from its own surface and from the window's. *)

ContextRelease(s, place) ==
    LET t == Drop(s, {"context"}) IN
    IF Pressed(s, "context") = "item" /\ place = "item"
    THEN {t, CloseShell(CloseContextMenu(Fire(t, "context", "item")))}   \* disabled, enabled
    ELSE {t}

HandlePopupPointer(s, e) ==
    IF ~s.context /\ Pressed(s, "context") = No THEN Given({s})
    ELSE IF e.kind = "leave" THEN Given({Drop(s, {"context"})})
    ELSE IF ~s.context /\ e.kind # "release" THEN Given({s})
    ELSE IF e.kind = "press" /\ e.place = "item" THEN Consumed({Arm(s, "context", "item")})
    ELSE IF e.kind = "press" THEN Consumed({Arm(CloseShell([s EXCEPT !.context = FALSE]),
                                           "context", "dismissal")})
    ELSE IF e.kind = "release" THEN Consumed(ContextRelease(s, e.place))
    ELSE Consumed({s})

OpensContextMenu(e) == e.kind = "right" /\ e.place = "text"
BesideContextMenu(s, e) ==
    IF e.kind = "leave" THEN Given({s})
    ELSE IF OpensContextMenu(e) THEN
            Consumed({OpenContextMenu(DismissContextMenu(s))})
    ELSE IF e.kind \in {"press", "right", "middle"} THEN Consumed({DismissContextMenu(s)})
    ELSE Consumed({s})
-------------------------------------------------------------------------------
(* The scroll bars, the tabs and the menu bar. *)

HandleScrollBarPointer(s, e) ==
    LET over == e.place \in {"thumb", "track"} IN
    IF Dragging(s) /\ e.kind = "release" THEN Consumed({Drop(s, {"bar"})})
    ELSE IF Dragging(s) THEN Consumed({s})
    ELSE IF e.kind = "leave" THEN Given({Drop(s, {"bar"})})
    ELSE IF e.kind = "press" /\ over THEN Consumed({Arm(s, "bar", e.place)})
    ELSE IF e.kind = "release" /\ (over \/ Pressed(s, "bar") # No)
    THEN Consumed({Drop(s, {"bar"})})
    ELSE IF over THEN Consumed({s}) ELSE Given({s})

BelowTopChrome(s, e) ==
    UNION {IF ~t.given THEN {t}
           ELSE IF OpensContextMenu(e)
           THEN Consumed({OpenContextMenu(t)})
           ELSE {t} : t \in HandleScrollBarPointer(s, e)}

HandleTabPointer(s, e) ==
    IF e.kind # "press" THEN Consumed({s})
    ELSE Consumed(Outcomes(CancelScrollBarInteraction(DismissContextMenu(DismissOpenMenu(s)))))

Headings == {"file", "recent"}
MenuOpened(s) ==
    CancelScrollBarInteraction(SetFocused(CancelTextInput(DismissContextMenu(s)), FALSE))
PressHeading(s, menu) ==
    IF s.menu = menu THEN CloseMenuBar(s)
    ELSE LET t == Arm(Spoil([s EXCEPT !.menu = menu], {"menu"}), "menu", menu) IN
         IF s.menu = No THEN MenuOpened(t) ELSE t
MenuRelease(s, place) ==
    LET t == Drop(s, {"menu"}) IN
    IF Pressed(s, "menu") = "entry" /\ place = "entry"
    THEN {t} \cup Commands(CloseMenuBar(Fire(t, "menu", "entry"))) ELSE {t}

HandleMenuBarPointer(s, e) ==
    IF e.kind = "leave" THEN Given({Drop(s, {"menu"})})
    ELSE IF s.captured THEN Given({s})
    ELSE IF e.kind = "move" /\ e.place \in Headings /\ s.menu \notin {No, e.place} THEN
            Consumed({Spoil([Drop(s, {"menu"}) EXCEPT !.menu = e.place], {"menu"})})
    ELSE IF e.kind = "press" /\ e.place \in Headings THEN Consumed({PressHeading(s, e.place)})
    ELSE IF e.kind = "press" /\ e.place = "entry" /\ s.menu # No
    THEN Consumed({Arm(s, "menu", "entry")})
    ELSE IF e.kind = "press" /\ s.menu # No THEN
            Consumed({[Arm(CloseMenuBar(s), "menu", "dismissal") EXCEPT !.aim = <<No, No>>]})
    ELSE IF e.kind = "release" /\ Pressed(s, "menu") # No THEN
            {Give(t, ~(Pressed(s, "menu") = "dismissal" \/ s.menu # No
                       \/ e.place \in Headings \cup {"bar"})) :
                t \in MenuRelease(s, e.place)}
    ELSE IF s.menu # No \/ e.place \in Headings \cup {"bar"}
    THEN Consumed({s}) ELSE Given({s})

(* After the menu bar: a selection in the making bypasses the chrome; an open menu,
   or the press that closed it, keeps the rest from the event.                  *)
BelowMenu(s, t, e) ==
    IF s.captured THEN Given({t})
    ELSE IF t.menu # No \/ (s.menu # No /\ ~t.given) THEN {t}
    ELSE IF ~t.given THEN {t}
    ELSE IF e.place = "tab" /\ e.kind # "leave" THEN HandleTabPointer(t, e)
    ELSE BelowTopChrome(t, e)
HandleChromePointer(s, e) ==
    IF ~s.captured /\ Dragging(s) THEN HandleScrollBarPointer(s, e)
    ELSE UNION {BelowMenu(s, t, e) : t \in HandleMenuBarPointer(s, e)}
-------------------------------------------------------------------------------
(* The find bar and the emoji list, which come before the chrome. *)

FindBand == {"field", "next", "shut", "band"}
FindRequest(s, control) == IF control = "shut" THEN CloseFindBar(s) ELSE s
HandleFindBarPointer(s, e) ==
    LET over == e.place \in FindBand
        origin == Pressed(s, "find")
        t == Drop(s, {"find"}) IN
    IF e.kind = "leave" THEN Given({t})
    ELSE IF e.kind = "move" THEN Consumed({s})
    ELSE IF e.kind = "press" /\ e.place = "field" THEN
            Consumed({CaptureFindOrigin(CancelTextInput(SetFocused(t, TRUE)))})
    ELSE IF e.kind = "press" /\ e.place \in {"next", "shut"}
    THEN Consumed({Arm(s, "find", e.place)})
    ELSE IF e.kind = "press" THEN (IF over THEN Consumed({t}) ELSE Given({s}))
    ELSE IF e.kind = "release" /\ origin # No THEN
            Consumed({IF e.place = origin THEN FindRequest(Fire(t, "find", origin), origin) ELSE t})
    ELSE IF over THEN Consumed({s}) ELSE Given({s})

AtFindBar(s, e) ==
    IF s.captured \/ Dragging(s) \/ s.menu # No \/ s.context \/ ~s.find
    THEN HandleChromePointer(s, e)
    ELSE IF e.place \in FindBand \/ Pressed(s, "find") # No THEN HandleFindBarPointer(s, e)
    ELSE HandleChromePointer(
            IF e.kind = "press" /\ s.focused /\ e.place \in {"text", "margin"}
            THEN BlurFindField(s) ELSE s, e)

EmojiRelease(s, e) ==
    LET t == Drop(s, {"emoji"}) IN
    IF Pressed(s, "emoji") = "row" /\ e.place = "row"
    THEN Consumed({CompleteEmoji(Fire(t, "emoji", "row"))})
    ELSE IF e.place \in {"row", "panel"} THEN Consumed({t}) ELSE AtFindBar(t, e)
AtEmojiList(s, e) ==
    LET over == e.place \in {"row", "panel"} IN
    IF e.kind = "press" /\ e.place = "row" THEN Consumed({Arm(s, "emoji", "row")})
    ELSE IF e.kind = "press" /\ e.place = "panel" THEN Consumed({Drop(s, {"emoji"})})
    ELSE IF e.kind = "press" THEN AtFindBar(CloseEmojiCompletion(s), e)
    ELSE IF e.kind = "release" THEN EmojiRelease(s, e)
    ELSE IF over THEN Consumed({s}) ELSE AtFindBar(s, e)

OnPopup(e) == e.place \in {"item", "padding"}
Route(s, e) ==
    IF Top(s) # No THEN HandleCardPointer(s, Top(s), e)
    ELSE IF OnPopup(e) THEN HandlePopupPointer(s, e)
    ELSE IF s.context THEN BesideContextMenu(s, e)
    ELSE IF ~s.captured /\ ~Dragging(s) /\ s.menu = No /\ s.emoji THEN AtEmojiList(s, e)
    ELSE AtFindBar(s, e)
HandlePointer(s, e) == {SynchronizeInteraction(t) : t \in Route(s, e)}
===============================================================================
