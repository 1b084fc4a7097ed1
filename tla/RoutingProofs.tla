---------------------------- MODULE RoutingProofs ----------------------------
(* Proofs about the routing of input: one overlay owns the input, uncommitted text
   belongs to whoever has the keyboard, only the card on top is armed, and a release
   fires what was pressed and nothing else, but for two presses the code keeps.  *)
EXTENDS InputRouting, TLAPS

Fields ==
  {"errors", "spell", "word", "control", "prompts", "menu", "context", "shell", "popup",
   "find", "focused", "preedit", "origin", "emoji", "tentative", "captured", "held", "lost",
   "document", "last", "press", "aim", "loose", "effects", "work", "given", "misfired"}
Nowhere == <<No, No>>

(* Every field has a value of its kind. *)
Typed(s) ==
  /\ s = [f \in Fields |-> s[f]]
  /\ s.errors \in 0 .. MaxErrors
  /\ s.spell \in {"closed", "loading", "working", "decision", "ended"}
  /\ s.control \in {"yes", "no", "word"} /\ s.menu \in {No} \cup Headings
  /\ s.prompts \subseteq Prompts /\ s.document \in Documents
  /\ s.context \in BOOLEAN /\ s.shell \in BOOLEAN /\ s.popup \in BOOLEAN
  /\ s.effects \in Seq({"show", "close"})
  /\ s.loose \subseteq {"find", "spell"}

(* The last effect asked for is what the model of the popup says. *)
Popped(s) ==
  /\ s.shell = s.context
  /\ s.effects = << >> => s.popup = s.shell
  /\ s.effects # << >> => (s.effects[Len(s.effects)] = "show" <=> s.shell)

(* What can be released on is there. *)
Linked(s) ==
  /\ "error" \in DOMAIN s.press => s.errors > 0
  /\ "spell" \in DOMAIN s.press => s.spell # "closed"
  /\ "emoji" \in DOMAIN s.press => s.emoji
  /\ \A o \in DOMAIN s.press :
       /\ s.press[o] # No
       /\ s.press[o] = "item" => o = "context" /\ s.context
       /\ s.press[o] = "entry" => o = "menu" /\ s.menu # No

(* A field composes while it has the keyboard. *)
Composed(s) ==
  /\ s.preedit => s.find /\ s.focused
  /\ s.word => s.spell = "decision" /\ s.errors = 0

Sound(s) == Typed(s) /\ Popped(s) /\ Linked(s) /\ Composed(s)

(* The presses that a release may fire.  One on the bar, a heading or outside a menu
   fires nothing; one on a prompt's card that has been answered lingers until the
   next prompt begins; and a loose one is not asked what the user pressed. *)
Live(s) ==
  {o \in DOMAIN s.press :
     /\ o \notin s.loose
     /\ \/ o \in s.prompts \cup {"error", "spell", "emoji", "find"}
        \/ s.press[o] \in {"item", "entry"}}

(* t is s with less of it: no overlay, card, field or press that s has not. *)
Calms(s, t) ==
  /\ t.errors > 0 => s.errors > 0
  /\ t.spell # "closed" => s.spell # "closed"
  /\ t.prompts \subseteq s.prompts
  /\ (t.menu # No => s.menu # No) /\ (t.context => s.context) /\ (t.emoji => s.emoji)
  /\ t.find => s.find /\ t.origin = s.origin
  /\ t.find /\ t.focused => s.focused
  /\ t.tentative => s.tentative
  /\ t.captured => s.captured
  /\ t.document = s.document /\ t.last = s.last /\ t.work = s.work /\ t.held = s.held
  /\ t.lost = s.lost /\ (t.misfired => s.misfired)
  /\ DOMAIN t.press \subseteq DOMAIN s.press
  /\ \A o \in DOMAIN t.press : t.press[o] = s.press[o] /\ (o \in s.loose => o \in t.loose)

(* What was pressed is forgotten only where no release can fire it. *)
Keeps(s, t) == t.aim = s.aim \/ (t.aim = Nowhere /\ s.aim[1] \notin Live(t))

Eases(s, t) == Sound(t) /\ Calms(s, t) /\ Keeps(s, t)

(* t is s with less of it, and only in some fields. *)
Same(s, t, changed) == \A f \in Fields \ changed : t[f] = s[f]
Less(s, t, changed) == Eases(s, t) /\ Same(s, t, changed)
-----------------------------------------------------------------------------
(* Closing *)

LEMMA LiveShrinks ==
  ASSUME NEW s, NEW t, Calms(s, t)
  PROVE  Live(t) \subseteq Live(s)
  BY DEF Calms, Live

LEMMA EasesTransitive ==
  ASSUME NEW s, NEW t, NEW u, Eases(s, t), Eases(t, u)
  PROVE  Eases(s, u)
  <1>1. Sound(u) BY DEF Eases
  <1>2. Calms(s, u) BY DEF Eases, Calms
  <1>3. Live(u) \subseteq Live(t) BY LiveShrinks DEF Eases
  <1>4. Keeps(s, u) BY <1>3 DEF Eases, Keeps
  <1> QED BY <1>1, <1>2, <1>4 DEF Eases

LEMMA EasesReflexive ==
  ASSUME NEW s, Sound(s)
  PROVE  Eases(s, s)
  BY DEF Eases, Calms, Keeps

LEMMA LessReflexive ==
  ASSUME NEW s, Sound(s), NEW A
  PROVE  Less(s, s, A)
  BY EasesReflexive DEF Less, Same

LEMMA LessTransitive ==
  ASSUME NEW s, NEW t, NEW u, NEW A, NEW B, NEW C,
         Less(s, t, A), Less(t, u, B), A \cup B \subseteq C
  PROVE  Less(s, u, C)
  <1>1. Eases(s, u) BY EasesTransitive DEF Less
  <1>2. Same(s, u, C) BY DEF Less, Same
  <1> QED BY <1>1, <1>2 DEF Less

LEMMA Cancelled ==
  ASSUME NEW s, Sound(s)
  PROVE  LET t == CancelTextInput(s) IN Less(s, t, {"tentative"}) /\ ~t.tentative
  <1> DEFINE t == CancelTextInput(s)
  <1>1. Typed(t) /\ ~t.tentative /\ Same(s, t, {"tentative"})
    BY DEF CancelTextInput, Same, Fields, Sound, Typed
  <1> HIDE DEF t
  <1>2. Sound(t) BY <1>1 DEF Same, Fields, Sound, Popped, Linked, Composed
  <1>3. Calms(s, t) /\ Keeps(s, t) BY <1>1 DEF Same, Fields, Calms, Keeps
  <1>4. Less(s, t, {"tentative"}) /\ ~t.tentative BY <1>1, <1>2, <1>3 DEF Less, Eases
  <1> QED BY <1>4 DEF t

LEMMA Dropped ==
  ASSUME NEW s, Sound(s), NEW O
  PROVE  LET t == Drop(s, O) IN Less(s, t, {"press"}) /\ DOMAIN t.press = DOMAIN s.press \ O
  <1>1. CASE DOMAIN s.press \cap O = {}
    <2>1. Drop(s, O) = s BY <1>1 DEF Drop
    <2> QED BY <1>1, <2>1, LessReflexive
  <1>2. CASE DOMAIN s.press \cap O # {}
    <2> DEFINE p == [o \in DOMAIN s.press \ O |-> s.press[o]]
               t == [s EXCEPT !.press = p]
    <2>1. Drop(s, O) = t BY <1>2 DEF Drop
    <2>2. DOMAIN p = DOMAIN s.press \ O /\ \A o \in DOMAIN p : p[o] = s.press[o] OBVIOUS
    <2> HIDE DEF p
    <2>3. Typed(t) /\ t.press = p /\ Same(s, t, {"press"})
      BY DEF Sound, Typed, Fields, Same
    <2>4. \A f \in Fields \ {"press"} : t[f] = s[f] BY <2>3 DEF Same
    <2> HIDE DEF t
    <2>5. Sound(t)
      BY <2>2, <2>3, <2>4 DEF Sound, Fields, Popped, Linked, Composed
    <2>6. Calms(s, t) /\ Keeps(s, t)
      BY <2>2, <2>3, <2>4 DEF Fields, Calms, Keeps
    <2> QED BY <2>1, <2>2, <2>3, <2>5, <2>6 DEF Less, Eases
  <1> QED BY <1>1, <1>2

LEMMA Spoiled ==
  ASSUME NEW s, Sound(s), NEW O
  PROVE  LET t == Spoil(s, O) IN
         /\ Sound(t) /\ Calms(s, t) /\ Same(s, t, {"aim"})
         /\ t.aim = IF s.aim[1] \in O THEN Nowhere ELSE s.aim
  BY DEF Spoil, Same, Fields, Sound, Typed, Popped, Linked, Composed, Calms, Nowhere

\* Forgetting what was pressed where nothing can be fired.
LEMMA SpoiledEases ==
  ASSUME NEW s, Sound(s), NEW O, O \cap Live(s) = {}
  PROVE  Less(s, Spoil(s, O), {"aim"})
  <1>1. Live(Spoil(s, O)) \subseteq Live(s) BY Spoiled, LiveShrinks
  <1> QED BY <1>1, Spoiled DEF Less, Eases, Keeps

\* A press that is kept past its gesture is still there.
LEMMA Loosened ==
  ASSUME NEW s, Sound(s), NEW O, O \subseteq {"find", "spell"}
  PROVE  LET t == Loosen(s, O) IN Less(s, t, {"loose"}) /\ Live(t) \cap O = {}
  <1> DEFINE l == s.loose \cup O
             t == [s EXCEPT !.loose = l]
  <1>1. Loosen(s, O) = t BY DEF Loosen
  <1>2. s.loose \subseteq l /\ O \subseteq l /\ l \subseteq {"find", "spell"}
    BY DEF Sound, Typed
  <1> HIDE DEF l
  <1>3. t = [f \in Fields |-> IF f = "loose" THEN l ELSE s[f]] BY DEF Sound, Typed, Fields
  <1> HIDE DEF t
  <1>4. Same(s, t, {"loose"}) /\ t.loose = l BY <1>3 DEF Same, Fields
  <1>5. Typed(t) BY <1>2, <1>3, <1>4 DEF Sound, Typed, Same, Fields
  <1>6. Sound(t) BY <1>4, <1>5 DEF Sound, Popped, Linked, Composed, Same, Fields
  <1>7. Less(s, t, {"loose"})
    BY <1>2, <1>4, <1>6 DEF Less, Eases, Calms, Keeps, Same, Fields
  <1>8. Live(t) \cap O = {} BY <1>2, <1>4 DEF Live
  <1> QED BY <1>1, <1>7, <1>8

LEMMA MenuClosed ==
  ASSUME NEW s, Sound(s)
  PROVE  LET t == CloseMenuBar(s) IN
         Less(s, t, {"menu", "press", "aim"}) /\ t.menu = No /\ "menu" \notin DOMAIN t.press
  <1> DEFINE d == Drop(s, {"menu"})
             m == [d EXCEPT !.menu = No]
  <1>1. Sound(d) /\ Less(s, d, {"press"}) /\ "menu" \notin DOMAIN d.press
    BY Dropped DEF Less, Eases
  <1> HIDE DEF d
  <1>2. Less(d, m, {"menu"}) /\ m.menu = No
    <2>1. Typed(m) /\ Same(d, m, {"menu"}) /\ m.menu = No
      BY <1>1 DEF Same, Fields, Sound, Typed
    <2> HIDE DEF m
    <2>2. Sound(m) BY <1>1, <2>1 DEF Same, Fields, Sound, Popped, Linked, Composed
    <2> QED BY <2>1, <2>2 DEF Less, Eases, Same, Fields, Calms, Keeps
  <1>3. Sound(m) /\ m.press = d.press /\ m.loose = d.loose BY <1>2 DEF Less, Eases, Same, Fields
  <1> HIDE DEF m
  <1>4. "menu" \notin Live(m) BY <1>1, <1>3 DEF Live
  <1>5. Less(m, Spoil(m, {"menu"}), {"aim"}) BY <1>3, <1>4, SpoiledEases
  <1>6. Less(s, m, {"menu", "press"}) BY <1>1, <1>2, LessTransitive
  <1>7. Less(s, Spoil(m, {"menu"}), {"menu", "press", "aim"}) BY <1>6, <1>5, LessTransitive
  <1>8. CloseMenuBar(s) = Spoil(m, {"menu"}) BY DEF CloseMenuBar, m, d
  <1> QED BY <1>1, <1>2, <1>3, <1>5, <1>7, <1>8 DEF Less, Same, Fields

LEMMA OpenMenuDismissed ==
  ASSUME NEW s, Sound(s)
  PROVE  LET t == DismissOpenMenu(s) IN Less(s, t, {"menu", "press", "aim"}) /\ t.menu = No
  BY MenuClosed, LessReflexive DEF DismissOpenMenu

LEMMA ContextMenuDismissed ==
  ASSUME NEW s, Sound(s)
  PROVE  LET t == DismissContextMenu(s) IN
         /\ Less(s, t, {"context", "shell", "press", "aim", "effects"})
         /\ ~t.context /\ ~t.shell /\ "context" \notin DOMAIN t.press
  <1> DEFINE d == Drop(s, {"context"})
             c == [d EXCEPT !.context = FALSE]
             a == CloseContextMenu(s)
             t == CloseShell(a)
             G == {"context", "shell", "press", "aim", "effects"}
  <1>1. Sound(d) /\ Calms(s, d) /\ Same(s, d, {"press"}) /\ "context" \notin DOMAIN d.press
    BY Dropped DEF Less, Eases
  <1>2. a = Spoil(c, {"context"}) BY DEF CloseContextMenu
  <1> HIDE DEF d
  <1>3. Typed(c) /\ Same(d, c, {"context"}) /\ c.context = FALSE
    BY <1>1 DEF Same, Fields, Sound, Typed
  <1> HIDE DEF c
  <1>4. /\ Typed(a) /\ Same(c, a, {"aim"})
        /\ a.aim = IF s.aim[1] = "context" THEN Nowhere ELSE s.aim
    <2>1. c.aim = s.aim BY <1>1, <1>3 DEF Same, Fields
    <2>2. CASE s.aim[1] = "context"
      <3>1. a = [c EXCEPT !.aim = Nowhere] BY <1>2, <2>1, <2>2 DEF Spoil, Nowhere
      <3> HIDE DEF a
      <3>2. a.aim = Nowhere /\ Same(c, a, {"aim"}) /\ a = [f \in Fields |-> a[f]]
        BY <1>3, <3>1 DEF Typed, Same, Fields
      <3>3. Typed(a) BY <1>3, <3>2 DEF Typed, Same, Fields
      <3> QED BY <2>2, <3>2, <3>3
    <2>3. CASE s.aim[1] # "context"
      <3>1. a = c BY <1>2, <2>1, <2>3 DEF Spoil
      <3> QED BY <1>3, <2>1, <2>3, <3>1 DEF Same
    <2> QED BY <2>2, <2>3
  <1> HIDE DEF a
  <1>5. /\ Typed(t) /\ Same(a, t, {"shell", "effects"}) /\ t.shell = FALSE
        /\ t.effects = IF a.shell THEN Append(a.effects, "close") ELSE a.effects
    <2>1. CASE ~a.shell
      <3>1. t = a BY <2>1 DEF CloseShell
      <3> QED BY <1>4, <2>1, <3>1 DEF Typed, Same
    <2>2. CASE a.shell
      <3> DEFINE q == Append(a.effects, "close")
      <3>1. q \in Seq({"show", "close"}) BY <1>4 DEF Typed
      <3>2. t = [a EXCEPT !.shell = FALSE, !.effects = q] BY <2>2 DEF CloseShell
      <3> HIDE DEF q, t
      <3>3. t = [f \in Fields |-> IF f = "shell" THEN FALSE ELSE IF f = "effects" THEN q ELSE a[f]]
        BY <1>4, <3>2 DEF Typed, Fields
      <3>4. Same(a, t, {"shell", "effects"}) /\ t.shell = FALSE /\ t.effects = q
        BY <3>3 DEF Same, Fields
      <3>5. Typed(t) BY <1>4, <3>1, <3>3, <3>4 DEF Typed, Same, Fields
      <3> QED BY <2>2, <3>4, <3>5 DEF q
    <2> QED BY <2>1, <2>2
  <1> HIDE DEF t
  <1>6. /\ Same(s, t, G) /\ t.press = d.press /\ t.context = FALSE
        /\ t.aim = (IF s.aim[1] = "context" THEN Nowhere ELSE s.aim) /\ a.shell = s.shell
        /\ a.effects = s.effects /\ t.shell = FALSE /\ t.popup = s.popup
    BY <1>1, <1>3, <1>4, <1>5 DEF Same, Fields
  <1>7. Popped(t)
    <2>1. s.effects \in Seq({"show", "close"}) /\ Popped(s) BY DEF Sound, Typed
    <2>2. CASE s.shell
      <3>1. t.effects = Append(s.effects, "close") BY <1>5, <1>6, <2>2
      <3>2. t.effects # << >> /\ t.effects[Len(t.effects)] = "close" BY <2>1, <3>1
      <3> QED BY <1>6, <3>2 DEF Popped
    <2>3. CASE ~s.shell
      <3>1. t.effects = s.effects BY <1>5, <1>6, <2>3
      <3>2. s.effects # << >> => s.effects[Len(s.effects)] # "show" BY <2>1, <2>3 DEF Popped
      <3>3. s.effects = << >> => s.popup = FALSE BY <2>1, <2>3 DEF Popped, Sound, Typed
      <3> QED BY <1>6, <3>1, <3>2, <3>3 DEF Popped
    <2> QED BY <2>2, <2>3
  <1>8. Linked(t) /\ Composed(t)
    BY <1>1, <1>6 DEF Sound, Linked, Composed, Same, Fields
  <1>9. Calms(s, t) BY <1>1, <1>6 DEF Calms, Same, Fields
  <1>10. Keeps(s, t) BY <1>1, <1>6 DEF Keeps, Live
  <1>11. t = DismissContextMenu(s) BY DEF t, a, DismissContextMenu
  <1> QED BY <1>1, <1>5, <1>6, <1>7, <1>8, <1>9, <1>10, <1>11 DEF Less, Eases, Sound

LEMMA EmojiClosed ==
  ASSUME NEW s, Sound(s)
  PROVE  LET t == CloseEmojiCompletion(s) IN
         /\ Less(s, t, {"emoji", "press", "aim"})
         /\ ~t.emoji /\ DOMAIN t.press = DOMAIN s.press \ {"emoji"}
  <1> DEFINE d == Drop(s, {"emoji"})
             m == [d EXCEPT !.emoji = FALSE]
             t == Spoil(m, {"emoji"})
  <1>1. /\ Sound(d) /\ Less(s, d, {"press"})
        /\ DOMAIN d.press = DOMAIN s.press \ {"emoji"} /\ "emoji" \notin DOMAIN d.press
    BY Dropped DEF Less, Eases
  <1> HIDE DEF d
  <1>2. /\ Typed(m) /\ Same(d, m, {"emoji"}) /\ m.emoji = FALSE
        /\ m.press = d.press /\ m.loose = d.loose
    BY <1>1 DEF Same, Fields, Sound, Typed
  <1> HIDE DEF m
  <1>3. Sound(m) BY <1>1, <1>2 DEF Same, Fields, Sound, Popped, Linked, Composed
  <1>4. Less(d, m, {"emoji"})
    BY <1>2, <1>3 DEF Less, Same, Fields, Eases, Calms, Keeps
  <1>5. Less(s, m, {"emoji", "press"}) BY <1>1, <1>4, LessTransitive
  <1>6. "emoji" \notin Live(m) BY <1>1, <1>2 DEF Live
  <1>7. Less(m, t, {"aim"}) BY <1>3, <1>6, SpoiledEases
  <1>8. Less(s, t, {"emoji", "press", "aim"}) BY <1>5, <1>7, LessTransitive
  <1>9. t = CloseEmojiCompletion(s) BY DEF CloseEmojiCompletion, t, m, d
  <1>10. t.press = m.press /\ t.emoji = FALSE BY <1>2, <1>7 DEF Less, Same, Fields
  <1> QED BY <1>1, <1>2, <1>8, <1>9, <1>10

LEMMA Blurred ==
  ASSUME NEW s, Sound(s)
  PROVE  LET t == BlurFindField(s) IN Less(s, t, {"focused", "preedit", "press"}) /\ ~t.focused
  <1> DEFINE d == Drop(s, {"find"})
             t == [d EXCEPT !.focused = FALSE, !.preedit = FALSE]
  <1>1. CASE ~s.focused
    <2>1. BlurFindField(s) = s BY <1>1 DEF BlurFindField, SetFocused
    <2> QED BY <1>1, <2>1, LessReflexive
  <1>2. CASE s.focused
    <2>1. Sound(d) /\ Less(s, d, {"press"}) BY Dropped DEF Less, Eases
    <2>2. BlurFindField(s) = t BY <1>2 DEF BlurFindField, SetFocused
    <2> HIDE DEF d
    <2>3. t = [f \in Fields |-> IF f \in {"focused", "preedit"} THEN FALSE ELSE d[f]]
      BY <2>1 DEF Sound, Typed, Fields
    <2> HIDE DEF t
    <2>4. Same(d, t, {"focused", "preedit"}) /\ ~t.focused /\ ~t.preedit
      BY <2>3 DEF Same, Fields
    <2>5. Typed(t) BY <2>1, <2>3, <2>4 DEF Sound, Typed, Same, Fields
    <2>6. Sound(t) BY <2>1, <2>4, <2>5 DEF Same, Fields, Sound, Popped, Linked, Composed
    <2>7. Calms(d, t) /\ Keeps(d, t) BY <2>4 DEF Same, Fields, Calms, Keeps
    <2>8. Less(d, t, {"focused", "preedit"}) BY <2>4, <2>6, <2>7 DEF Less, Eases
    <2>9. Less(s, t, {"focused", "preedit", "press"}) BY <2>1, <2>8, LessTransitive
    <2> QED BY <2>2, <2>4, <2>9
  <1> QED BY <1>1, <1>2

LEMMA FindBarClosed ==
  ASSUME NEW s, Sound(s)
  PROVE  LET t == CloseFindBar(s) IN
         Less(s, t, {"find", "focused", "preedit", "origin", "press", "tentative"}) /\ ~t.find
  <1> DEFINE d == Drop(s, {"find", "spell"})
             t == [d EXCEPT !.find = FALSE, !.focused = FALSE, !.preedit = FALSE, !.origin = No]
             A == {"find", "focused", "preedit", "origin"}
  <1>1. CASE ~s.find
    <2>1. CloseFindBar(s) = s BY <1>1 DEF CloseFindBar
    <2> QED BY <1>1, <2>1, LessReflexive
  <1>2. CASE s.find
    <2>1. Sound(d) /\ Less(s, d, {"press"}) BY Dropped DEF Less, Eases
    <2>2. CloseFindBar(s) = CancelTextInput(t) BY <1>2 DEF CloseFindBar
    <2> HIDE DEF d
    <2>3. t = [f \in Fields |-> IF f = "origin" THEN No ELSE IF f \in A THEN FALSE ELSE d[f]]
      BY <2>1 DEF Sound, Typed, Fields
    <2> HIDE DEF t
    <2>4. Same(d, t, A) /\ ~t.find /\ ~t.preedit
      BY <2>3 DEF Same, Fields
    <2>5. Typed(t) BY <2>1, <2>3, <2>4 DEF Sound, Typed, Same, Fields
    <2>6. Sound(t) BY <2>1, <2>4, <2>5 DEF Same, Fields, Sound, Popped, Linked, Composed
    <2>7. Calms(d, t) /\ Keeps(d, t) BY <2>4 DEF Same, Fields, Calms, Keeps
    <2>8. Less(d, t, A) BY <2>4, <2>6, <2>7 DEF Less, Eases
    <2>9. Less(s, t, A \cup {"press"}) BY <2>1, <2>8, LessTransitive
    <2>10. Less(t, CancelTextInput(t), {"tentative"}) BY <2>6, Cancelled
    <2>11. Less(s, CancelTextInput(t), A \cup {"press", "tentative"})
      BY <2>9, <2>10, LessTransitive
    <2>12. ~CancelTextInput(t).find BY <2>4, <2>10 DEF Less, Same, Fields
    <2> QED BY <2>2, <2>11, <2>12
  <1> QED BY <1>1, <1>2

LEMMA SpellcheckClosed ==
  ASSUME NEW s, Sound(s)
  PROVE  LET t == CloseSpellcheck(s) IN
         /\ Less(s, t, {"spell", "word", "press", "aim", "tentative"})
         /\ t.spell = "closed" /\ "spell" \notin DOMAIN t.press
  <1> DEFINE d == Drop(s, {"spell"})
             m == Spoil(d, {"spell"})
             t == [m EXCEPT !.spell = "closed", !.word = FALSE]
             A == {"spell", "word", "press", "aim", "tentative"}
  <1>1. CASE s.spell = "closed"
    <2>1. CloseSpellcheck(s) = s BY <1>1 DEF CloseSpellcheck
    <2> QED BY <1>1, <2>1, LessReflexive DEF Sound, Linked
  <1>2. CASE s.spell # "closed"
    <2>1. Sound(d) /\ Less(s, d, {"press"}) /\ "spell" \notin DOMAIN d.press
      BY Dropped DEF Less, Eases
    <2>2. CloseSpellcheck(s) = CancelTextInput(t) BY <1>2 DEF CloseSpellcheck
    <2> HIDE DEF d
    <2>3. "spell" \notin Live(d) BY <2>1 DEF Live
    <2>4. Sound(m) /\ Less(d, m, {"aim"}) BY <2>1, <2>3, SpoiledEases DEF Less, Eases
    <2>5. m.press = d.press BY <2>4 DEF Less, Same, Fields
    <2> HIDE DEF m
    <2>6. t = [f \in Fields |->
                 IF f = "spell" THEN "closed" ELSE IF f = "word" THEN FALSE ELSE m[f]]
      BY <2>4 DEF Sound, Typed, Fields
    <2> HIDE DEF t
    <2>7. Same(m, t, {"spell", "word"}) /\ t.spell = "closed" /\ ~t.word /\ t.press = d.press
      BY <2>5, <2>6 DEF Same, Fields
    <2>8. Typed(t) BY <2>4, <2>6, <2>7 DEF Sound, Typed, Same, Fields
    <2>9. Sound(t) BY <2>1, <2>4, <2>7, <2>8 DEF Same, Fields, Sound, Popped, Linked, Composed
    <2>10. Calms(m, t) /\ Keeps(m, t) BY <2>7 DEF Same, Fields, Calms, Keeps
    <2>11. Less(m, t, {"spell", "word"}) BY <2>7, <2>9, <2>10 DEF Less, Eases
    <2>12. Less(s, m, {"press", "aim"}) BY <2>1, <2>4, LessTransitive
    <2>13. Less(s, t, {"spell", "word", "press", "aim"}) BY <2>11, <2>12, LessTransitive
    <2>14. Less(t, CancelTextInput(t), {"tentative"}) BY <2>9, Cancelled
    <2>15. Less(s, CancelTextInput(t), A) BY <2>13, <2>14, LessTransitive
    <2>16. CancelTextInput(t).spell = "closed" /\ "spell" \notin DOMAIN CancelTextInput(t).press
      BY <2>1, <2>7, <2>14 DEF Less, Same, Fields
    <2> QED BY <2>2, <2>15, <2>16
  <1> QED BY <1>1, <1>2

LEMMA FileErrorDismissed ==
  ASSUME NEW s, Sound(s), s.errors > 0
  PROVE  Less(s, DismissFileError(s), {"errors", "press", "aim"})
  <1> DEFINE d == Drop(s, {"error"})
             m == [d EXCEPT !.errors = @ - 1]
  <1>1. Sound(d) /\ Less(s, d, {"press"}) /\ "error" \notin DOMAIN d.press
    BY Dropped DEF Less, Eases
  <1>2. d.errors = s.errors BY <1>1 DEF Less, Same, Fields
  <1> HIDE DEF d
  <1>3. d.errors - 1 \in 0 .. MaxErrors
    BY <1>1, <1>2, InterfaceConstants DEF Sound, Typed
  <1>4. /\ Typed(m) /\ Same(d, m, {"errors"}) /\ m.errors = d.errors - 1
        /\ m.press = d.press /\ m.loose = d.loose
    BY <1>1, <1>3 DEF Same, Fields, Sound, Typed
  <1> HIDE DEF m
  <1>5. Sound(m)
    <2>1. Composed(m)
      <3>1. d.word => d.errors = 0 BY <1>1 DEF Sound, Composed
      <3>2. ~m.word BY <1>2, <1>4, <3>1 DEF Same, Fields
      <3> QED BY <1>1, <1>4, <3>2 DEF Sound, Composed, Same, Fields
    <2> QED BY <1>1, <1>4, <2>1 DEF Same, Fields, Sound, Popped, Linked
  <1>6. Less(d, m, {"errors"})
    BY <1>2, <1>4, <1>5 DEF Less, Same, Fields, Eases, Calms, Keeps
  <1>7. "error" \notin Live(m) BY <1>1, <1>4 DEF Live
  <1>8. Less(m, Spoil(m, {"error"}), {"aim"}) BY <1>5, <1>7, SpoiledEases
  <1>9. Less(s, m, {"errors", "press"}) BY <1>1, <1>6, LessTransitive
  <1>10. Less(s, Spoil(m, {"error"}), {"errors", "press", "aim"}) BY <1>8, <1>9, LessTransitive
  <1> QED BY <1>10 DEF DismissFileError, m, d

-----------------------------------------------------------------------------
(* The dialog of the spelling review, and what the window takes away *)

LEMMA TopCards ==
  ASSUME NEW s, Sound(s)
  PROVE  /\ Top(s) = "error" <=> s.errors > 0
         /\ Top(s) = "spell" <=> s.errors = 0 /\ s.spell # "closed"
         /\ Top(s) = "external" <=>
              s.errors = 0 /\ s.spell = "closed" /\ "external" \in s.prompts
         /\ Top(s) = "large" <=>
              s.errors = 0 /\ s.spell = "closed" /\ "external" \notin s.prompts
              /\ "large" \in s.prompts
         /\ Top(s) = "unsaved" <=> s.errors = 0 /\ s.spell = "closed" /\ s.prompts = {"unsaved"}
         /\ Top(s) = No <=> s.errors = 0 /\ s.spell = "closed" /\ s.prompts = {}
         /\ Top(s) \in Cards \cup {No}
  <1>1. s.errors \in Nat /\ s.prompts \subseteq {"external", "large", "unsaved"}
    <2>1. s.errors \in 0 .. MaxErrors /\ s.prompts \subseteq Prompts BY DEF Sound, Typed
    <2> QED BY <2>1, InterfaceConstants DEF Prompts
  <1>2. CASE s.errors > 0
    <2>1. Top(s) = "error" BY <1>2 DEF Top
    <2> QED BY <1>1, <1>2, <2>1 DEF No, Cards
  <1>3. CASE s.errors = 0 /\ s.spell # "closed"
    <2>1. Top(s) = "spell" BY <1>3 DEF Top
    <2> QED BY <1>3, <2>1 DEF No, Cards
  <1>4. CASE s.errors = 0 /\ s.spell = "closed" /\ "external" \in s.prompts
    <2>1. Top(s) = "external" BY <1>4 DEF Top
    <2> QED BY <1>4, <2>1 DEF No, Cards, Prompts
  <1>5. CASE /\ s.errors = 0 /\ s.spell = "closed"
             /\ "external" \notin s.prompts /\ "large" \in s.prompts
    <2>1. Top(s) = "large" BY <1>5 DEF Top
    <2> QED BY <1>5, <2>1 DEF No, Cards, Prompts
  <1>6. CASE s.errors = 0 /\ s.spell = "closed" /\ s.prompts = {"unsaved"}
    <2>1. Top(s) = "unsaved" BY <1>6 DEF Top
    <2> QED BY <1>6, <2>1 DEF No, Cards, Prompts
  <1>7. CASE s.errors = 0 /\ s.spell = "closed" /\ s.prompts = {}
    <2>1. Top(s) = No BY <1>7 DEF Top, No
    <2> QED BY <1>7, <2>1 DEF No, Cards, Prompts
  <1>8. \/ s.prompts = {} \/ s.prompts = {"unsaved"}
        \/ "external" \in s.prompts \/ "large" \in s.prompts
    BY <1>1
  <1> QED BY <1>1, <1>2, <1>3, <1>4, <1>5, <1>6, <1>7, <1>8

Shown(s, state, word, control) ==
  [f \in Fields |-> IF f = "spell" THEN state
                    ELSE IF f = "word" THEN word
                    ELSE IF f = "control" THEN control ELSE s[f]]
Dialog == {"spell", "word", "control"}

\* An open dialog may show another state, if its field composes only for a decision.
LEMMA DialogShows ==
  ASSUME NEW s, Sound(s), s.spell # "closed",
         NEW state \in {"loading", "working", "decision", "ended"},
         NEW word, word => state = "decision" /\ s.errors = 0,
         NEW control \in {"yes", "no", "word"}
  PROVE  Less(s, Shown(s, state, word, control), Dialog)
         /\ Shown(s, state, word, control).spell # "closed"
  <1> DEFINE t == Shown(s, state, word, control)
  <1>1. /\ t = [f \in Fields |-> t[f]] /\ Same(s, t, Dialog)
        /\ t.spell = state /\ t.word = word /\ t.control = control
    BY DEF Shown, Same, Dialog, Fields
  <1> HIDE DEF t
  <1>2. Typed(t) BY <1>1 DEF Sound, Typed, Same, Fields, Dialog
  <1>3. Sound(t)
    <2>1. /\ t.preedit = s.preedit /\ t.find = s.find /\ t.focused = s.focused
          /\ t.errors = s.errors
      BY <1>1 DEF Same, Fields, Dialog
    <2>2. Composed(t) BY <1>1, <2>1, Zenon DEF Sound, Composed
    <2>3. /\ t.shell = s.shell /\ t.context = s.context /\ t.effects = s.effects
          /\ t.popup = s.popup /\ t.press = s.press /\ t.loose = s.loose /\ t.emoji = s.emoji
          /\ t.menu = s.menu
      BY <1>1 DEF Same, Fields, Dialog
    <2>4. Popped(t) BY <2>3 DEF Sound, Popped
    <2>5. Linked(t) BY <1>1, <2>1, <2>3 DEF Sound, Linked
    <2> QED BY <1>2, <2>2, <2>4, <2>5 DEF Sound
  <1>4. Calms(s, t) /\ Keeps(s, t) BY <1>1 DEF Calms, Keeps, Same, Fields, Dialog
  <1>5. Less(s, t, Dialog) /\ t.spell # "closed" BY <1>1, <1>3, <1>4 DEF Less, Eases
  <1> QED BY <1>5 DEF t

LEMMA DialogSynchronized ==
  ASSUME NEW s, Sound(s), s.spell # "closed",
         NEW state \in {"working", "decision", "ended"}, NEW same \in BOOLEAN
  PROVE  LET t == SynchronizeSpellcheckDialog(s, state, same) IN
         Less(s, t, Dialog) /\ t.spell # "closed"
  <1> DEFINE kept == s.word \/ (s.control = "word" /\ s.errors = 0)
             fresh == s.errors = 0
  <1>0. s = [f \in Fields |-> s[f]] /\ s.control \in {"yes", "no", "word"}
    BY DEF Sound, Typed
  <1>1. CASE state = "working"
    <2>1. SynchronizeSpellcheckDialog(s, state, same) = [s EXCEPT !.spell = state, !.word = FALSE]
      BY <1>1 DEF SynchronizeSpellcheckDialog
    <2>2. SynchronizeSpellcheckDialog(s, state, same) = Shown(s, state, FALSE, s.control)
      BY <1>0, <2>1 DEF Shown, Fields
    <2> DEFINE w == FALSE
    <2>3. w => state = "decision" /\ s.errors = 0 OBVIOUS
    <2> HIDE DEF w
    <2>4. /\ Less(s, Shown(s, state, w, s.control), Dialog)
          /\ Shown(s, state, w, s.control).spell # "closed"
      BY <1>0, <2>3, DialogShows
    <2> QED BY <2>2, <2>4 DEF w
  <1>2. CASE state = "ended"
    <2>1. SynchronizeSpellcheckDialog(s, state, same) =
            [s EXCEPT !.spell = state, !.word = FALSE, !.control = "no"]
      BY <1>2 DEF SynchronizeSpellcheckDialog
    <2>2. SynchronizeSpellcheckDialog(s, state, same) = Shown(s, state, FALSE, "no")
      BY <1>0, <2>1 DEF Shown, Fields
    <2> DEFINE w == FALSE
    <2>3. w => state = "decision" /\ s.errors = 0 OBVIOUS
    <2> HIDE DEF w
    <2>4. Less(s, Shown(s, state, w, "no"), Dialog) /\ Shown(s, state, w, "no").spell # "closed"
      BY <1>0, <2>3, DialogShows
    <2> QED BY <2>2, <2>4 DEF w
  <1>3. CASE state = "decision" /\ same
    <2>1. SynchronizeSpellcheckDialog(s, state, same) = [s EXCEPT !.spell = state, !.word = kept]
      BY <1>3 DEF SynchronizeSpellcheckDialog
    <2>2. kept => s.errors = 0 BY DEF Sound, Composed
    <2> HIDE DEF kept
    <2>3. SynchronizeSpellcheckDialog(s, state, same) = Shown(s, state, kept, s.control)
      BY <1>0, <2>1 DEF Shown, Fields
    <2> QED BY <1>0, <1>3, <2>2, <2>3, DialogShows
  <1>4. CASE state = "decision" /\ ~same
    <2>1. SynchronizeSpellcheckDialog(s, state, same)
            = [s EXCEPT !.spell = state, !.control = "word", !.word = fresh]
      BY <1>4 DEF SynchronizeSpellcheckDialog
    <2>2. fresh => s.errors = 0 OBVIOUS
    <2> HIDE DEF fresh
    <2>3. SynchronizeSpellcheckDialog(s, state, same) = Shown(s, state, fresh, "word")
      BY <1>0, <2>1 DEF Shown, Fields
    <2> QED BY <1>4, <2>2, <2>3, DialogShows
  <1> QED BY <1>1, <1>2, <1>3, <1>4

LEMMA SessionStarted ==
  ASSUME NEW s, Sound(s)
  PROVE  LET t == StartSpellcheckSession(s) IN
         Less(s, t, {"tentative", "word", "captured"}) /\ ~t.captured
  <1> DEFINE m == CancelTextInput(s)
             t == [m EXCEPT !.word = FALSE, !.captured = FALSE]
  <1>1. Sound(m) /\ Less(s, m, {"tentative"}) BY Cancelled DEF Less, Eases
  <1> HIDE DEF m
  <1>2. t = [f \in Fields |-> IF f \in {"word", "captured"} THEN FALSE ELSE m[f]]
    BY <1>1 DEF Sound, Typed, Fields
  <1> HIDE DEF t
  <1>3. Same(m, t, {"word", "captured"}) /\ ~t.word /\ ~t.captured
    BY <1>2 DEF Same, Fields
  <1>4. Typed(t) BY <1>1, <1>2, <1>3 DEF Sound, Typed, Same, Fields
  <1>5. Sound(t) BY <1>1, <1>3, <1>4 DEF Same, Fields, Sound, Popped, Linked, Composed
  <1>6. Calms(m, t) /\ Keeps(m, t) BY <1>3 DEF Same, Fields, Calms, Keeps
  <1>7. Less(m, t, {"word", "captured"}) BY <1>3, <1>5, <1>6 DEF Less, Eases
  <1>8. Less(s, t, {"tentative", "word", "captured"}) BY <1>1, <1>7, LessTransitive
  <1> QED BY <1>3, <1>8 DEF StartSpellcheckSession, t, m

Review == Dialog \cup {"tentative", "captured"}
LEMMA SessionsEase ==
  ASSUME NEW s, Sound(s), s.spell # "closed"
  PROVE  /\ \A t \in SessionBegun(s) : Less(s, t, Review) /\ t.spell # "closed"
         /\ \A t \in SessionDecided(s) : Less(s, t, Review) /\ t.spell # "closed"
  <1> DEFINE m == StartSpellcheckSession(s)
             a == SynchronizeSpellcheckDialog(m, "working", FALSE)
             e == SynchronizeSpellcheckDialog(s, "ended", FALSE)
  <1>1. Less(s, m, {"tentative", "word", "captured"}) BY SessionStarted
  <1>2. Sound(m) /\ m.spell # "closed" BY <1>1 DEF Less, Eases, Same, Fields
  <1> HIDE DEF m
  <1>3. Less(m, a, Dialog) /\ a.spell # "closed" BY <1>2, DialogSynchronized
  <1>4. Less(s, a, Review)
    <2> DEFINE A == {"tentative", "word", "captured"}
    <2>1. A \cup Dialog \subseteq Review BY DEF Review, Dialog
    <2>2. Less(s, m, A) BY <1>1
    <2> HIDE DEF A
    <2> QED BY <1>3, <2>1, <2>2, LessTransitive
  <1>5. Less(s, e, Dialog) /\ e.spell # "closed" BY DialogSynchronized
  <1> HIDE DEF a, e
  <1>6. Sound(e) BY <1>5 DEF Less, Eases
  <1>7. Less(e, CancelTextInput(e), {"tentative"}) BY <1>6, Cancelled
  <1>8. Less(s, CancelTextInput(e), Review)
    BY <1>5, <1>7, LessTransitive DEF Review, Dialog
  <1>9. CancelTextInput(e).spell # "closed" BY <1>5, <1>7 DEF Less, Same, Fields
  <1>10. SessionBegun(s) = {a, CancelTextInput(e)}
    BY DEF SessionBegun, a, e, m, CancelTextInput
  <1>11. \A t \in SessionDecided(s) : Less(s, t, Review) /\ t.spell # "closed"
    <2> SUFFICES ASSUME NEW x \in {"working", "decision", "ended"}, NEW same \in BOOLEAN
                 PROVE  LET t == SynchronizeSpellcheckDialog(s, x, same) IN
                        Less(s, t, Review) /\ t.spell # "closed"
      BY DEF SessionDecided
    <2> DEFINE t == SynchronizeSpellcheckDialog(s, x, same)
    <2>1. Less(s, t, Dialog) /\ t.spell # "closed" BY DialogSynchronized
    <2> HIDE DEF t
    <2>2. Less(s, t, Review) BY <2>1 DEF Less, Same, Review
    <2> QED BY <2>1, <2>2 DEF t
  <1> QED BY <1>3, <1>4, <1>8, <1>9, <1>10, <1>11

LEMMA SpellcheckPressed ==
  ASSUME NEW s, Sound(s), Top(s) = "spell", NEW hit \in {"yes", "no", "word", No}
  PROVE  Less(s, SpellcheckPress(s, hit), Dialog)
  <1> DEFINE w == hit = "word" /\ s.spell = "decision"
             c == IF hit = No THEN s.control ELSE hit
  <1>1. s = [f \in Fields |-> s[f]] /\ s.control \in {"yes", "no", "word"}
        /\ s.spell \in {"closed", "loading", "working", "decision", "ended"}
        /\ s.errors \in 0 .. MaxErrors
    BY DEF Sound, Typed
  <1>2. s.errors = 0 /\ s.spell # "closed" BY TopCards
  <1>3. SpellcheckPress(s, hit) = [s EXCEPT !.control = c, !.word = w] BY DEF SpellcheckPress
  <1>4. c \in {"yes", "no", "word"} BY <1>1
  <1>5. w => s.spell = "decision" OBVIOUS
  <1> HIDE DEF w, c
  <1>6. SpellcheckPress(s, hit) = Shown(s, s.spell, w, c) BY <1>1, <1>3 DEF Shown, Fields
  <1>7. s.spell \in {"loading", "working", "decision", "ended"} BY <1>1, <1>2
  <1> QED BY <1>2, <1>4, <1>5, <1>6, <1>7, DialogShows

LEMMA FocusCycled ==
  ASSUME NEW s, Sound(s), Top(s) = "spell", NEW t \in CycleFocus(s)
  PROVE  Less(s, t, Dialog)
  <1> PICK c \in {"yes", "no", "word"} :
        t = [s EXCEPT !.control = c, !.word = (s.spell = "decision" /\ c = "word")]
    BY DEF CycleFocus
  <1> DEFINE w == s.spell = "decision" /\ c = "word"
  <1>1. s = [f \in Fields |-> s[f]] /\ s.errors \in 0 .. MaxErrors
        /\ s.spell \in {"closed", "loading", "working", "decision", "ended"}
    BY DEF Sound, Typed
  <1>2. s.errors = 0 /\ s.spell # "closed" BY TopCards
  <1>3. t = [s EXCEPT !.control = c, !.word = w] OBVIOUS
  <1>4. w => s.spell = "decision" OBVIOUS
  <1> HIDE DEF w
  <1>5. t = Shown(s, s.spell, w, c) BY <1>1, <1>3 DEF Shown, Fields
  <1>6. s.spell \in {"loading", "working", "decision", "ended"} BY <1>1, <1>2
  <1> QED BY <1>2, <1>4, <1>5, <1>6, DialogShows

-----------------------------------------------------------------------------
(* What holds while an event is handled *)

Field(s) == s.find /\ s.focused

\* One overlay at a time, and none over uncommitted text.
Apart(s) ==
  /\ Top(s) # No => s.menu = No /\ ~s.context
  /\ s.menu # No => ~s.context
  /\ s.emoji => ~ChromeOwnsInput(s) /\ ~Field(s) /\ ~s.tentative
  /\ s.tentative => ~ChromeOwnsInput(s) /\ ~Field(s)

\* A prompt's card is armed only where no card is above it.
OnlyTop(s) ==
  /\ s.errors > 0 \/ s.spell # "closed" => DOMAIN s.press \cap s.prompts = {}
  /\ "external" \in s.prompts => DOMAIN s.press \cap s.prompts \subseteq {"external"}
  /\ "large" \in s.prompts => DOMAIN s.press \cap s.prompts \subseteq {"external", "large"}

(* A selection drag leaves no control armed, and one whose release is to come has
   none to fire; a lost one may. *)
Held(s) ==
  /\ s.captured => Pressed(s, "menu") # "entry" /\ "emoji" \notin DOMAIN s.press
  /\ s.captured /\ ~s.lost => s.aim = Nowhere
  /\ Dragging(s) => "emoji" \notin DOMAIN s.press

\* begun: a prompt has begun and the interface has not been told yet.
Mid(s, begun) ==
  /\ Sound(s) /\ Held(s) /\ ~s.misfired
  /\ begun \/ (Apart(s) /\ OnlyTop(s))
  /\ s.errors > 0 => "spell" \notin DOMAIN s.press
  /\ s.find /\ s.document = s.last => s.origin = s.document

\* What a release may fire is what the user pressed.
Sure(s, begun) ==
  s.held \/ s.aim # Nowhere =>
    \A o \in Live(s) \ (IF begun THEN Prompts ELSE {}) : s.aim = <<o, s.press[o]>>

Good(s, begun) == Mid(s, begun) /\ Sure(s, begun)

LEMMA PressedIsArmed ==
  ASSUME NEW s, Sound(s), NEW o
  PROVE  Pressed(s, o) # No <=> o \in DOMAIN s.press
  BY DEF Sound, Linked, Pressed

LEMMA ChromeShrinks ==
  ASSUME NEW s, NEW t, Sound(s), Sound(t), Calms(s, t)
  PROVE  /\ Top(t) # No => Top(s) # No
         /\ ChromeOwnsInput(t) => ChromeOwnsInput(s)
  <1>1. Top(t) # No => Top(s) # No
    <2>1. s.errors \in Nat /\ t.errors \in Nat
      BY InterfaceConstants DEF Sound, Typed
    <2>2. ~(t.errors > 0) => t.errors = 0 BY <2>1
    <2>3. s.errors = 0 => ~(s.errors > 0) OBVIOUS
    <2> QED BY <2>2, <2>3, TopCards DEF Calms
  <1> QED BY <1>1 DEF ChromeOwnsInput, Calms

LEMMA EasedMid ==
  ASSUME NEW s, NEW t, NEW begun, Mid(s, begun), Eases(s, t)
  PROVE  Mid(t, begun)
  <1>1. Sound(s) /\ Sound(t) /\ Calms(s, t) /\ Keeps(s, t) BY DEF Eases, Mid
  <1>2. Apart(s) => Apart(t)
    <2>1. Field(t) => Field(s) BY <1>1 DEF Field, Calms
    <2> QED BY <1>1, <2>1, ChromeShrinks DEF Apart, Calms
  <1>3. OnlyTop(s) => OnlyTop(t) BY <1>1 DEF OnlyTop, Calms
  <1>4. Held(t)
    <2>1. t.captured => Pressed(t, "menu") # "entry" /\ "emoji" \notin DOMAIN t.press
      BY <1>1 DEF Mid, Held, Calms, Pressed, No
    <2>2. t.captured /\ ~t.lost => t.aim = Nowhere BY <1>1 DEF Mid, Held, Calms, Keeps
    <2>3. Dragging(t) => Dragging(s) BY <1>1 DEF Calms, Dragging, Pressed, No
    <2> QED BY <1>1, <2>1, <2>2, <2>3 DEF Mid, Held, Calms
  <1>5. t.errors > 0 => "spell" \notin DOMAIN t.press BY <1>1 DEF Mid, Calms
  <1>6. t.find /\ t.document = t.last => t.origin = t.document BY <1>1 DEF Mid, Calms
  <1>7. ~t.misfired BY <1>1 DEF Mid, Calms
  <1> QED BY <1>1, <1>2, <1>3, <1>4, <1>5, <1>6, <1>7 DEF Mid

LEMMA EasedSure ==
  ASSUME NEW s, NEW t, NEW begun, Sure(s, begun), Eases(s, t)
  PROVE  Sure(t, begun)
  <1>1. Calms(s, t) /\ Keeps(s, t) BY DEF Eases
  <1>2. Live(t) \subseteq Live(s) BY <1>1, LiveShrinks
  <1> DEFINE E == IF begun THEN Prompts ELSE {}
  <1> SUFFICES ASSUME t.held \/ t.aim # Nowhere, NEW o \in Live(t) \ E
               PROVE  t.aim = <<o, t.press[o]>>
    BY DEF Sure
  <1>3. o \in Live(s) \ E /\ t.press[o] = s.press[o] BY <1>1, <1>2 DEF Live, Calms
  <1>4. CASE t.aim = s.aim BY <1>1, <1>3, <1>4 DEF Sure, Calms
  <1>5. CASE t.aim = Nowhere /\ s.aim[1] \notin Live(t)
    <2>1. s.held BY <1>1, <1>5 DEF Calms
    <2>2. s.aim = <<o, s.press[o]>> BY <1>3, <2>1 DEF Sure
    <2>3. s.aim[1] = o BY <2>2
    <2> QED BY <1>5, <2>3
  <1> QED BY <1>1, <1>4, <1>5 DEF Keeps

LEMMA EasedGood ==
  ASSUME NEW s, NEW t, NEW begun, Good(s, begun), Eases(s, t)
  PROVE  Good(t, begun)
  BY EasedMid, EasedSure DEF Good

\* With no overlay and no card armed, a release can fire nothing but the find bar.
LEMMA NothingLives ==
  ASSUME NEW s, Sound(s), s.menu = No, ~s.context, ~s.emoji, DOMAIN s.press \cap Cards = {}
  PROVE  Live(s) \subseteq {"find"}
  BY DEF Live, Sound, Typed, Linked, Cards

\* Forgetting what was pressed before it is taken away.
LEMMA SpoiledThenEased ==
  ASSUME NEW s, NEW t, NEW O, Sound(s), Eases(Spoil(s, O), t), Live(t) \cap O = {}
  PROVE  Eases(s, t)
  <1> DEFINE a == Spoil(s, O)
  <1>1. Sound(a) /\ Calms(s, a) /\ a.aim = IF s.aim[1] \in O THEN Nowhere ELSE s.aim
    BY Spoiled
  <1>2. Sound(t) /\ Calms(a, t) /\ Keeps(a, t) BY DEF Eases
  <1> HIDE DEF a
  <1>3. Calms(s, t) BY <1>1, <1>2 DEF Calms
  <1>4. Keeps(s, t) BY <1>1, <1>2 DEF Keeps
  <1> QED BY <1>2, <1>3, <1>4 DEF Eases

-----------------------------------------------------------------------------
(* What closes several overlays at once *)

\* A closing never reopens what an earlier one closed.
LEMMA StaysClosed ==
  ASSUME NEW s, NEW t, NEW A, Less(s, t, A)
  PROVE  /\ Sound(t)
         /\ (s.menu = No => t.menu = No) /\ (~s.context => ~t.context)
         /\ (~s.emoji => ~t.emoji) /\ (~s.tentative => ~t.tentative)
         /\ (~Field(s) => ~Field(t))
         /\ DOMAIN t.press \subseteq DOMAIN s.press
  BY DEF Less, Eases, Calms, Field

Closing == {"menu", "context", "shell", "press", "aim", "effects", "emoji", "tentative",
          "focused", "preedit"}
Cleared(s) ==
  CancelScrollBarInteraction(BlurFindField(CancelTextInput(CloseEmojiCompletion(
      DismissContextMenu(DismissOpenMenu(s))))))

LEMMA ClearedEases ==
  ASSUME NEW s, Sound(s)
  PROVE  LET t == Cleared(s) IN
         /\ Less(s, t, Closing)
         /\ t.menu = No /\ ~t.context /\ ~t.emoji /\ ~t.tentative /\ ~Field(t)
         /\ "bar" \notin DOMAIN t.press
  <1> DEFINE a == DismissOpenMenu(s)
             b == DismissContextMenu(a)
             c == CloseEmojiCompletion(b)
             d == CancelTextInput(c)
             e == BlurFindField(d)
             t == Drop(e, {"bar"})
  <1>1. Less(s, a, {"menu", "press", "aim"}) /\ a.menu = No BY OpenMenuDismissed
  <1>a. Sound(a) BY <1>1, StaysClosed
  <1> HIDE DEF a
  <1>2. Less(a, b, {"context", "shell", "press", "aim", "effects"}) /\ ~b.context
    BY <1>a, ContextMenuDismissed
  <1>b. Sound(b) /\ b.menu = No BY <1>1, <1>2, StaysClosed
  <1> HIDE DEF b
  <1>3. Less(b, c, {"emoji", "press", "aim"}) /\ ~c.emoji BY <1>b, EmojiClosed
  <1>c. Sound(c) /\ c.menu = No /\ ~c.context BY <1>2, <1>3, <1>b, StaysClosed
  <1> HIDE DEF c
  <1>4. Less(c, d, {"tentative"}) /\ ~d.tentative BY <1>c, Cancelled
  <1>d. Sound(d) /\ d.menu = No /\ ~d.context /\ ~d.emoji BY <1>3, <1>4, <1>c, StaysClosed
  <1> HIDE DEF d
  <1>5. Less(d, e, {"focused", "preedit", "press"}) /\ ~Field(e) BY <1>d, Blurred DEF Field
  <1>e. Sound(e) /\ e.menu = No /\ ~e.context /\ ~e.emoji /\ ~e.tentative
    BY <1>4, <1>5, <1>d, StaysClosed
  <1> HIDE DEF e
  <1>6. Less(e, t, {"press"}) /\ "bar" \notin DOMAIN t.press BY <1>e, Dropped
  <1>f. t.menu = No /\ ~t.context /\ ~t.emoji /\ ~t.tentative /\ ~Field(t)
    BY <1>5, <1>6, <1>e, StaysClosed
  <1> HIDE DEF t
  <1>7. Less(s, b, Closing)
    BY <1>1, <1>2, LessTransitive,
       {"menu", "press", "aim"} \cup {"context", "shell", "press", "aim", "effects"} \subseteq Closing
    DEF Closing
  <1>8. Less(s, c, Closing)
    BY <1>3, <1>7, LessTransitive, Closing \cup {"emoji", "press", "aim"} \subseteq Closing
    DEF Closing
  <1>9. Less(s, d, Closing)
    BY <1>4, <1>8, LessTransitive, Closing \cup {"tentative"} \subseteq Closing DEF Closing
  <1>10. Less(s, e, Closing)
    BY <1>5, <1>9, LessTransitive, Closing \cup {"focused", "preedit", "press"} \subseteq Closing
    DEF Closing
  <1>11. Less(s, t, Closing)
    BY <1>6, <1>10, LessTransitive, Closing \cup {"press"} \subseteq Closing DEF Closing
  <1>12. t = Cleared(s) BY DEF Cleared, CancelScrollBarInteraction, t, e, d, c, b, a
  <1> QED BY <1>6, <1>f, <1>11, <1>12

LEMMA PromptBegan ==
  ASSUME NEW s, Sound(s)
  PROVE  LET t == NotifyPromptBegan(s) IN
         /\ Eases(s, t)
         /\ t.menu = No /\ ~t.context /\ ~t.emoji /\ ~t.tentative /\ ~Field(t)
         /\ DOMAIN t.press \cap Prompts = {}
  <1> DEFINE d == Drop(s, Prompts)
             O == Underneath \ {"spell"}
             a == Spoil(d, O)
             t == Cleared(a)
  <1>1. Less(s, d, {"press"}) /\ DOMAIN d.press \cap Prompts = {} BY Dropped
  <1>2. Sound(d) BY <1>1, StaysClosed
  <1> HIDE DEF d
  <1>3. Sound(a) /\ Same(d, a, {"aim"}) BY <1>2, Spoiled
  <1>4. a.press = d.press BY <1>3 DEF Same, Fields
  <1>5. /\ Less(a, t, Closing)
        /\ t.menu = No /\ ~t.context /\ ~t.emoji /\ ~t.tentative /\ ~Field(t)
    BY <1>3, ClearedEases
  <1>6. Sound(t) /\ DOMAIN t.press \subseteq DOMAIN a.press BY <1>5, StaysClosed
  <1> HIDE DEF t
  <1>7. DOMAIN t.press \cap Prompts = {} BY <1>1, <1>4, <1>6
  <1>8. Live(t) \cap O = {}
    <2> SUFFICES ASSUME NEW o \in Live(t), o \in O PROVE FALSE OBVIOUS
    <2>1. o \notin Prompts BY <1>7 DEF Live
    <2>2. o \in {"menu", "context", "emoji", "bar"}
      BY <2>1 DEF Underneath, Owners, Cards, Prompts
    <2>3. o = "emoji" => t.emoji BY <1>6 DEF Live, Sound, Linked
    <2>4. o # "emoji" => t.press[o] \in {"item", "entry"} BY <1>6, <2>1, <2>2 DEF Live, Sound, Typed
    <2> QED BY <1>5, <1>6, <2>2, <2>3, <2>4 DEF Live, Sound, Linked
  <1>9. Eases(d, t) BY <1>2, <1>5, <1>8, SpoiledThenEased DEF Less
  <1>10. Eases(s, t) BY <1>1, <1>9, EasesTransitive DEF Less
  <1>11. t = NotifyPromptBegan(s) BY DEF NotifyPromptBegan, Cleared, t, a, d, O
  <1> QED BY <1>5, <1>7, <1>10, <1>11

LEMMA FrameSizeChanged ==
  ASSUME NEW s, Sound(s)
  PROVE  Eases(s, HandleFrameSizeChange(s))
  <1> DEFINE P == Prompts \cup {"error", "find", "menu"}
             O == Owners
             d == Drop(s, P)
             a == Drop(d, {"bar"})
             b == DismissContextMenu(a)
             c == CloseEmojiCompletion(b)
             l == Loosen(c, {"spell"})
  <1>1. Less(s, d, {"press"}) /\ DOMAIN d.press \cap P = {} BY Dropped
  <1>2. Sound(d) BY <1>1, StaysClosed
  <1> HIDE DEF d, P
  <1>3. Less(d, a, {"press"}) /\ "bar" \notin DOMAIN a.press BY <1>2, Dropped
  <1>4. Sound(a) /\ DOMAIN a.press \subseteq DOMAIN d.press BY <1>3, StaysClosed
  <1> HIDE DEF a
  <1>5. Eases(a, b) /\ "context" \notin DOMAIN b.press /\ DOMAIN b.press \subseteq DOMAIN a.press
        /\ Sound(b)
    BY <1>4, ContextMenuDismissed, StaysClosed DEF Less
  <1> HIDE DEF b
  <1>6. Eases(b, c) /\ DOMAIN c.press = DOMAIN b.press \ {"emoji"} /\ Sound(c)
    BY <1>5, EmojiClosed, StaysClosed DEF Less
  <1> HIDE DEF c
  <1>7. DOMAIN c.press \cap (P \cup {"bar", "context", "emoji"}) = {}
    BY <1>1, <1>3, <1>4, <1>5, <1>6
  <1>8. Less(c, l, {"loose"}) /\ "spell" \notin Live(l) BY <1>6, Loosened
  <1> HIDE DEF l
  <1>15. DOMAIN l.press \cap (P \cup {"bar", "context", "emoji"}) = {} /\ Sound(l)
    BY <1>7, <1>8, StaysClosed
  <1>16. O \cap Live(l) = {} BY <1>8, <1>15 DEF O, P, Live, Owners, Cards
  <1> HIDE DEF O
  <1>17. Eases(l, Spoil(l, O)) BY <1>15, <1>16, SpoiledEases DEF Less
  <1>9. Eases(c, Spoil(l, O)) BY <1>8, <1>17, EasesTransitive DEF Less
  <1>10. Eases(s, a) BY <1>1, <1>3, EasesTransitive DEF Less
  <1>11. Eases(s, b) BY <1>5, <1>10, EasesTransitive
  <1>12. Eases(s, c) BY <1>6, <1>11, EasesTransitive
  <1>13. Eases(s, Spoil(l, O)) BY <1>9, <1>12, EasesTransitive
  <1>14. HandleFrameSizeChange(s) = Spoil(l, O)
    BY DEF HandleFrameSizeChange, CancelScrollBarInteraction, l, c, b, a, d, P, O
  <1> QED BY <1>13, <1>14

LEMMA FocusIsLost ==
  ASSUME NEW s, Sound(s)
  PROVE  Eases(s, FocusLost(s))
  <1> DEFINE r == IF s.spell = "closed" THEN s ELSE [s EXCEPT !.word = FALSE, !.control = "no"]
             a == CancelTextInput(r)
             b == DismissOpenMenu(a)
             c == DismissContextMenu(b)
             d == CloseEmojiCompletion(c)
             e == Drop(d, {"bar"})
             f == Drop(e, Cards)
             l == Loosen(f, {"find"})
             g == Spoil(l, Owners)
  <1>1. Eases(s, r) /\ Sound(r)
    <2>1. CASE s.spell = "closed" BY <2>1, EasesReflexive
    <2>2. CASE s.spell # "closed"
      <3> DEFINE w == FALSE
      <3>1. w => s.spell = "decision" /\ s.errors = 0 OBVIOUS
      <3>2. r = [s EXCEPT !.word = w, !.control = "no"] BY <2>2
      <3> HIDE DEF w, r
      <3>3. /\ s = [i \in Fields |-> s[i]]
            /\ s.spell \in {"loading", "working", "decision", "ended"}
        BY <2>2 DEF Sound, Typed
      <3>4. r = Shown(s, s.spell, w, "no") BY <3>2, <3>3 DEF Shown, Fields
      <3>5. Less(s, r, Dialog) BY <2>2, <3>1, <3>3, <3>4, DialogShows
      <3> QED BY <3>5, StaysClosed DEF Less
    <2> QED BY <2>1, <2>2
  <1> HIDE DEF r
  <1>2. Less(r, a, {"tentative"}) BY <1>1, Cancelled
  <1>3. Sound(a) BY <1>2, StaysClosed
  <1> HIDE DEF a
  <1>4. Less(a, b, {"menu", "press", "aim"}) /\ b.menu = No BY <1>3, OpenMenuDismissed
  <1>5. Sound(b) BY <1>4, StaysClosed
  <1> HIDE DEF b
  <1>6. Less(b, c, {"context", "shell", "press", "aim", "effects"}) /\ ~c.context
    BY <1>5, ContextMenuDismissed
  <1>7. Sound(c) /\ c.menu = No BY <1>4, <1>6, StaysClosed
  <1> HIDE DEF c
  <1>8. Less(c, d, {"emoji", "press", "aim"}) /\ ~d.emoji BY <1>7, EmojiClosed
  <1>9. Sound(d) /\ d.menu = No /\ ~d.context BY <1>6, <1>7, <1>8, StaysClosed
  <1> HIDE DEF d
  <1>10. Less(d, e, {"press"}) BY <1>9, Dropped
  <1>11. Sound(e) /\ e.menu = No /\ ~e.context /\ ~e.emoji BY <1>8, <1>9, <1>10, StaysClosed
  <1> HIDE DEF e
  <1>12. Less(e, f, {"press"}) /\ DOMAIN f.press \cap Cards = {} BY <1>11, Dropped
  <1>13. Sound(f) /\ f.menu = No /\ ~f.context /\ ~f.emoji BY <1>11, <1>12, StaysClosed
  <1> HIDE DEF f
  <1>22. Less(f, l, {"loose"}) /\ "find" \notin Live(l) BY <1>13, Loosened
  <1>23. Sound(l) /\ l.menu = No /\ ~l.context /\ ~l.emoji /\ DOMAIN l.press \cap Cards = {}
    BY <1>12, <1>13, <1>22, StaysClosed
  <1> HIDE DEF l
  <1>14. Live(l) = {} BY <1>22, <1>23, NothingLives
  <1>24. Less(l, g, {"aim"}) BY <1>23, <1>14, SpoiledEases
  <1>15. Eases(f, g) BY <1>22, <1>24, EasesTransitive DEF Less
  <1>16. Sound(g) BY <1>24, StaysClosed
  <1> HIDE DEF g
  <1>17. Eases(g, BlurFindField(g)) BY <1>16, Blurred DEF Less
  <1>18. Eases(s, c) BY <1>1, <1>2, <1>4, <1>6, EasesTransitive DEF Less
  <1>19. Eases(s, f) BY <1>8, <1>10, <1>12, <1>18, EasesTransitive DEF Less
  <1>20. Eases(s, BlurFindField(g)) BY <1>15, <1>17, <1>19, EasesTransitive DEF Less
  <1>21. FocusLost(s) = BlurFindField(g)
    BY DEF FocusLost, CancelScrollBarInteraction, g, l, f, e, d, c, b, a, r
  <1> QED BY <1>20, <1>21

-----------------------------------------------------------------------------
(* What the workspace asks for *)

\* The loop's own record of the event stays as it is, and no drag begins.
Frame(s, t) ==
  /\ t.document = s.document /\ t.last = s.last /\ t.work = s.work
  /\ t.held = s.held /\ t.lost = s.lost /\ (t.captured => s.captured)

LEMMA EasesFrame ==
  ASSUME NEW s, NEW t, Eases(s, t)
  PROVE  Frame(s, t)
  BY DEF Eases, Calms, Frame

LEMMA FrameTransitive ==
  ASSUME NEW s, NEW t, NEW u, Frame(s, t), Frame(t, u)
  PROVE  Frame(s, u)
  BY DEF Frame

LEMMA GoodWhenBegun ==
  ASSUME NEW s, NEW begun, Good(s, begun)
  PROVE  Good(s, TRUE)
  BY DEF Good, Mid, Sure

Searched(s) == s.find /\ s.document = s.last => s.origin = s.document
Aside == {"work", "given", "document", "origin", "last"}

(* What was asked for, who got the event and which document it was are not what a
   handler keeps, but for the find bar's origin. *)
LEMMA Alike ==
  ASSUME NEW s, NEW t, NEW begun, Good(s, begun), Typed(t), Same(s, t, Aside), Searched(t)
  PROVE  Good(t, begun)
  <1>1. /\ t.errors = s.errors /\ t.spell = s.spell /\ t.word = s.word /\ t.prompts = s.prompts
        /\ t.menu = s.menu /\ t.context = s.context /\ t.shell = s.shell /\ t.popup = s.popup
        /\ t.find = s.find /\ t.focused = s.focused /\ t.preedit = s.preedit
        /\ t.emoji = s.emoji /\ t.tentative = s.tentative
        /\ t.captured = s.captured /\ t.held = s.held /\ t.lost = s.lost
        /\ t.press = s.press /\ t.loose = s.loose /\ t.aim = s.aim
        /\ t.effects = s.effects /\ t.misfired = s.misfired
    BY DEF Same, Fields, Aside
  <1>2. Popped(t) /\ Linked(t) /\ Composed(t)
    BY <1>1 DEF Good, Mid, Sound, Popped, Linked, Composed
  <1>3. Top(t) = Top(s) /\ ChromeOwnsInput(t) = ChromeOwnsInput(s) BY <1>1 DEF Top, ChromeOwnsInput
  <1>4. Held(t) BY <1>1 DEF Good, Mid, Held, Pressed, Dragging
  <1>5. Apart(s) => Apart(t) BY <1>1, <1>3 DEF Apart, Field
  <1>6. OnlyTop(s) => OnlyTop(t) BY <1>1 DEF OnlyTop
  <1>7. Mid(t, begun) BY <1>1, <1>2, <1>4, <1>5, <1>6 DEF Good, Mid, Sound, Searched
  <1>8. Live(t) = Live(s) BY <1>1 DEF Live
  <1>9. Sure(t, begun) BY <1>1, <1>8 DEF Good, Sure
  <1> QED BY <1>7, <1>9 DEF Good

LEMMA GivenGood ==
  ASSUME NEW s, NEW begun, Good(s, begun), NEW g
  PROVE  LET t == [s EXCEPT !.given = g] IN
         Good(t, begun) /\ Same(s, t, {"given"}) /\ t.given = g
  <1> DEFINE t == [s EXCEPT !.given = g]
  <1>1. Typed(t) /\ Same(s, t, {"given"}) /\ t.given = g
    BY DEF Good, Mid, Sound, Typed, Fields, Same
  <1> HIDE DEF t
  <1>2. Same(s, t, Aside) /\ Searched(t)
    BY <1>1 DEF Same, Aside, Searched, Good, Mid, Fields
  <1>3. Good(t, begun) BY <1>1, <1>2, Alike
  <1>4. Good(t, begun) /\ Same(s, t, {"given"}) /\ t.given = g BY <1>1, <1>3
  <1> QED BY <1>4 DEF t

LEMMA WorkGood ==
  ASSUME NEW s, NEW begun, Good(s, begun), NEW w
  PROVE  LET t == [s EXCEPT !.work = w] IN
         Good(t, begun) /\ Same(s, t, {"work"}) /\ t.work = w
  <1> DEFINE t == [s EXCEPT !.work = w]
  <1>1. Typed(t) /\ Same(s, t, {"work"}) /\ t.work = w
    BY DEF Good, Mid, Sound, Typed, Fields, Same
  <1> HIDE DEF t
  <1>2. Same(s, t, Aside) /\ Searched(t)
    BY <1>1 DEF Same, Aside, Searched, Good, Mid, Fields
  <1>3. Good(t, begun) BY <1>1, <1>2, Alike
  <1>4. Good(t, begun) /\ Same(s, t, {"work"}) /\ t.work = w BY <1>1, <1>3
  <1> QED BY <1>4 DEF t

LEMMA PromptBeganGood ==
  ASSUME NEW s, Good(s, TRUE)
  PROVE  Good(NotifyPromptBegan(s), FALSE) /\ Frame(s, NotifyPromptBegan(s))
  <1> DEFINE t == NotifyPromptBegan(s)
  <1>1. /\ Eases(s, t)
        /\ t.menu = No /\ ~t.context /\ ~t.emoji /\ ~t.tentative /\ ~Field(t)
        /\ DOMAIN t.press \cap Prompts = {}
    BY PromptBegan DEF Good, Mid
  <1> HIDE DEF t
  <1>2. Good(t, TRUE) BY <1>1, EasedGood
  <1>3. Apart(t) BY <1>1 DEF Apart
  <1>4. OnlyTop(t) BY <1>1, <1>2 DEF OnlyTop, Good, Mid, Sound, Typed
  <1>5. Sure(t, FALSE)
    <2> SUFFICES ASSUME t.held \/ t.aim # Nowhere, NEW o \in Live(t)
                 PROVE  t.aim = <<o, t.press[o]>>
      BY DEF Sure
    <2>1. o \in Live(t) \ Prompts BY <1>1 DEF Live
    <2>2. Sure(t, TRUE) BY <1>2 DEF Good
    <2> QED BY <2>1, <2>2 DEF Sure
  <1>6. Mid(t, FALSE) BY <1>2, <1>3, <1>4 DEF Good, Mid
  <1>7. Good(t, FALSE) /\ Frame(s, t) BY <1>1, <1>5, <1>6, EasesFrame DEF Good
  <1> QED BY <1>7 DEF t

LEMMA ErrorsAppended ==
  ASSUME NEW s, Good(s, FALSE)
  PROVE  Good(AppendFileErrors(s), FALSE) /\ Frame(s, AppendFileErrors(s))
  <1>0. Sound(s) /\ s.errors \in Nat /\ MaxErrors \in Nat \ {0} /\ s.errors \in 0 .. MaxErrors
    <2>1. Sound(s) BY DEF Good, Mid
    <2>2. s.errors \in 0 .. MaxErrors BY <2>1 DEF Sound, Typed
    <2> QED BY <2>1, <2>2, InterfaceConstants
  <1>1. CASE s.errors > 0
    <2> DEFINE n == IF s.errors < MaxErrors THEN s.errors + 1 ELSE s.errors
               t == [s EXCEPT !.errors = n]
    <2>1. AppendFileErrors(s) = t BY <1>1 DEF AppendFileErrors
    <2>2. n \in 0 .. MaxErrors /\ n > 0 BY <1>0, <1>1
    <2> HIDE DEF n
    <2>3. Typed(t) /\ Same(s, t, {"errors"}) /\ t.errors = n
      BY <1>0, <2>2 DEF Sound, Typed, Fields, Same
    <2> HIDE DEF t
    <2>4. ~s.word BY <1>0, <1>1 DEF Sound, Composed
    <2>5. Sound(t) BY <1>0, <2>2, <2>3, <2>4 DEF Sound, Popped, Linked, Composed, Same, Fields
    <2>6. Eases(s, t) BY <1>1, <2>3, <2>5 DEF Same, Fields, Eases, Calms, Keeps
    <2> QED BY <2>1, <2>6, EasedGood, EasesFrame
  <1>2. CASE s.errors = 0
    <2> DEFINE d == Drop(s, Cards)
               m == [d EXCEPT !.errors = 1, !.word = FALSE]
               O == Underneath
               a == Spoil(m, O)
               t == Cleared(a)
    <2>1. AppendFileErrors(s) = t BY <1>0, <1>2 DEF AppendFileErrors, Cleared
    <2>2. Less(s, d, {"press"}) /\ DOMAIN d.press \cap Cards = {} BY <1>0, Dropped
    <2>3. Sound(d) /\ Good(d, FALSE) /\ Frame(s, d)
      BY <2>2, StaysClosed, EasedGood, EasesFrame DEF Less
    <2> HIDE DEF d
    <2>4. m = [f \in Fields |-> IF f = "errors" THEN 1 ELSE IF f = "word" THEN FALSE ELSE d[f]]
      BY <2>3 DEF Sound, Typed, Fields
    <2> HIDE DEF m
    <2>5. Same(d, m, {"errors", "word"}) /\ m.errors = 1 /\ ~m.word
      BY <2>4 DEF Same, Fields
    <2>6. Typed(m) BY <1>0, <2>3, <2>4, <2>5 DEF Sound, Typed, Same, Fields
    <2>7. Sound(m) BY <2>2, <2>3, <2>5, <2>6 DEF Sound, Popped, Linked, Composed, Same, Fields
    <2>8. /\ Sound(a) /\ Same(m, a, {"aim"}) /\ a.aim \in {Nowhere, m.aim}
          /\ m.aim[1] \notin O => a.aim = m.aim
      BY <2>7, Spoiled
    <2> HIDE DEF a
    <2>9. /\ Less(a, t, Closing)
          /\ t.menu = No /\ ~t.context /\ ~t.emoji /\ ~t.tentative /\ ~Field(t)
      BY <2>8, ClearedEases
    <2>10. Sound(t) /\ Calms(a, t) /\ Keeps(a, t) /\ t.aim \in {Nowhere, a.aim}
      BY <2>9 DEF Less, Eases, Keeps
    <2>11. t.errors = 1
      BY <2>5, <2>8, <2>9 DEF Less, Same, Fields, Closing
    <2> HIDE DEF t
    <2>12. /\ DOMAIN t.press \subseteq DOMAIN d.press /\ t.aim \in {Nowhere, d.aim}
           /\ t.captured => d.captured
           /\ t.lost = d.lost /\ (t.misfired => d.misfired)
           /\ \A o \in DOMAIN t.press : t.press[o] = d.press[o] /\ (o \in d.loose => o \in t.loose)
           /\ t.held = d.held
           /\ t.find => d.find /\ t.origin = d.origin
           /\ t.document = d.document /\ t.last = d.last
      <3>1. \A f \in Fields \ {"errors", "word", "aim"} : a[f] = d[f] BY <2>5, <2>8 DEF Same
      <3>2. a.aim \in {Nowhere, d.aim} BY <2>5, <2>8 DEF Same, Fields
      <3> QED BY <2>10, <3>1, <3>2 DEF Calms, Fields
    <2>13. DOMAIN t.press \cap Cards = {} BY <2>2, <2>12
    <2>14. Held(t)
      <3>1. Held(d) BY <2>3 DEF Good, Mid
      <3>2. "emoji" \notin DOMAIN t.press BY <2>9, <2>10 DEF Sound, Linked
      <3> QED BY <2>12, <3>1, <3>2 DEF Held, Pressed, No
    <2>15. Apart(t) /\ OnlyTop(t)
      BY <2>9, <2>10, <2>13 DEF Apart, OnlyTop, Cards, Sound, Typed
    <2>16. Mid(t, FALSE)
      BY <2>3, <2>10, <2>12, <2>13, <2>14, <2>15 DEF Good, Mid, Cards
    <2>17. Live(t) \subseteq {"find"} BY <2>9, <2>10, <2>13, NothingLives
    <2>18. Sure(t, FALSE)
      <3> SUFFICES ASSUME t.held \/ t.aim # Nowhere, NEW o \in Live(t)
                   PROVE  t.aim = <<o, t.press[o]>>
        BY DEF Sure
      <3>1. o = "find" /\ o \in Live(d) BY <2>12, <2>17 DEF Live
      <3>2. d.held \/ d.aim # Nowhere BY <2>12
      <3>3. Sure(d, FALSE) BY <2>3 DEF Good
      <3>4. d.aim = <<o, d.press[o]>> BY <3>1, <3>2, <3>3 DEF Sure
      <3>5. m.aim = d.aim BY <2>5 DEF Same, Fields
      <3>6. d.aim[1] = o BY <3>4
      <3>7. o \notin O BY <3>1 DEF Underneath
      <3>8. a.aim = d.aim BY <2>8, <3>5, <3>6, <3>7
      <3>9. t.aim = d.aim BY <2>10, <3>6, <3>8 DEF Keeps
      <3>10. t.press[o] = d.press[o] BY <2>12 DEF Live
      <3> QED BY <3>4, <3>9, <3>10
    <2>19. Frame(d, t)
      BY <2>5, <2>8, <2>10 DEF Frame, Calms, Same, Fields
    <2>20. Frame(s, t) BY <2>3, <2>19, FrameTransitive
    <2> QED BY <2>1, <2>16, <2>18, <2>20 DEF Good
  <1>3. s.errors > 0 \/ s.errors = 0 BY <1>0
  <1> QED BY <1>1, <1>2, <1>3

\* Turning to another document concerns only where the find bar searches from.
LEMMA TurnedTo ==
  ASSUME NEW s, NEW begun, Good(s, begun), s.document = s.last, NEW d \in Documents
  PROVE  LET t == [s EXCEPT !.document = d] IN
         Good(t, begun) /\ Same(s, t, {"document"}) /\ t.document = d
  <1> DEFINE t == [s EXCEPT !.document = d]
  <1>1. Typed(t) /\ Same(s, t, {"document"}) /\ t.document = d
    BY DEF Good, Mid, Sound, Typed, Fields, Same
  <1> HIDE DEF t
  <1>2. Same(s, t, Aside) /\ Searched(t)
    BY <1>1 DEF Same, Aside, Searched, Good, Mid, Fields
  <1>3. Good(t, begun) BY <1>1, <1>2, Alike
  <1>4. Good(t, begun) /\ Same(s, t, {"document"}) /\ t.document = d BY <1>1, <1>3
  <1> QED BY <1>4 DEF t

\* An answered prompt's card is there no more to be released on.
LEMMA Answered ==
  ASSUME NEW s, Sound(s), NEW p \in SUBSET s.prompts, NEW v, v => s.tentative
  PROVE  LET t == [Spoil(s, s.prompts \ p) EXCEPT !.prompts = p, !.tentative = v] IN
         Less(s, t, {"prompts", "tentative", "aim"})
  <1> DEFINE O == s.prompts \ p
             a == Spoil(s, O)
             t == [a EXCEPT !.prompts = p, !.tentative = v]
  <1>1. /\ Sound(a) /\ Calms(s, a) /\ Same(s, a, {"aim"})
        /\ a.aim = IF s.aim[1] \in O THEN Nowhere ELSE s.aim
    BY Spoiled
  <1> HIDE DEF a
  <1>2. t = [f \in Fields |-> IF f = "prompts" THEN p ELSE IF f = "tentative" THEN v ELSE a[f]]
    BY <1>1 DEF Sound, Typed, Fields
  <1> HIDE DEF t
  <1>3. Same(a, t, {"prompts", "tentative"}) /\ t.prompts = p /\ t.tentative = v
    BY <1>2 DEF Same, Fields
  <1>4. s.prompts \subseteq Prompts /\ a.prompts = s.prompts BY <1>1 DEF Sound, Typed, Same, Fields
  <1>5. Typed(t) BY <1>1, <1>2, <1>3, <1>4 DEF Sound, Typed, Same, Fields
  <1>6. Sound(t) BY <1>1, <1>3, <1>5 DEF Sound, Popped, Linked, Composed, Same, Fields
  <1>7. Same(s, t, {"prompts", "tentative", "aim"}) /\ t.aim = a.aim
    BY <1>1, <1>3 DEF Same, Fields
  <1>8. t.tentative => s.tentative BY <1>3, Zenon
  <1>9. Calms(s, t) BY <1>3, <1>7, <1>8 DEF Calms, Same, Fields
  <1>10. O \cap Live(t) = {}
    BY <1>3, <1>4, <1>6 DEF Live, Sound, Linked, Prompts
  <1>11. Keeps(s, t) BY <1>1, <1>7, <1>10 DEF Keeps
  <1>12. Less(s, t, {"prompts", "tentative", "aim"}) BY <1>6, <1>7, <1>9, <1>11 DEF Less, Eases
  <1> QED BY <1>12 DEF t, a, O

LEMMA AnswersGood ==
  ASSUME NEW s, NEW begun, Good(s, begun), s.document = s.last, NEW t \in Answers(s)
  PROVE  /\ Good(t, begun) /\ Same(s, t, {"prompts", "tentative", "aim", "document"})
         /\ t.prompts \subseteq s.prompts /\ t.document \in Documents
  <1> PICK p \in SUBSET s.prompts, d \in IF Reviewing(s) THEN {s.document} ELSE Documents :
        t = Answer(s, p, d)
    BY DEF Answers
  <1>0. d \in Documents BY DEF Good, Mid, Sound, Typed
  <1> DEFINE r == [s EXCEPT !.document = d]
             O == s.prompts \ p
             v == s.tentative /\ d = s.document
             a == Spoil(s, O)
             b == Spoil(r, O)
             u == [b EXCEPT !.prompts = p, !.tentative = v]
  <1>1. Good(r, begun) /\ Same(s, r, {"document"}) /\ r.document = d BY <1>0, TurnedTo
  <1>2. Sound(s) /\ Sound(r) BY <1>1 DEF Good, Mid
  <1>3. r.prompts = s.prompts /\ r.tentative = s.tentative /\ r.aim = s.aim
    BY <1>1 DEF Same, Fields
  <1>4. v => r.tentative BY <1>3, Zenon
  <1>5. a.tentative = s.tentative /\ Sound(a) /\ Same(s, a, {"aim"})
        /\ a.aim = IF s.aim[1] \in O THEN Nowhere ELSE s.aim
    BY <1>2, Spoiled DEF Same, Fields
  <1>6. Sound(b) /\ Same(r, b, {"aim"}) /\ b.aim = IF s.aim[1] \in O THEN Nowhere ELSE s.aim
    BY <1>2, <1>3, Spoiled
  <1>7. t = [a EXCEPT !.prompts = p, !.document = d, !.tentative = v]
    BY <1>5 DEF Answer, a, O, v
  <1> HIDE DEF v
  <1>8. Less(r, u, {"prompts", "tentative", "aim"})
    <2>1. Less(r, [Spoil(r, r.prompts \ p) EXCEPT !.prompts = p, !.tentative = v],
               {"prompts", "tentative", "aim"})
      BY <1>2, <1>3, <1>4, Answered
    <2> QED BY <1>3, <2>1 DEF u, b, O
  <1> HIDE DEF r, a, b
  <1>9. t = u
    <2>1. t = [f \in Fields |-> IF f = "prompts" THEN p ELSE IF f = "document" THEN d
                                ELSE IF f = "tentative" THEN v ELSE a[f]]
      BY <1>5, <1>7 DEF Sound, Typed, Fields
    <2>2. u = [f \in Fields |-> IF f = "prompts" THEN p
                                ELSE IF f = "tentative" THEN v ELSE b[f]]
      BY <1>6 DEF Sound, Typed, Fields
    <2>3. \A f \in Fields : b[f] = IF f = "document" THEN d ELSE a[f]
      BY <1>1, <1>5, <1>6 DEF Same, Fields
    <2> HIDE DEF u
    <2> QED BY <2>1, <2>2, <2>3
  <1> HIDE DEF u
  <1>10. Good(t, begun) BY <1>1, <1>8, <1>9, EasedGood DEF Less
  <1>11. Same(s, t, {"prompts", "tentative", "aim", "document"})
    BY <1>1, <1>8, <1>9 DEF Less, Same
  <1>12. t.prompts \subseteq s.prompts BY <1>3, <1>8, <1>9 DEF Less, Eases, Calms
  <1> QED BY <1>10, <1>11, <1>12 DEF Good, Mid, Sound, Typed

Asked(s) == "prompt" \in s.work

\* What a command of the workspace leaves, before the interface is told of a prompt.
LEMMA OutcomesGood ==
  ASSUME NEW s, Good(s, FALSE), s.document = s.last, NEW t \in Outcomes(s)
  PROVE  /\ Good(t, Asked(t)) /\ t.document \in Documents
         /\ Same(s, t, {"prompts", "tentative", "aim", "document", "work"})
  <1> DEFINE A == {"prompts", "tentative", "aim", "document"}
  <1>1. CASE \E a \in Answers(s), w \in Asks : t = Asking(a, w)
    <2> PICK a \in Answers(s), w \in Asks : t = Asking(a, w) BY <1>1
    <2>1. Good(a, FALSE) /\ Same(s, a, A) /\ a.document \in Documents BY AnswersGood
    <2>2. Good(t, FALSE) /\ Same(a, t, {"work"}) /\ t.work = w BY <2>1, WorkGood DEF Asking
    <2>3. ~Asked(t) BY <2>2 DEF Asks, Asked
    <2>4. Same(s, t, {"prompts", "tentative", "aim", "document", "work"}) BY <2>1, <2>2 DEF Same
    <2>5. t.document = a.document /\ t.aim = a.aim BY <2>2 DEF Same, Fields
    <2>6. Good(t, Asked(t)) BY <2>2, <2>3 DEF Good, Mid, Sure
    <2> QED BY <2>1, <2>4, <2>5, <2>6
  <1>2. CASE \E a \in Answers(s) : \E b \in Begun(a.prompts) :
               t = Beginning(a, b)
    <2> PICK a \in Answers(s) : \E b \in Begun(a.prompts) :
               t = Beginning(a, b)
      BY <1>2
    <2> PICK b \in Begun(a.prompts) :
               t = Beginning(a, b)
      OBVIOUS
    <2> DEFINE p == a.prompts \cup {b}
    <2>1. Good(a, FALSE) /\ Same(s, a, A) /\ a.document \in Documents BY AnswersGood
    <2>2. b \in Prompts BY DEF Begun, Prompts
    <2>3. p \subseteq Prompts BY <2>1, <2>2 DEF Good, Mid, Sound, Typed
    <2>4. t = [a EXCEPT !.prompts = p, !.work = {"prompt"}] BY DEF Beginning
    <2> HIDE DEF p
    <2>5. t = [f \in Fields |-> IF f = "prompts" THEN p
                                ELSE IF f = "work" THEN {"prompt"} ELSE a[f]]
      BY <2>1, <2>4 DEF Good, Mid, Sound, Typed, Fields
    <2>6. Same(a, t, {"prompts", "work"}) /\ t.prompts = p /\ t.work = {"prompt"}
      BY <2>5 DEF Same, Fields
    <2>7. Typed(t) BY <2>1, <2>3, <2>5, <2>6 DEF Good, Mid, Sound, Typed, Same, Fields
    <2>8. Sound(t)
      BY <2>1, <2>6, <2>7 DEF Good, Mid, Sound, Popped, Linked, Composed, Same, Fields
    <2>9. Held(t)
      BY <2>1, <2>6 DEF Good, Mid, Held, Pressed, Dragging, Same, Fields
    <2>10. Mid(t, TRUE) BY <2>1, <2>6, <2>8, <2>9 DEF Good, Mid, Same, Fields
    <2>11. /\ t.press = a.press /\ t.loose = a.loose /\ t.aim = a.aim /\ t.held = a.held
           /\ t.document = a.document
      BY <2>6 DEF Same, Fields
    <2>12. Live(t) \ Prompts \subseteq Live(a) BY <2>3, <2>6, <2>11 DEF Live
    <2>13. Sure(t, TRUE) BY <2>1, <2>11, <2>12 DEF Good, Sure
    <2>14. Asked(t) BY <2>6 DEF Asked
    <2>15. Same(s, t, {"prompts", "tentative", "aim", "document", "work"}) BY <2>1, <2>6 DEF Same
    <2>16. Good(t, Asked(t)) BY <2>10, <2>13, <2>14 DEF Good, Mid, Sure
    <2> QED BY <2>1, <2>11, <2>15, <2>16
  <1>3. \/ \E a \in Answers(s), w \in Asks : t = Asking(a, w)
        \/ \E a \in Answers(s) : \E b \in Begun(a.prompts) :
              t = Beginning(a, b)
    BY DEF Outcomes
  <1> QED BY <1>1, <1>2, <1>3

-----------------------------------------------------------------------------
(* Another document, and what opens *)

Turning == {"context", "shell", "press", "aim", "effects", "emoji", "origin", "last"}

\* What belongs to a document does not outlive its turn.
LEMMA SynchronizedGood ==
  ASSUME NEW s, NEW begun, Good(s, begun)
  PROVE  LET t == SynchronizeInteraction(s) IN
         /\ Good(t, begun) /\ Same(s, t, Turning) /\ t.last = t.document
         /\ t.aim \in {s.aim, Nowhere}
         /\ "bar" \in DOMAIN t.press => ~ChromeOwnsInput(t)
         /\ s.document = s.last => Less(s, t, {"press"})
  <1> DEFINE a == Drop(s, {"bar"})
             b == DismissContextMenu(a)
             c == CloseEmojiCompletion(b)
             d == [c EXCEPT !.origin = c.document]
             e == IF c.find THEN d ELSE c
             t == [e EXCEPT !.last = s.document]
  <1>1. Sound(s) BY DEF Good, Mid
  <1>2. Less(s, a, {"press"}) /\ DOMAIN a.press = DOMAIN s.press \ {"bar"} BY <1>1, Dropped
  <1>3. Sound(a) /\ Good(a, begun) BY <1>2, StaysClosed, EasedGood DEF Less
  <1>4. CASE s.document = s.last
    <2>1. CASE Pressed(s, "bar") # No /\ ChromeOwnsInput(s)
      <3>1. SynchronizeInteraction(s) = a
        BY <1>4, <2>1 DEF SynchronizeInteraction, CancelScrollBarInteraction
      <3> QED BY <1>2, <1>3, <1>4, <3>1 DEF Less, Same, Turning, Fields
    <2>2. CASE ~(Pressed(s, "bar") # No /\ ChromeOwnsInput(s))
      <3>1. SynchronizeInteraction(s) = s BY <1>4, <2>2 DEF SynchronizeInteraction
      <3>2. "bar" \in DOMAIN s.press => ~ChromeOwnsInput(s) BY <1>1, <2>2, PressedIsArmed
      <3>3. Less(s, s, {"press"}) BY <1>1, LessReflexive
      <3> QED BY <1>4, <3>1, <3>2, <3>3 DEF Same
    <2> QED BY <2>1, <2>2
  <1>5. CASE s.document # s.last
    <2>1. SynchronizeInteraction(s) = Turned(s) BY <1>5 DEF SynchronizeInteraction
    <2> HIDE DEF a
    <2>2. Less(a, b, {"context", "shell", "press", "aim", "effects"}) BY <1>3, ContextMenuDismissed
    <2>3. Sound(b) /\ Good(b, begun) /\ DOMAIN b.press \subseteq DOMAIN a.press
      BY <1>3, <2>2, StaysClosed, EasedGood DEF Less
    <2> HIDE DEF b
    <2>4. Less(b, c, {"emoji", "press", "aim"}) BY <2>3, EmojiClosed
    <2>5. Sound(c) /\ Good(c, begun) /\ DOMAIN c.press \subseteq DOMAIN b.press
      BY <2>3, <2>4, StaysClosed, EasedGood DEF Less
    <2>6. Turned(s) = t
      <3>1. CaptureFindOrigin(c) = d BY DEF CaptureFindOrigin
      <3>2. d.origin = d.document
        <4> HIDE DEF c
        <4> QED BY <2>5 DEF Sound, Typed, Fields
      <3>3. RunIncrementalFind(d) = d BY <3>2 DEF RunIncrementalFind
      <3> QED BY <3>1, <3>3 DEF Turned, CancelScrollBarInteraction, a, b
    <2>7. Same(s, c, Turning) BY <1>2, <2>2, <2>4 DEF Less, Same, Turning
    <2> HIDE DEF c
    <2>8. e = [f \in Fields |-> IF f = "origin" /\ c.find THEN c.document ELSE c[f]]
      BY <2>5 DEF Sound, Typed, Fields
    <2> HIDE DEF e
    <2>9. t = [f \in Fields |-> IF f = "last" THEN s.document
                                ELSE IF f = "origin" /\ c.find THEN c.document ELSE c[f]]
      BY <2>8 DEF Fields
    <2> HIDE DEF t
    <2>10. /\ Same(c, t, {"origin", "last"}) /\ t.last = s.document
           /\ t.find => t.origin = c.document
      BY <2>9 DEF Same, Fields
    <2>11. t.document = s.document /\ c.document = s.document
      BY <2>7, <2>10 DEF Same, Turning, Fields
    <2>12. Typed(t) BY <2>5, <2>9, <2>10 DEF Sound, Typed, Same, Fields
    <2>13. Same(c, t, Aside) /\ Searched(t) BY <2>10, <2>11 DEF Same, Aside, Searched
    <2>14. Good(t, begun) BY <2>5, <2>12, <2>13, Alike
    <2>15. Same(s, t, Turning) BY <2>7, <2>10 DEF Same, Turning
    <2>16. t.aim \in {s.aim, Nowhere}
      <3>1. a.aim = s.aim /\ t.aim = c.aim BY <1>2, <2>10 DEF Less, Same, Fields
      <3> QED BY <2>2, <2>4, <3>1 DEF Less, Eases, Keeps
    <2>17. "bar" \notin DOMAIN t.press
      BY <1>2, <2>3, <2>5, <2>10 DEF Same, Fields
    <2> QED BY <1>5, <2>1, <2>6, <2>10, <2>11, <2>14, <2>15, <2>16, <2>17
  <1> QED BY <1>4, <1>5

\* A handler starts with nothing asked for, and in the document on screen.
Ready(s) == Good(s, FALSE) /\ s.work = {} /\ s.document = s.last
Handled(s, t) ==
  /\ Good(t, Asked(t)) /\ t.last = s.last /\ t.held = s.held /\ t.lost = s.lost
  /\ t.captured => s.captured

LEMMA EasedReady ==
  ASSUME NEW s, NEW t, Ready(s), Eases(s, t)
  PROVE  Ready(t) /\ Handled(s, t)
  <1>1. Good(t, FALSE) /\ Frame(s, t) BY EasedGood, EasesFrame DEF Ready
  <1>2. ~Asked(t) BY <1>1 DEF Ready, Frame, Asked
  <1>3. Good(t, Asked(t)) BY <1>1, <1>2 DEF Good, Mid, Sure
  <1> QED BY <1>1, <1>3 DEF Ready, Frame, Handled

LEMMA EasedThenHandled ==
  ASSUME NEW s, NEW t, NEW u, Eases(s, t), Handled(t, u)
  PROVE  Handled(s, u)
  BY EasesFrame DEF Frame, Handled

LEMMA HandledThenEased ==
  ASSUME NEW s, NEW t, NEW u, Handled(s, t), Eases(t, u)
  PROVE  Handled(s, u)
  <1>1. Good(u, Asked(t)) /\ Frame(t, u) BY EasedGood, EasesFrame DEF Handled
  <1>2. Asked(u) = Asked(t) BY <1>1 DEF Frame, Asked
  <1> QED BY <1>1, <1>2 DEF Handled, Frame

LEMMA HandledGiven ==
  ASSUME NEW s, NEW t, NEW g, Handled(s, t)
  PROVE  Handled(s, Give(t, g)) /\ Same(t, Give(t, g), {"given"}) /\ Give(t, g).given = g
  <1> DEFINE u == Give(t, g)
  <1>1. Good(u, Asked(t)) /\ Same(t, u, {"given"}) /\ u.given = g
    BY GivenGood DEF Handled, Give
  <1> HIDE DEF u
  <1>2. Asked(u) = Asked(t) /\ u.last = t.last /\ u.held = t.held /\ u.lost = t.lost
        /\ u.captured = t.captured
    BY <1>1 DEF Same, Fields, Asked
  <1>3. Handled(s, u) BY <1>1, <1>2 DEF Handled
  <1>4. Handled(s, u) /\ Same(t, u, {"given"}) /\ u.given = g BY <1>1, <1>3
  <1> QED BY <1>4 DEF u

LEMMA OutcomesHandled ==
  ASSUME NEW s, Ready(s), NEW t \in Outcomes(s)
  PROVE  Handled(s, t) /\ Same(s, t, {"prompts", "tentative", "aim", "document", "work"})
  BY OutcomesGood DEF Ready, Handled, Same, Fields

\* Where no card is up, what a begun prompt may excuse is not excused.
LEMMA Completed ==
  ASSUME NEW s, Good(s, TRUE), Apart(s), Top(s) = No
  PROVE  Good(s, FALSE)
  <1>1. Sound(s) BY DEF Good, Mid
  <1>2. s.errors = 0 /\ s.spell = "closed" /\ s.prompts = {} BY <1>1, TopCards
  <1>3. OnlyTop(s) BY <1>2 DEF OnlyTop
  <1>4. Live(s) \cap Prompts = {} BY <1>1, <1>2 DEF Live, Sound, Linked, Prompts
  <1>5. Sure(s, FALSE) BY <1>4 DEF Good, Sure
  <1> QED BY <1>3, <1>5 DEF Good, Mid

\* The find field takes the keyboard from nobody who composes.
LEMMA FieldTakes ==
  ASSUME NEW s, NEW t, NEW begun, Good(s, begun), ~s.emoji, ~s.tentative, Typed(t),
         Same(s, t, {"focused", "preedit", "find", "origin"}), ~t.preedit, Searched(t)
  PROVE  Good(t, begun)
  <1>1. /\ t.errors = s.errors /\ t.spell = s.spell /\ t.word = s.word /\ t.prompts = s.prompts
        /\ t.menu = s.menu /\ t.context = s.context /\ t.shell = s.shell /\ t.popup = s.popup
        /\ t.emoji = s.emoji /\ t.tentative = s.tentative
        /\ t.captured = s.captured /\ t.held = s.held /\ t.lost = s.lost
        /\ t.press = s.press /\ t.loose = s.loose /\ t.aim = s.aim
        /\ t.effects = s.effects /\ t.misfired = s.misfired
    BY DEF Same, Fields
  <1>2. Popped(t) /\ Linked(t) /\ Composed(t)
    BY <1>1 DEF Good, Mid, Sound, Popped, Linked, Composed
  <1>3. Top(t) = Top(s) BY <1>1 DEF Top
  <1>4. Held(t) BY <1>1 DEF Good, Mid, Held, Pressed, Dragging
  <1>5. Apart(s) => Apart(t) BY <1>1, <1>3 DEF Apart
  <1>6. OnlyTop(s) => OnlyTop(t) BY <1>1 DEF OnlyTop
  <1>7. Mid(t, begun) BY <1>1, <1>2, <1>4, <1>5, <1>6 DEF Good, Mid, Sound, Searched
  <1>8. Live(t) = Live(s) BY <1>1 DEF Live
  <1>9. Sure(t, begun) BY <1>1, <1>8 DEF Good, Sure
  <1> QED BY <1>7, <1>9 DEF Good

LEMMA SearchRun ==
  ASSUME NEW s, NEW begun, Good(s, begun)
  PROVE  LET t == RunIncrementalFind(s) IN Good(t, begun) /\ Same(s, t, {"origin"})
  <1> DEFINE t == [s EXCEPT !.origin = s.document]
  <1>1. CASE s.find /\ s.origin # s.document
    <2>1. RunIncrementalFind(s) = t BY <1>1 DEF RunIncrementalFind, CaptureFindOrigin
    <2>2. Typed(t) /\ Same(s, t, {"origin"}) /\ t.origin = s.document
      BY DEF Good, Mid, Sound, Typed, Fields, Same
    <2> HIDE DEF t
    <2>3. Same(s, t, Aside) /\ Searched(t) BY <2>2 DEF Same, Aside, Searched, Fields
    <2> QED BY <2>1, <2>2, <2>3, Alike
  <1>2. CASE ~(s.find /\ s.origin # s.document)
    <2>1. RunIncrementalFind(s) = s BY <1>2 DEF RunIncrementalFind
    <2> QED BY <2>1 DEF Same
  <1> QED BY <1>1, <1>2

LEMMA FindBarOpened ==
  ASSUME NEW s, Ready(s)
  PROVE  Handled(s, OpenFindBar(s)) /\ Ready(OpenFindBar(s))
  <1> DEFINE a == CancelTextInput(s)
             b == CloseEmojiCompletion(a)
             c == [[b EXCEPT !.focused = TRUE, !.preedit = FALSE] EXCEPT !.find = TRUE]
             t == [c EXCEPT !.origin = c.document]
  <1>1. Sound(s) BY DEF Ready, Good, Mid
  <1>2. Less(s, a, {"tentative"}) /\ ~a.tentative BY <1>1, Cancelled
  <1>3. Ready(a) /\ Sound(a) BY <1>2, EasedReady, StaysClosed DEF Less
  <1> HIDE DEF a
  <1>4. Less(a, b, {"emoji", "press", "aim"}) /\ ~b.emoji BY <1>3, EmojiClosed
  <1>5. Sound(b) /\ ~b.tentative /\ Ready(b) BY <1>2, <1>3, <1>4, StaysClosed, EasedReady DEF Less
  <1>6. OpenFindBar(s) = t
    <2>1. SetFocused(b, TRUE) = [b EXCEPT !.focused = TRUE, !.preedit = FALSE] BY DEF SetFocused
    <2>2. t.origin = t.document
      <3> HIDE DEF b
      <3>1. t = [f \in Fields |-> IF f \in {"focused", "find"} THEN TRUE
                                  ELSE IF f = "preedit" THEN FALSE
                                  ELSE IF f = "origin" THEN c.document ELSE b[f]]
        BY <1>5 DEF Sound, Typed, Fields
      <3>2. c.document = b.document BY <1>5 DEF Sound, Typed, Fields
      <3> HIDE DEF t, c
      <3> QED BY <3>1, <3>2 DEF Fields
    <2>3. RunIncrementalFind(t) = t BY <2>2 DEF RunIncrementalFind
    <2> QED BY <2>1, <2>3 DEF OpenFindBar, CaptureFindOrigin, a
  <1> HIDE DEF b
  <1>7. t = [f \in Fields |-> IF f \in {"focused", "find"} THEN TRUE
                              ELSE IF f = "preedit" THEN FALSE
                              ELSE IF f = "origin" THEN b.document ELSE b[f]]
    <2>1. c.document = b.document BY <1>5 DEF Sound, Typed, Fields
    <2> QED BY <1>5, <2>1 DEF Sound, Typed, Fields
  <1> HIDE DEF t, c
  <1>8. /\ Same(b, t, {"focused", "preedit", "find", "origin"})
        /\ ~t.preedit /\ t.origin = b.document
    BY <1>7 DEF Same, Fields
  <1>9. Typed(t) BY <1>5, <1>7, <1>8 DEF Sound, Typed, Same, Fields
  <1>10. Searched(t) BY <1>8 DEF Searched, Same, Fields
  <1>11. Good(t, FALSE) BY <1>4, <1>5, <1>8, <1>9, <1>10, FieldTakes DEF Ready
  <1>12. /\ t.work = b.work /\ t.document = b.document /\ t.last = b.last
         /\ t.held = b.held /\ t.lost = b.lost /\ t.captured = b.captured
    BY <1>8 DEF Same, Fields
  <1>13. Ready(t) /\ ~Asked(t) BY <1>5, <1>11, <1>12 DEF Ready, Asked
  <1>14. Handled(b, t) BY <1>12, <1>13 DEF Handled, Ready, Good, Mid, Sure
  <1>15. Handled(s, t) BY <1>2, <1>4, <1>14, EasedThenHandled DEF Less
  <1> QED BY <1>6, <1>13, <1>15

LEMMA SpellcheckOpened ==
  ASSUME NEW s, Ready(s), Top(s) = No
  PROVE  Handled(s, OpenSpellcheck(s)) /\ Ready(OpenSpellcheck(s))
  <1> DEFINE m == [s EXCEPT !.spell = "loading", !.control = "no"]
             a == DismissOpenMenu(m)
             b == DismissContextMenu(a)
             c == CloseEmojiCompletion(b)
             d == CloseFindBar(c)
             e == CancelTextInput(d)
             t == Drop(e, {"bar"})
  <1>1. Sound(s) /\ Good(s, FALSE) BY DEF Ready, Good, Mid
  <1>2. s.errors = 0 /\ s.spell = "closed" /\ s.prompts = {} BY <1>1, TopCards
  <1>3. m = [f \in Fields |-> IF f = "spell" THEN "loading"
                              ELSE IF f = "control" THEN "no" ELSE s[f]]
    BY <1>1 DEF Sound, Typed, Fields
  <1>4. CloseSpellcheck(s) = s BY <1>2 DEF CloseSpellcheck
  <1> HIDE DEF m
  <1>5. Same(s, m, {"spell", "control"}) /\ m.spell = "loading" BY <1>3 DEF Same, Fields
  <1>6. Typed(m) BY <1>1, <1>3, <1>5 DEF Sound, Typed, Same, Fields
  <1>7. Sound(m)
    <2>1. ~s.word BY <1>1, <1>2 DEF Sound, Composed
    <2> QED BY <1>1, <1>5, <1>6, <2>1 DEF Sound, Popped, Linked, Composed, Same, Fields
  <1>8. Mid(m, TRUE)
    <2>1. Held(m) BY <1>1, <1>5 DEF Good, Mid, Held, Pressed, Dragging, Same, Fields
    <2> QED BY <1>1, <1>2, <1>5, <1>7, <2>1 DEF Good, Mid, Same, Fields
  <1>9. /\ m.press = s.press /\ m.loose = s.loose /\ m.aim = s.aim /\ m.held = s.held
        /\ m.prompts = s.prompts /\ m.errors = s.errors
    BY <1>5 DEF Same, Fields
  <1>10. Live(m) = Live(s) BY <1>9 DEF Live
  <1>11. Good(m, TRUE) BY <1>1, <1>8, <1>9, <1>10 DEF Good, Sure
  <1>12. Less(m, a, {"menu", "press", "aim"}) /\ a.menu = No BY <1>7, OpenMenuDismissed
  <1>13. Sound(a) BY <1>12, StaysClosed
  <1> HIDE DEF a
  <1>14. Less(a, b, {"context", "shell", "press", "aim", "effects"}) /\ ~b.context
    BY <1>13, ContextMenuDismissed
  <1>15. Sound(b) /\ b.menu = No BY <1>12, <1>14, StaysClosed
  <1> HIDE DEF b
  <1>16. Less(b, c, {"emoji", "press", "aim"}) /\ ~c.emoji BY <1>15, EmojiClosed
  <1>17. Sound(c) /\ c.menu = No /\ ~c.context BY <1>14, <1>15, <1>16, StaysClosed
  <1> HIDE DEF c
  <1>18. Eases(c, d) BY <1>17, FindBarClosed DEF Less
  <1>19. Sound(d) /\ d.menu = No /\ ~d.context /\ ~d.emoji
    BY <1>16, <1>17, <1>18 DEF Eases, Calms
  <1> HIDE DEF d
  <1>20. Less(d, e, {"tentative"}) /\ ~e.tentative BY <1>19, Cancelled
  <1>21. Sound(e) /\ e.menu = No /\ ~e.context /\ ~e.emoji BY <1>19, <1>20, StaysClosed
  <1> HIDE DEF e
  <1>22. Less(e, t, {"press"}) BY <1>21, Dropped
  <1>23. t.menu = No /\ ~t.context /\ ~t.emoji /\ ~t.tentative
    BY <1>20, <1>21, <1>22, StaysClosed
  <1> HIDE DEF t
  <1>24. Eases(m, c) BY <1>12, <1>14, <1>16, EasesTransitive DEF Less
  <1>25. Eases(m, t) BY <1>18, <1>20, <1>22, <1>24, EasesTransitive DEF Less
  <1>26. OpenSpellcheck(s) = t
    BY <1>4 DEF OpenSpellcheck, CancelScrollBarInteraction, t, e, d, c, b, a, m
  <1>27. Good(t, TRUE) /\ Frame(m, t) BY <1>11, <1>25, EasedGood, EasesFrame
  <1>28. Apart(t) BY <1>23 DEF Apart
  <1>29. t.prompts = {} /\ ~(t.errors > 0) BY <1>2, <1>9, <1>25 DEF Eases, Calms
  <1>30. OnlyTop(t) BY <1>29 DEF OnlyTop
  <1>31. Live(t) \cap Prompts = {}
    BY <1>27, <1>29 DEF Live, Good, Mid, Sound, Linked, Prompts
  <1>32. Good(t, FALSE) BY <1>27, <1>28, <1>30, <1>31 DEF Good, Mid, Sure
  <1>33. /\ t.work = s.work /\ t.document = s.document /\ t.last = s.last /\ t.held = s.held
         /\ t.lost = s.lost /\ (t.captured => s.captured)
    BY <1>5, <1>27 DEF Frame, Same, Fields
  <1>34. Ready(t) /\ ~Asked(t) BY <1>32, <1>33 DEF Ready, Asked
  <1>35. Handled(s, t) BY <1>32, <1>33, <1>34 DEF Handled, Good, Mid, Sure
  <1> QED BY <1>26, <1>34, <1>35

LEMMA CommandsHandled ==
  ASSUME NEW s, Ready(s), Top(s) = No, NEW t \in Commands(s)
  PROVE  Handled(s, t)
  BY OutcomesHandled, FindBarOpened, SpellcheckOpened DEF Commands

LEMMA ContextMenuOpened ==
  ASSUME NEW s, Ready(s), Top(s) = No
  PROVE  Handled(s, OpenContextMenu(s)) /\ Ready(OpenContextMenu(s))
  <1> DEFINE a == DismissContextMenu(s)
             b == DismissOpenMenu(a)
             c == CloseEmojiCompletion(b)
             d == CancelTextInput(c)
             e == BlurFindField(d)
             g == Drop(e, {"bar"})
             q == Append(g.effects, "show")
             t == [g EXCEPT !.context = TRUE, !.shell = TRUE, !.effects = q]
  <1>1. Sound(s) /\ Good(s, FALSE) BY DEF Ready, Good, Mid
  <1>2. Less(s, a, {"context", "shell", "press", "aim", "effects"})
        /\ "context" \notin DOMAIN a.press
    BY <1>1, ContextMenuDismissed
  <1>3. Sound(a) BY <1>2, StaysClosed
  <1> HIDE DEF a
  <1>4. Less(a, b, {"menu", "press", "aim"}) /\ b.menu = No BY <1>3, OpenMenuDismissed
  <1>5. Sound(b) /\ "context" \notin DOMAIN b.press BY <1>2, <1>4, StaysClosed
  <1> HIDE DEF b
  <1>6. Less(b, c, {"emoji", "press", "aim"}) /\ ~c.emoji BY <1>5, EmojiClosed
  <1>7. Sound(c) /\ c.menu = No /\ "context" \notin DOMAIN c.press
    BY <1>4, <1>5, <1>6, StaysClosed
  <1> HIDE DEF c
  <1>8. Less(c, d, {"tentative"}) /\ ~d.tentative BY <1>7, Cancelled
  <1>9. Sound(d) /\ d.menu = No /\ ~d.emoji /\ "context" \notin DOMAIN d.press
    BY <1>6, <1>7, <1>8, StaysClosed
  <1> HIDE DEF d
  <1>10. Less(d, e, {"focused", "preedit", "press"}) BY <1>9, Blurred
  <1>11. Sound(e) /\ e.menu = No /\ ~e.emoji /\ ~e.tentative /\ "context" \notin DOMAIN e.press
    BY <1>8, <1>9, <1>10, StaysClosed
  <1> HIDE DEF e
  <1>12. Less(e, g, {"press"}) BY <1>11, Dropped
  <1>13. Sound(g) /\ g.menu = No /\ ~g.emoji /\ ~g.tentative /\ "context" \notin DOMAIN g.press
    BY <1>11, <1>12, StaysClosed
  <1>14. OpenContextMenu(s) = t
    BY DEF OpenContextMenu, CancelScrollBarInteraction, t, q, g, e, d, c, b, a
  <1> HIDE DEF g
  <1>15. Eases(s, d) BY <1>2, <1>4, <1>6, <1>8, EasesTransitive DEF Less
  <1>16. Eases(s, g) BY <1>10, <1>12, <1>15, EasesTransitive DEF Less
  <1>17. Ready(g) /\ Good(g, FALSE) BY <1>16, EasedReady DEF Ready
  <1>18. Top(g) = No BY <1>1, <1>13, <1>16, ChromeShrinks DEF Eases
  <1>19. g.effects \in Seq({"show", "close"}) BY <1>13 DEF Sound, Typed
  <1>20. /\ q \in Seq({"show", "close"}) /\ q # << >> /\ q[Len(q)] = "show"
    BY <1>19
  <1> HIDE DEF q
  <1>21. t = [f \in Fields |-> IF f \in {"context", "shell"} THEN TRUE
                               ELSE IF f = "effects" THEN q ELSE g[f]]
    BY <1>13 DEF Sound, Typed, Fields
  <1> HIDE DEF t
  <1>22. Same(g, t, {"context", "shell", "effects"}) /\ t.context = TRUE /\ t.shell = TRUE
         /\ t.effects = q
    BY <1>21 DEF Same, Fields
  <1>23. Typed(t) BY <1>13, <1>20, <1>21, <1>22 DEF Sound, Typed, Same, Fields
  <1>24. Popped(t) BY <1>20, <1>22 DEF Popped
  <1>25. /\ t.errors = g.errors /\ t.spell = g.spell /\ t.word = g.word /\ t.prompts = g.prompts
         /\ t.menu = g.menu /\ t.find = g.find /\ t.focused = g.focused /\ t.preedit = g.preedit
         /\ t.origin = g.origin /\ t.emoji = g.emoji /\ t.tentative = g.tentative
         /\ t.captured = g.captured /\ t.held = g.held /\ t.lost = g.lost
         /\ t.document = g.document /\ t.last = g.last /\ t.press = g.press
         /\ t.loose = g.loose /\ t.aim = g.aim
         /\ t.misfired = g.misfired /\ t.work = g.work
    BY <1>22 DEF Same, Fields
  <1>26. Linked(t) /\ Composed(t) BY <1>13, <1>25 DEF Sound, Linked, Composed
  <1>27. Top(t) = No BY <1>18, <1>25 DEF Top
  <1>28. Apart(t) BY <1>13, <1>25, <1>27 DEF Apart
  <1>29. Held(t) BY <1>17, <1>25 DEF Good, Mid, Held, Pressed, Dragging
  <1>30. Mid(t, TRUE)
    BY <1>17, <1>23, <1>24, <1>25, <1>26, <1>29 DEF Good, Mid, Sound
  <1>31. Live(t) = Live(g) BY <1>25 DEF Live
  <1>32. Good(t, TRUE) BY <1>17, <1>25, <1>30, <1>31 DEF Good, Sure
  <1>33. Good(t, FALSE) BY <1>27, <1>28, <1>32, Completed
  <1>34. Ready(t) /\ ~Asked(t) BY <1>17, <1>25, <1>33 DEF Ready, Asked
  <1>35. Handled(g, t) BY <1>25, <1>33, <1>34 DEF Handled, Good, Mid, Sure
  <1>36. Handled(s, t) BY <1>16, <1>35, EasedThenHandled
  <1> QED BY <1>14, <1>34, <1>36

LEMMA EmojiRefreshed ==
  ASSUME NEW s, Ready(s), NEW t \in RefreshEmojiCompletion(s)
  PROVE  Handled(s, t)
  <1> DEFINE d == Drop(s, {"emoji"})
             m == [d EXCEPT !.emoji = TRUE]
             u == Spoil(m, {"emoji"})
  <1>1. Sound(s) /\ Good(s, FALSE) BY DEF Ready, Good, Mid
  <1>2. CASE t = CloseEmojiCompletion(s)
    BY <1>1, <1>2, EmojiClosed, EasedReady DEF Less
  <1>3. CASE t = u /\ ~ChromeOwnsInput(s) /\ ~s.focused /\ ~s.tentative
    <2>1. Less(s, d, {"press"}) /\ DOMAIN d.press = DOMAIN s.press \ {"emoji"} BY <1>1, Dropped
    <2>2. Ready(d) /\ Handled(s, d) /\ Sound(d) BY <2>1, EasedReady, StaysClosed DEF Less
    <2>3. ~ChromeOwnsInput(d) BY <1>1, <1>3, <2>1, <2>2, ChromeShrinks DEF Less, Eases
    <2>4. ~d.focused /\ ~d.tentative BY <1>3, <2>1 DEF Less, Same, Fields
    <2> HIDE DEF d
    <2>5. Typed(m) /\ Same(d, m, {"emoji"}) /\ m.emoji = TRUE
      BY <2>2 DEF Sound, Typed, Same, Fields
    <2> HIDE DEF m
    <2>6. /\ m.errors = d.errors /\ m.spell = d.spell /\ m.word = d.word /\ m.prompts = d.prompts
          /\ m.menu = d.menu /\ m.context = d.context /\ m.shell = d.shell /\ m.popup = d.popup
          /\ m.find = d.find /\ m.focused = d.focused /\ m.preedit = d.preedit
          /\ m.origin = d.origin /\ m.tentative = d.tentative
          /\ m.captured = d.captured /\ m.held = d.held /\ m.lost = d.lost
          /\ m.document = d.document /\ m.last = d.last /\ m.press = d.press
          /\ m.loose = d.loose /\ m.aim = d.aim
          /\ m.effects = d.effects /\ m.misfired = d.misfired /\ m.work = d.work
      BY <2>5 DEF Same, Fields
    <2>7. Popped(m) /\ Linked(m) /\ Composed(m)
      BY <2>2, <2>5, <2>6 DEF Sound, Popped, Linked, Composed
    <2>8. Top(m) = Top(d) /\ ~ChromeOwnsInput(m) BY <2>3, <2>6 DEF Top, ChromeOwnsInput
    <2>9. Held(m) BY <2>2, <2>6 DEF Ready, Good, Mid, Held, Pressed, Dragging
    <2>10. Apart(m) BY <2>4, <2>6, <2>8 DEF Apart, Field, ChromeOwnsInput
    <2>11. OnlyTop(m) BY <2>2, <2>6 DEF Ready, Good, Mid, OnlyTop
    <2>12. Mid(m, FALSE)
      BY <2>2, <2>5, <2>6, <2>7, <2>9, <2>10, <2>11 DEF Ready, Good, Mid, Sound
    <2>13. Live(m) = Live(d) BY <2>6 DEF Live
    <2>14. Good(m, FALSE) BY <2>2, <2>6, <2>12, <2>13 DEF Ready, Good, Sure
    <2>15. Ready(m) BY <2>2, <2>6, <2>14 DEF Ready
    <2>16. "emoji" \notin Live(m) BY <2>1, <2>6 DEF Live
    <2>17. Handled(m, u) BY <2>12, <2>15, <2>16, SpoiledEases, EasedReady DEF Less, Mid
    <2>18. Handled(s, u)
      BY <2>2, <2>6, <2>17 DEF Handled
    <2> QED BY <1>3, <2>18
  <1>4. t = CloseEmojiCompletion(s)
        \/ (t = u /\ ~ChromeOwnsInput(s) /\ ~s.focused /\ ~s.tentative)
    BY DEF RefreshEmojiCompletion
  <1> QED BY <1>2, <1>3, <1>4

-----------------------------------------------------------------------------
(* A button goes down *)

\* What was armed may be fired no more, but for one owner's press.
Pressing(s, owner) ==
  /\ Mid(s, FALSE) /\ s.work = {} /\ s.document = s.last
  /\ s.held /\ s.aim = Nowhere /\ (s.captured => s.lost)
  /\ Live(s) \subseteq {owner}

LEMMA LiveOwners ==
  ASSUME NEW s, Sound(s), NEW o \in Live(s)
  PROVE  o \in Cards \cup {"emoji", "context", "menu", "find"}
  BY DEF Live, Sound, Typed, Linked, Cards

LEMMA PressingNone ==
  ASSUME NEW s, NEW o, Pressing(s, o), o \notin Live(s)
  PROVE  Live(s) = {} /\ Ready(s)
  <1>1. Live(s) = {} BY DEF Pressing
  <1> QED BY <1>1 DEF Pressing, Ready, Good, Sure

LEMMA EasedPressing ==
  ASSUME NEW s, NEW t, NEW o, Pressing(s, o), Eases(s, t)
  PROVE  Pressing(t, o) /\ (o \notin Live(t) => Ready(t) /\ Handled(s, t))
  <1>1. Mid(t, FALSE) BY EasedMid DEF Pressing
  <1>2. Frame(s, t) /\ t.aim = Nowhere BY EasesFrame DEF Eases, Keeps, Pressing
  <1>3. Live(t) \subseteq Live(s) BY LiveShrinks DEF Eases
  <1>4. Pressing(t, o) BY <1>1, <1>2, <1>3 DEF Pressing, Frame
  <1>5. ASSUME o \notin Live(t) PROVE Ready(t) /\ Handled(s, t)
    <2>1. Ready(t) BY <1>4, <1>5, PressingNone
    <2>2. ~Asked(t) BY <2>1 DEF Ready, Asked
    <2> QED BY <1>2, <2>1, <2>2 DEF Ready, Handled, Frame, Good, Mid, Sure
  <1> QED BY <1>4, <1>5

\* What a press may arm: a control that is there, of what is on top.
MayArm(s, owner, control) ==
  /\ owner = "error" => s.errors > 0
  /\ owner = "spell" => s.spell # "closed" /\ s.errors = 0
  /\ owner \in Prompts => owner = Top(s)
  /\ owner = "emoji" => s.emoji /\ ~s.captured /\ ~Dragging(s)
  /\ owner = "bar" => "emoji" \notin DOMAIN s.press
  /\ control = "item" => owner = "context" /\ s.context
  /\ control = "entry" => owner = "menu" /\ s.menu # No /\ ~s.captured

LEMMA ArmedGood ==
  ASSUME NEW s, NEW begun, Mid(s, begun), NEW owner, NEW control, control # No,
         s.captured => s.lost, Live(s) \subseteq {owner}, MayArm(s, owner, control)
  PROVE  /\ Good(Arm(s, owner, control), begun)
         /\ Same(s, Arm(s, owner, control), {"press", "aim", "loose"})
  <1> DEFINE p == [o \in DOMAIN s.press \cup {owner} |->
                     IF o = owner THEN control ELSE s.press[o]]
             q == <<owner, control>>
             l == s.loose \ {owner}
             t == [s EXCEPT !.press = p, !.aim = q, !.loose = l]
  <1>1. Sound(s) BY DEF Mid
  <1>2. Arm(s, owner, control) = t BY DEF Arm
  <1>3. /\ DOMAIN p = DOMAIN s.press \cup {owner} /\ p[owner] = control
        /\ \A o \in DOMAIN s.press : o # owner => p[o] = s.press[o]
        /\ \A o \in s.loose : o # owner => o \in l
        /\ l \subseteq {"find", "spell"}
    BY <1>1 DEF Sound, Typed
  <1> HIDE DEF p, q, l
  <1>4. t = [f \in Fields |-> IF f = "press" THEN p ELSE IF f = "aim" THEN q
                              ELSE IF f = "loose" THEN l ELSE s[f]]
    BY <1>1 DEF Sound, Typed, Fields
  <1> HIDE DEF t
  <1>5. Same(s, t, {"press", "aim", "loose"}) /\ t.press = p /\ t.aim = q /\ t.loose = l
    BY <1>4 DEF Same, Fields
  <1>6. Typed(t) BY <1>1, <1>3, <1>4, <1>5 DEF Sound, Typed, Same, Fields
  <1>7. /\ t.errors = s.errors /\ t.spell = s.spell /\ t.word = s.word /\ t.prompts = s.prompts
        /\ t.menu = s.menu /\ t.context = s.context /\ t.shell = s.shell /\ t.popup = s.popup
        /\ t.find = s.find /\ t.focused = s.focused /\ t.preedit = s.preedit
        /\ t.origin = s.origin /\ t.emoji = s.emoji /\ t.tentative = s.tentative
        /\ t.captured = s.captured /\ t.lost = s.lost
        /\ t.document = s.document /\ t.last = s.last
        /\ t.effects = s.effects /\ t.misfired = s.misfired
    BY <1>5 DEF Same, Fields
  <1>8. Popped(t) /\ Composed(t) BY <1>1, <1>7 DEF Sound, Popped, Composed
  <1>9. Linked(t)
    BY <1>1, <1>3, <1>5, <1>7 DEF MayArm, Sound, Linked
  <1>10. Top(t) = Top(s) BY <1>7 DEF Top
  <1>11. Apart(s) => Apart(t) BY <1>7, <1>10 DEF Apart, Field, ChromeOwnsInput
  <1>12. OnlyTop(s) => OnlyTop(t)
    <2>1. owner \in Prompts => owner = Top(s) BY DEF MayArm
    <2>2. s.prompts \subseteq Prompts BY <1>1 DEF Sound, Typed
    <2>3. owner \in Prompts => s.errors = 0 /\ s.spell = "closed"
      BY <1>1, <2>1, TopCards DEF Prompts
    <2>4. owner \in Prompts /\ "external" \in s.prompts => owner = "external"
      BY <1>1, <2>1, TopCards DEF Prompts
    <2>5. owner \in Prompts /\ "large" \in s.prompts => owner \in {"external", "large"}
      BY <1>1, <2>1, TopCards DEF Prompts
    <2>6. DOMAIN t.press \cap t.prompts \subseteq
            (DOMAIN s.press \cap s.prompts) \cup ({owner} \cap Prompts)
      BY <1>3, <1>5, <1>7, <2>2
    <2>7. SUFFICES ASSUME OnlyTop(s) PROVE OnlyTop(t) OBVIOUS
    <2>8. s.errors > 0 => s.errors # 0 OBVIOUS
    <2>9. t.errors > 0 \/ t.spell # "closed" => DOMAIN t.press \cap t.prompts = {}
      BY <1>7, <2>3, <2>6, <2>7, <2>8 DEF OnlyTop
    <2>10. "external" \in t.prompts => DOMAIN t.press \cap t.prompts \subseteq {"external"}
      BY <1>7, <2>4, <2>6, <2>7 DEF OnlyTop
    <2>11. "large" \in t.prompts => DOMAIN t.press \cap t.prompts \subseteq {"external", "large"}
      BY <1>7, <2>5, <2>6, <2>7 DEF OnlyTop
    <2> QED BY <2>9, <2>10, <2>11 DEF OnlyTop
  <1>13. Held(t)
    <2>1. t.captured => Pressed(t, "menu") # "entry"
      BY <1>3, <1>5, <1>7 DEF Mid, Held, MayArm, Pressed, No
    <2>2. t.captured => "emoji" \notin DOMAIN t.press
      BY <1>3, <1>5, <1>7 DEF Mid, Held, MayArm
    <2>3. t.captured /\ ~t.lost => t.aim = Nowhere BY <1>7
    <2>4. Dragging(t) => "emoji" \notin DOMAIN t.press
      <3>1. CASE owner = "bar" BY <1>3, <1>5, <3>1 DEF MayArm
      <3>2. CASE owner # "bar"
        <4>1. Dragging(t) => Dragging(s) BY <1>3, <1>5, <3>2 DEF Dragging, Pressed
        <4> QED BY <1>3, <1>5, <4>1 DEF MayArm, Mid, Held
      <3> QED BY <3>1, <3>2
    <2> QED BY <2>1, <2>2, <2>3, <2>4 DEF Held
  <1>14. t.errors > 0 => "spell" \notin DOMAIN t.press
    BY <1>3, <1>5, <1>7 DEF Mid, MayArm
  <1>15. Mid(t, begun)
    BY <1>6, <1>7, <1>8, <1>9, <1>11, <1>12, <1>13, <1>14 DEF Mid, Sound
  <1>16. \A o \in Live(t) : o = owner
    <2> SUFFICES ASSUME NEW o \in Live(t), o # owner PROVE FALSE OBVIOUS
    <2>1. o \in DOMAIN s.press /\ t.press[o] = s.press[o] /\ o \notin s.loose
      BY <1>3, <1>5 DEF Live
    <2>2. o \in Live(s) BY <1>7, <2>1 DEF Live
    <2> QED BY <2>2
  <1>17. Sure(t, begun) BY <1>3, <1>5, <1>16 DEF Sure, q
  <1> QED BY <1>2, <1>5, <1>15, <1>17 DEF Good

LEMMA Armed ==
  ASSUME NEW s, NEW owner, NEW control, control # No,
         Pressing(s, owner), MayArm(s, owner, control)
  PROVE  LET t == Arm(s, owner, control) IN
         Handled(s, t) /\ Ready(t) /\ Same(s, t, {"press", "aim", "loose"})
  <1> DEFINE t == Arm(s, owner, control)
  <1>1. Good(t, FALSE) /\ Same(s, t, {"press", "aim", "loose"}) BY ArmedGood DEF Pressing
  <1> HIDE DEF t
  <1>2. /\ t.work = s.work /\ t.document = s.document /\ t.last = s.last /\ t.held = s.held
        /\ t.lost = s.lost /\ t.captured = s.captured
    BY <1>1 DEF Same, Fields
  <1>3. Ready(t) /\ ~Asked(t) BY <1>1, <1>2 DEF Ready, Pressing, Asked
  <1>4. Handled(s, t) BY <1>1, <1>2, <1>3 DEF Handled, Good, Mid, Sure
  <1>5. Handled(s, t) /\ Ready(t) /\ Same(s, t, {"press", "aim", "loose"})
    BY <1>1, <1>3, <1>4
  <1> QED BY <1>5 DEF t

\* A press beside the controls of a card disarms it.
LEMMA Disarmed ==
  ASSUME NEW s, NEW owner, Pressing(s, owner)
  PROVE  Handled(s, Arm(s, owner, No))
  <1> DEFINE d == Drop(s, {owner})
             t == [d EXCEPT !.aim = Nowhere]
  <1>1. Sound(s) BY DEF Pressing, Mid
  <1>2. Less(s, d, {"press"}) /\ owner \notin DOMAIN d.press BY <1>1, Dropped
  <1>3. Ready(d) /\ Handled(s, d) /\ Pressing(d, owner)
    BY <1>2, EasedPressing DEF Less, Live
  <1>4. Arm(s, owner, No) = t BY DEF Arm, Nowhere
  <1> HIDE DEF d
  <1>5. t = d BY <1>3 DEF Pressing, Mid, Sound, Typed, Fields
  <1> QED BY <1>3, <1>4, <1>5

-----------------------------------------------------------------------------
(* The menus, and what a field or the editor composes *)

\* Another menu takes the place of the open one, and nothing in it is armed.
LEMMA MenuMoved ==
  ASSUME NEW s, Sound(s), s.menu # No, NEW m \in Headings
  PROVE  Less(s, OpenMenuFromKeyboard(s, m), {"menu", "press", "aim"})
  <1> DEFINE d == Drop(s, {"menu"})
             a == [d EXCEPT !.menu = m]
             t == Spoil(a, {"menu"})
  <1>1. Less(s, d, {"press"}) /\ "menu" \notin DOMAIN d.press /\ Sound(d)
    BY Dropped, StaysClosed
  <1>2. m # No BY DEF Headings, No
  <1> HIDE DEF d
  <1>3. Typed(a) /\ Same(d, a, {"menu"}) /\ a.menu = m
    BY <1>1 DEF Same, Fields, Sound, Typed
  <1> HIDE DEF a
  <1>4. Sound(a) BY <1>1, <1>2, <1>3 DEF Same, Fields, Sound, Popped, Linked, Composed
  <1>5. d.menu # No BY <1>1 DEF Less, Same, Fields
  <1>6. Less(d, a, {"menu"}) BY <1>3, <1>4, <1>5 DEF Less, Eases, Same, Fields, Calms, Keeps
  <1>7. "menu" \notin Live(a) BY <1>1, <1>3 DEF Live, Same, Fields
  <1>8. Less(a, t, {"aim"}) BY <1>4, <1>7, SpoiledEases
  <1>9. Less(s, a, {"menu", "press"}) BY <1>1, <1>6, LessTransitive
  <1>10. Less(s, t, {"menu", "press", "aim"}) BY <1>8, <1>9, LessTransitive
  <1> QED BY <1>10 DEF OpenMenuFromKeyboard, t, a, d

\* The headings are set with the presses kept, as a press on one does.
LEMMA HeadingChanged ==
  ASSUME NEW s, Sound(s), s.menu # No, NEW m \in Headings
  PROVE  LET t == [s EXCEPT !.menu = m] IN Less(s, t, {"menu"}) /\ t.menu = m
  <1> DEFINE t == [s EXCEPT !.menu = m]
  <1>1. m # No BY DEF Headings, No
  <1>2. Typed(t) /\ Same(s, t, {"menu"}) /\ t.menu = m
    BY DEF Same, Fields, Sound, Typed
  <1> HIDE DEF t
  <1>3. Sound(t) BY <1>1, <1>2 DEF Same, Fields, Sound, Popped, Linked, Composed
  <1>4. Less(s, t, {"menu"}) /\ t.menu = m
    BY <1>2, <1>3 DEF Less, Eases, Same, Fields, Calms, Keeps
  <1> QED BY <1>4 DEF t

LEMMA MenuOpens ==
  ASSUME NEW s, Sound(s)
  PROVE  LET t == MenuOpened(s) IN
         /\ Less(s, t, Closing)
         /\ ~t.context /\ ~t.tentative /\ ~Field(t) /\ t.menu = s.menu
  <1> DEFINE b == DismissContextMenu(s)
             c == CancelTextInput(b)
             e == BlurFindField(c)
             t == Drop(e, {"bar"})
  <1>1. Less(s, b, {"context", "shell", "press", "aim", "effects"}) /\ ~b.context
    BY ContextMenuDismissed
  <1>2. Sound(b) BY <1>1, StaysClosed
  <1> HIDE DEF b
  <1>3. Less(b, c, {"tentative"}) /\ ~c.tentative BY <1>2, Cancelled
  <1>4. Sound(c) /\ ~c.context BY <1>1, <1>3, StaysClosed
  <1> HIDE DEF c
  <1>5. Less(c, e, {"focused", "preedit", "press"}) /\ ~Field(e) BY <1>4, Blurred DEF Field
  <1>6. Sound(e) /\ ~e.context /\ ~e.tentative BY <1>3, <1>4, <1>5, StaysClosed
  <1> HIDE DEF e
  <1>7. Less(e, t, {"press"}) BY <1>6, Dropped
  <1>8. ~t.context /\ ~t.tentative /\ ~Field(t) BY <1>5, <1>6, <1>7, StaysClosed
  <1> HIDE DEF t
  <1>9. Eases(s, c) BY <1>1, <1>3, EasesTransitive DEF Less
  <1>10. Eases(s, t) BY <1>5, <1>7, <1>9, EasesTransitive DEF Less
  <1>11. Same(s, t, Closing) /\ t.menu = s.menu
    BY <1>1, <1>3, <1>5, <1>7 DEF Less, Same, Closing, Fields
  <1>12. t = MenuOpened(s)
    BY DEF MenuOpened, CancelScrollBarInteraction, BlurFindField, t, e, c, b
  <1> QED BY <1>8, <1>10, <1>11, <1>12 DEF Less

\* What fires is what was pressed.
LEMMA Fired ==
  ASSUME NEW s, Sound(s), NEW owner, NEW control,
         s.aim = <<owner, control>> \/ owner \in s.loose
  PROVE  Less(s, Fire(s, owner, control), {"misfired"})
  <1> DEFINE v == s.misfired \/ (owner \notin s.loose /\ s.aim # <<owner, control>>)
             t == [s EXCEPT !.misfired = v]
  <1>1. Fire(s, owner, control) = t BY DEF Fire
  <1>2. v => s.misfired OBVIOUS
  <1> HIDE DEF v
  <1>3. t = [f \in Fields |-> IF f = "misfired" THEN v ELSE s[f]]
    BY DEF Sound, Typed, Fields
  <1> HIDE DEF t
  <1>4. Same(s, t, {"misfired"}) /\ t.misfired = v BY <1>3 DEF Same, Fields
  <1>5. Typed(t) BY <1>3, <1>4 DEF Sound, Typed, Same, Fields
  <1>6. Sound(t) BY <1>4, <1>5 DEF Sound, Popped, Linked, Composed, Same, Fields
  <1>7. t.misfired => s.misfired BY <1>2, <1>4, Zenon
  <1>8. Less(s, t, {"misfired"}) BY <1>4, <1>6, <1>7 DEF Less, Eases, Calms, Keeps, Same, Fields
  <1> QED BY <1>1, <1>8

\* The find field composes while it has the keyboard.
LEMMA FieldComposes ==
  ASSUME NEW s, Sound(s), NEW v, v => Field(s)
  PROVE  Less(s, [s EXCEPT !.preedit = v], {"preedit"})
  <1> DEFINE t == [s EXCEPT !.preedit = v]
  <1>1. t = [f \in Fields |-> IF f = "preedit" THEN v ELSE s[f]]
    BY DEF Sound, Typed, Fields
  <1> HIDE DEF t
  <1>2. Same(s, t, {"preedit"}) /\ t.preedit = v BY <1>1 DEF Same, Fields
  <1>3. Typed(t) BY <1>1, <1>2 DEF Sound, Typed, Same, Fields
  <1>4. t.preedit => Field(s) BY <1>2, Zenon
  <1>5. Sound(t) BY <1>2, <1>3, <1>4 DEF Sound, Popped, Linked, Composed, Same, Fields, Field
  <1>6. Less(s, t, {"preedit"}) BY <1>2, <1>5 DEF Less, Eases, Calms, Keeps, Same, Fields
  <1> QED BY <1>6 DEF t

\* The editor composes where nothing else has the keyboard.
LEMMA EditorComposes ==
  ASSUME NEW s, Ready(s), ~ChromeOwnsInput(s), ~Field(s)
  PROVE  Handled(s, CloseEmojiCompletion([s EXCEPT !.tentative = TRUE]))
  <1> DEFINE m == [s EXCEPT !.tentative = TRUE]
             t == CloseEmojiCompletion(m)
  <1>1. Sound(s) /\ Good(s, FALSE) BY DEF Ready, Good, Mid
  <1>2. Typed(m) /\ Same(s, m, {"tentative"})
    BY <1>1 DEF Sound, Typed, Same, Fields
  <1> HIDE DEF m
  <1>3. /\ m.errors = s.errors /\ m.spell = s.spell /\ m.word = s.word /\ m.prompts = s.prompts
        /\ m.menu = s.menu /\ m.context = s.context /\ m.shell = s.shell /\ m.popup = s.popup
        /\ m.find = s.find /\ m.focused = s.focused /\ m.preedit = s.preedit
        /\ m.origin = s.origin /\ m.emoji = s.emoji
        /\ m.captured = s.captured /\ m.held = s.held /\ m.lost = s.lost
        /\ m.document = s.document /\ m.last = s.last /\ m.press = s.press /\ m.loose = s.loose
        /\ m.aim = s.aim
        /\ m.effects = s.effects /\ m.misfired = s.misfired /\ m.work = s.work
    BY <1>2 DEF Same, Fields
  <1>4. Popped(m) /\ Linked(m) /\ Composed(m) BY <1>1, <1>3 DEF Sound, Popped, Linked, Composed
  <1>5. Top(m) = Top(s) /\ ~ChromeOwnsInput(m) /\ ~Field(m)
    BY <1>3 DEF Top, ChromeOwnsInput, Field
  <1>6. Held(m) BY <1>1, <1>3 DEF Good, Mid, Held, Pressed, Dragging
  <1>7. Mid(m, TRUE) BY <1>1, <1>2, <1>3, <1>4, <1>6 DEF Good, Mid, Sound
  <1>8. Live(m) = Live(s) BY <1>3 DEF Live
  <1>9. Good(m, TRUE) /\ Sound(m) BY <1>1, <1>3, <1>7, <1>8 DEF Good, Sure, Mid
  <1>10. Less(m, t, {"emoji", "press", "aim"}) /\ ~t.emoji BY <1>9, EmojiClosed
  <1> HIDE DEF t
  <1>11. Good(t, TRUE) /\ Frame(m, t) /\ Sound(t)
    BY <1>9, <1>10, EasedGood, EasesFrame, StaysClosed DEF Less
  <1>12. ~ChromeOwnsInput(t) BY <1>5, <1>9, <1>10, <1>11, ChromeShrinks DEF Less, Eases
  <1>13. ~Field(t) BY <1>5, <1>10, StaysClosed
  <1>14. Top(t) = No /\ Apart(t) BY <1>10, <1>12, <1>13 DEF Apart, ChromeOwnsInput
  <1>15. Good(t, FALSE) BY <1>11, <1>14, Completed
  <1>16. ~Asked(t) BY <1>3, <1>11 DEF Ready, Frame, Asked
  <1>17. Handled(s, t) BY <1>3, <1>11, <1>15, <1>16 DEF Handled, Frame, Good, Mid, Sure
  <1> QED BY <1>17 DEF t, m

-----------------------------------------------------------------------------
(* What a handler of the pointer is given, and what it serves *)

\* Only the owner's press may be armed when the button goes down; when it goes up,
\* what may be fired is what was pressed.
Starts(s, e, owner) ==
  IF e.kind = "press" THEN Pressing(s, owner)
  ELSE Ready(s) /\ (e.kind = "release" => s.held)

\* A press that the editor is given arms nothing.
Serves(s, e, t) == Handled(s, t) /\ (e.kind = "press" /\ t.given => t.aim = Nowhere)

\* No card and no context menu is up.
Bare(s) == Top(s) = No /\ ~s.context

LEMMA StartsSound ==
  ASSUME NEW s, NEW e, NEW o, Starts(s, e, o)
  PROVE  Sound(s) /\ Mid(s, FALSE) /\ s.work = {} /\ s.document = s.last
         /\ (e.kind = "press" => s.aim = Nowhere)
  BY DEF Starts, Pressing, Ready, Good, Mid

LEMMA EasedStarts ==
  ASSUME NEW s, NEW t, NEW e, NEW o, Starts(s, e, o), Eases(s, t)
  PROVE  /\ Starts(t, e, o)
         /\ (e.kind = "press" => o \notin Live(t)) => Ready(t) /\ Handled(s, t)
  <1>1. CASE e.kind = "press" BY <1>1, EasedPressing DEF Starts
  <1>2. CASE e.kind # "press"
    <2>1. Ready(t) /\ Handled(s, t) BY <1>2, EasedReady DEF Starts
    <2> QED BY <1>2, <2>1 DEF Starts, Eases, Calms
  <1> QED BY <1>1, <1>2

LEMMA EasedServes ==
  ASSUME NEW s, NEW t, NEW u, NEW e, Eases(s, t), Serves(t, e, u)
  PROVE  Serves(s, e, u)
  BY EasedThenHandled DEF Serves

LEMMA EasedBare ==
  ASSUME NEW s, NEW t, Bare(s), Sound(s), Eases(s, t)
  PROVE  Bare(t)
  BY ChromeShrinks DEF Bare, Eases, Calms

\* The owner has nothing armed: the press may be handled as any other event.
LEMMA StartsIdle ==
  ASSUME NEW s, NEW e, NEW o, Starts(s, e, o), e.kind = "press" => o \notin Live(s)
  PROVE  /\ Ready(s) /\ Handled(s, s)
         /\ e.kind = "press" => Live(s) = {}
         /\ \A p : Starts(s, e, p)
  <1>1. Eases(s, s) BY StartsSound, EasesReflexive
  <1>2. Ready(s) /\ Handled(s, s) BY <1>1, EasedStarts
  <1>3. e.kind = "press" => Live(s) = {} BY PressingNone DEF Starts
  <1> QED BY <1>2, <1>3 DEF Starts, Pressing

LEMMA GiveEases ==
  ASSUME NEW s, Sound(s), NEW g
  PROVE  Less(s, Give(s, g), {"given"}) /\ Give(s, g).given = g
  <1> DEFINE t == [s EXCEPT !.given = g]
  <1>1. Typed(t) /\ Same(s, t, {"given"}) /\ t.given = g
    BY DEF Sound, Typed, Fields, Same
  <1> HIDE DEF t
  <1>2. Sound(t) BY <1>1 DEF Sound, Popped, Linked, Composed, Same, Fields
  <1>3. Less(s, t, {"given"}) BY <1>1, <1>2 DEF Less, Eases, Calms, Keeps, Same, Fields
  <1> QED BY <1>1, <1>3 DEF Give, t

LEMMA ConsumedServes ==
  ASSUME NEW s, NEW e, NEW T, \A t \in T : Handled(s, t)
  PROVE  \A t \in Consumed(T) : Serves(s, e, t) /\ ~t.given
  <1> SUFFICES ASSUME NEW t \in T PROVE Serves(s, e, Give(t, FALSE)) /\ ~Give(t, FALSE).given
    BY DEF Consumed
  <1> DEFINE u == Give(t, FALSE)
  <1>1. Handled(s, u) /\ u.given = FALSE BY HandledGiven
  <1> QED BY <1>1 DEF Serves

LEMMA GivenServes ==
  ASSUME NEW s, NEW e, NEW T,
         \A t \in T : Handled(s, t) /\ (e.kind = "press" => t.aim = Nowhere)
  PROVE  \A t \in Given(T) : Serves(s, e, t)
  <1> SUFFICES ASSUME NEW t \in T PROVE Serves(s, e, Give(t, TRUE)) BY DEF Given
  <1> DEFINE u == Give(t, TRUE)
  <1>1. Handled(s, u) /\ Same(t, u, {"given"}) BY HandledGiven
  <1>2. u.aim = t.aim BY <1>1 DEF Same, Fields
  <1> QED BY <1>1, <1>2 DEF Serves

\* A release may fire what its owner armed, if it is there.
LEMMA ReleaseFires ==
  ASSUME NEW s, NEW e, NEW o, Starts(s, e, o), e.kind = "release", o \in Live(s) \cup s.loose
  PROVE  s.aim = <<o, s.press[o]>> \/ o \in s.loose
  BY DEF Starts, Ready, Good, Sure

LEMMA DroppedThenFired ==
  ASSUME NEW s, NEW e, NEW o, Starts(s, e, o), e.kind = "release",
         o \in Live(s) \cup s.loose, NEW c, c = s.press[o]
  PROVE  Less(s, Fire(Drop(s, {o}), o, c), {"press", "misfired"})
         /\ o \notin DOMAIN Fire(Drop(s, {o}), o, c).press
  <1> DEFINE d == Drop(s, {o})
             t == Fire(d, o, c)
  <1>0. Sound(s) BY StartsSound
  <1>1. Less(s, d, {"press"}) /\ o \notin DOMAIN d.press BY <1>0, Dropped
  <1>2. d.aim = s.aim /\ d.loose = s.loose /\ Sound(d)
    BY <1>1, StaysClosed DEF Less, Same, Fields
  <1>3. d.aim = <<o, c>> \/ o \in d.loose BY <1>2, ReleaseFires
  <1> HIDE DEF d
  <1>4. Less(d, t, {"misfired"}) BY <1>2, <1>3, Fired
  <1>5. Less(s, t, {"press", "misfired"}) BY <1>1, <1>4, LessTransitive
  <1>6. t.press = d.press BY <1>4 DEF Less, Same, Fields
  <1> QED BY <1>1, <1>5, <1>6 DEF d

-----------------------------------------------------------------------------
(* The menu bar *)

\* A heading is pressed: its menu opens, or closes if it was open.
LEMMA HeadingPressed ==
  ASSUME NEW s, Pressing(s, "menu"), Bare(s), ~s.emoji, NEW m \in Headings
  PROVE  Handled(s, PressHeading(s, m))
  <1> DEFINE a == [s EXCEPT !.menu = m]
             b == Spoil(a, {"menu"})
             t == Arm(b, "menu", m)
             u == MenuOpened(t)
  <1>0. Sound(s) /\ m # No /\ m \notin {"item", "entry"} BY DEF Pressing, Mid, Headings, No
  <1>1. CASE s.menu = m
    <2>1. Less(s, CloseMenuBar(s), {"menu", "press", "aim"})
          /\ "menu" \notin DOMAIN CloseMenuBar(s).press
      BY <1>0, MenuClosed
    <2>2. "menu" \notin Live(CloseMenuBar(s)) BY <2>1 DEF Live
    <2>3. Handled(s, CloseMenuBar(s)) BY <2>1, <2>2, EasedPressing DEF Less
    <2> QED BY <1>1, <2>3 DEF PressHeading
  <1>2. CASE s.menu # m /\ s.menu # No
    <2>1. PressHeading(s, m) = t BY <1>2 DEF PressHeading
    <2>2. Less(s, a, {"menu"}) /\ a.menu = m BY <1>0, <1>2, HeadingChanged
    <2>3. Sound(a) BY <2>2, StaysClosed
    <2> HIDE DEF a
    <2>4. Pressing(a, "menu") BY <2>2, EasedPressing DEF Less
    <2>5. b = a BY <2>4 DEF Spoil, Pressing, Nowhere, No
    <2>6. MayArm(a, "menu", m) BY <1>0 DEF MayArm, Prompts
    <2>7. Handled(a, Arm(a, "menu", m)) BY <1>0, <2>4, <2>6, Armed
    <2>8. Handled(s, Arm(a, "menu", m)) BY <2>2, <2>7, EasedThenHandled DEF Less
    <2> QED BY <2>1, <2>5, <2>8
  <1>3. CASE s.menu = No
    <2>1. PressHeading(s, m) = u BY <1>0, <1>3 DEF PressHeading
    <2>2. Typed(a) /\ Same(s, a, {"menu"}) /\ a.menu = m
      BY <1>0 DEF Same, Fields, Sound, Typed
    <2> HIDE DEF a
    <2>3. /\ a.errors = s.errors /\ a.spell = s.spell /\ a.prompts = s.prompts
          /\ a.captured = s.captured /\ a.lost = s.lost /\ a.held = s.held /\ a.aim = s.aim
          /\ a.press = s.press /\ a.loose = s.loose /\ a.emoji = s.emoji /\ a.work = s.work
          /\ a.document = s.document /\ a.last = s.last
      BY <2>2 DEF Same, Fields
    <2>4. Sound(a) BY <1>0, <1>3, <2>2 DEF Same, Fields, Sound, Popped, Linked, Composed
    <2>5. Held(a) BY <2>3 DEF Pressing, Mid, Held, Dragging, Pressed
    <2>6. Mid(a, TRUE) BY <2>2, <2>4, <2>5 DEF Pressing, Mid, Same, Fields
    <2>7. Live(a) = Live(s) BY <2>3 DEF Live
    <2>8. b = a BY <2>3 DEF Spoil, Pressing, Nowhere, No
    <2>9. a.captured => a.lost BY <2>3 DEF Pressing
    <2>10. MayArm(a, "menu", m) BY <1>0 DEF MayArm, Prompts
    <2>11. Good(Arm(a, "menu", m), TRUE) /\ Same(a, Arm(a, "menu", m), {"press", "aim", "loose"})
      <3>1. Live(a) \subseteq {"menu"} BY <2>7 DEF Pressing
      <3> QED BY <1>0, <2>6, <2>9, <2>10, <3>1, ArmedGood
    <2>12. Good(t, TRUE) /\ Same(a, t, {"press", "aim", "loose"}) BY <2>8, <2>11
    <2> HIDE DEF t
    <2>13. Sound(t) BY <2>12 DEF Good, Mid
    <2>14. Less(t, u, Closing) /\ ~u.context /\ ~u.tentative /\ ~Field(u) /\ u.menu = t.menu
      BY <2>13, MenuOpens
    <2> HIDE DEF u
    <2>15. Good(u, TRUE) /\ Frame(t, u) /\ Sound(u)
      BY <2>12, <2>14, EasedGood, EasesFrame, StaysClosed DEF Less
    <2>16. t.emoji = s.emoji /\ Top(t) = Top(s)
      BY <2>3, <2>12 DEF Same, Fields, Top
    <2>17. ~u.emoji BY <2>14, <2>16, StaysClosed
    <2>18. Top(u) = No BY <2>13, <2>14, <2>15, <2>16, ChromeShrinks DEF Bare, Less, Eases
    <2>19. Apart(u) BY <2>14, <2>17, <2>18 DEF Apart
    <2>20. Good(u, FALSE) BY <2>15, <2>18, <2>19, Completed
    <2>21. /\ t.captured = s.captured /\ t.lost = s.lost /\ t.held = s.held /\ t.work = s.work
           /\ t.document = s.document /\ t.last = s.last
      BY <2>3, <2>12 DEF Same, Fields
    <2>22. ~Asked(u) BY <2>15, <2>21 DEF Frame, Asked, Pressing
    <2>23. Handled(s, u) BY <2>15, <2>20, <2>21, <2>22 DEF Handled, Frame, Good, Mid, Sure
    <2> QED BY <2>1, <2>23
  <1> QED BY <1>1, <1>2, <1>3

\* A press outside an open menu closes it, and its release fires nothing.
LEMMA MenuDismissed ==
  ASSUME NEW s, Pressing(s, "menu")
  PROVE  Handled(s, [Arm(CloseMenuBar(s), "menu", "dismissal") EXCEPT !.aim = <<No, No>>])
  <1> DEFINE a == CloseMenuBar(s)
             b == Arm(a, "menu", "dismissal")
             t == [b EXCEPT !.aim = <<No, No>>]
  <1>0. Sound(s) BY DEF Pressing, Mid
  <1>1. Less(s, a, {"menu", "press", "aim"}) BY <1>0, MenuClosed
  <1>2. Pressing(a, "menu") BY <1>1, EasedPressing DEF Less
  <1> HIDE DEF a
  <1>3. MayArm(a, "menu", "dismissal") BY DEF MayArm, Prompts
  <1>4. Handled(a, b) /\ Ready(b) /\ Same(a, b, {"press", "aim", "loose"})
    BY <1>2, <1>3, Armed DEF No
  <1>5. b.aim = <<"menu", "dismissal">> /\ b.press["menu"] = "dismissal"
    BY <1>2 DEF Arm, No, Pressing, Mid, Sound, Typed, Fields
  <1> HIDE DEF b
  <1>6. t = Spoil(b, {"menu"}) BY <1>5 DEF Spoil
  <1>7. Sound(b) /\ "menu" \notin Live(b)
    BY <1>4, <1>5 DEF Ready, Good, Mid, Sound, Typed, Prompts, Live
  <1>8. Less(b, t, {"aim"}) BY <1>6, <1>7, SpoiledEases
  <1>9. Handled(a, t) BY <1>4, <1>8, HandledThenEased DEF Less
  <1>10. Handled(s, t) BY <1>1, <1>9, EasedThenHandled DEF Less
  <1> QED BY <1>10 DEF t, b, a

LEMMA MenuReleased ==
  ASSUME NEW s, NEW e, Starts(s, e, "menu"), e.kind = "release", Bare(s),
         NEW t \in MenuRelease(s, e.place)
  PROVE  Handled(s, t)
  <1> DEFINE d == Drop(s, {"menu"})
             f == Fire(d, "menu", "entry")
             a == CloseMenuBar(f)
  <1>0. Sound(s) BY StartsSound
  <1>1. Less(s, d, {"press"}) BY <1>0, Dropped
  <1>2. Handled(s, d) BY <1>1, EasedStarts DEF Less, Starts
  <1>3. ASSUME Pressed(s, "menu") = "entry", t \in Commands(a)
        PROVE  Handled(s, t)
    <2>1. "menu" \in Live(s) \cup s.loose /\ s.press["menu"] = "entry" BY <1>3 DEF Live, Pressed, No
    <2>2. Less(s, f, {"press", "misfired"}) BY <2>1, DroppedThenFired
    <2>3. Sound(f) BY <2>2, StaysClosed
    <2> HIDE DEF f
    <2>4. Less(f, a, {"menu", "press", "aim"}) BY <2>3, MenuClosed
    <2> HIDE DEF a
    <2>5. Eases(s, a) BY <2>2, <2>4, EasesTransitive DEF Less
    <2>6. Ready(a) /\ Bare(a) BY <1>0, <2>5, EasedStarts, EasedBare DEF Starts
    <2>7. Handled(a, t) BY <1>3, <2>6, CommandsHandled DEF Bare
    <2> QED BY <2>5, <2>7, EasedThenHandled
  <1>4. t = d \/ (Pressed(s, "menu") = "entry" /\ t \in Commands(a)) BY DEF MenuRelease
  <1> QED BY <1>2, <1>3, <1>4

\* A press on the chrome finds no emoji list, but for a drag that bypasses it.
Chrome(s, e) ==
  /\ Starts(s, e, "menu") /\ Bare(s)
  /\ e.kind = "press" => (s.emoji => s.captured \/ Dragging(s)) /\ (Dragging(s) => s.menu = No)

LEMMA ChromeIdle ==
  ASSUME NEW s, NEW e, Chrome(s, e), s.captured \/ s.menu = No
  PROVE  /\ Ready(s) /\ Handled(s, s) /\ \A o : Starts(s, e, o)
  <1>1. Sound(s) /\ Held(s) BY StartsSound DEF Chrome, Mid
  <1>2. "menu" \notin Live(s)
    BY <1>1 DEF Live, Sound, Typed, Linked, Held, Pressed, Prompts, No
  <1> QED BY <1>2, StartsIdle DEF Chrome

LEMMA MenuBarServes ==
  ASSUME NEW s, NEW e, Chrome(s, e), ~(~s.captured /\ Dragging(s)),
         NEW t \in HandleMenuBarPointer(s, e)
  PROVE  /\ Serves(s, e, t)
         /\ t.given /\ ~s.captured => t = Give(s, TRUE) \/ t = Give(Drop(s, {"menu"}), TRUE)
         /\ t.given /\ ~s.captured /\ e.kind = "press" => s.menu = No
  <1> DEFINE d == Drop(s, {"menu"})
  <1>0. Sound(s) /\ Starts(s, e, "menu") /\ (e.kind = "press" => s.aim = Nowhere)
    BY StartsSound DEF Chrome
  <1>1. CASE e.kind = "leave"
    <2>1. t \in Given({d}) BY <1>1 DEF HandleMenuBarPointer
    <2>2. Less(s, d, {"press"}) BY <1>0, Dropped
    <2>3. Handled(s, d) BY <1>0, <1>1, <2>2, EasedStarts DEF Less
    <2>4. Serves(s, e, t) BY <1>1, <2>1, <2>3, GivenServes
    <2> QED BY <1>1, <2>1, <2>4 DEF Given
  <1>2. CASE e.kind # "leave" /\ s.captured
    <2>1. t \in Given({s}) BY <1>2 DEF HandleMenuBarPointer
    <2>2. Handled(s, s) BY <1>2, ChromeIdle
    <2>3. Serves(s, e, t) BY <1>0, <2>1, <2>2, GivenServes
    <2> QED BY <1>2, <2>3
  <1>3. CASE /\ e.kind = "move" /\ e.place \in Headings /\ s.menu \notin {No, e.place}
             /\ ~s.captured
    <2> DEFINE m == OpenMenuFromKeyboard(s, e.place)
    <2>1. t \in Consumed({m}) BY <1>3 DEF HandleMenuBarPointer, OpenMenuFromKeyboard
    <2>2. Less(s, m, {"menu", "press", "aim"}) BY <1>0, <1>3, MenuMoved
    <2>3. Handled(s, m) BY <1>0, <1>3, <2>2, EasedStarts DEF Less
    <2> QED BY <2>1, <2>3, ConsumedServes
  <1>4. CASE e.kind = "press" /\ e.place \in Headings /\ ~s.captured
    <2> DEFINE m == PressHeading(s, e.place)
    <2>1. t \in Consumed({m}) BY <1>4 DEF HandleMenuBarPointer
    <2>2. Handled(s, m) BY <1>0, <1>4, HeadingPressed DEF Chrome, Starts
    <2> QED BY <2>1, <2>2, ConsumedServes
  <1>5. CASE /\ e.kind = "press" /\ e.place \notin Headings /\ e.place = "entry" /\ s.menu # No
             /\ ~s.captured
    <2> DEFINE m == Arm(s, "menu", "entry")
    <2>1. t \in Consumed({m}) BY <1>5 DEF HandleMenuBarPointer
    <2>2. MayArm(s, "menu", "entry") BY <1>5 DEF MayArm, Prompts
    <2>3. Handled(s, m) BY <1>0, <1>5, <2>2, Armed DEF Starts, No
    <2> QED BY <2>1, <2>3, ConsumedServes
  <1>6. CASE /\ e.kind = "press" /\ e.place \notin Headings /\ e.place # "entry" /\ s.menu # No
             /\ ~s.captured
    <2> DEFINE m == [Arm(CloseMenuBar(s), "menu", "dismissal") EXCEPT !.aim = <<No, No>>]
    <2>1. t \in Consumed({m}) BY <1>6 DEF HandleMenuBarPointer
    <2>2. Handled(s, m) BY <1>0, <1>6, MenuDismissed DEF Starts
    <2> HIDE DEF m
    <2> QED BY <2>1, <2>2, ConsumedServes
  <1>7. CASE e.kind = "release" /\ Pressed(s, "menu") # No /\ ~s.captured
    <2> DEFINE g == ~(Pressed(s, "menu") = "dismissal" \/ s.menu # No
                      \/ e.place \in Headings \cup {"bar"})
    <2>1. \E m \in MenuRelease(s, e.place) : t = Give(m, g) BY <1>7 DEF HandleMenuBarPointer
    <2>2. g => s.menu = No OBVIOUS
    <2>b. g \in BOOLEAN OBVIOUS
    <2> HIDE DEF g
    <2> PICK m \in MenuRelease(s, e.place) : t = Give(m, g) BY <2>1
    <2>3. Handled(s, m) BY <1>0, <1>7, MenuReleased DEF Chrome
    <2>4. Handled(s, t) /\ t.given = g BY <2>3, HandledGiven
    <2>5. ASSUME t.given PROVE t = Give(d, TRUE)
      <3>1. g = TRUE /\ s.menu = No BY <2>2, <2>b, <2>4, <2>5
      <3>2. Pressed(s, "menu") # "entry" BY <1>0, <3>1 DEF Sound, Linked, Pressed, No
      <3>3. m = d BY <3>2 DEF MenuRelease
      <3> QED BY <3>1, <3>3
    <2> QED BY <1>7, <2>4, <2>5 DEF Serves
  <1>8. CASE /\ e.kind # "leave" /\ ~s.captured
             /\ ~(e.kind = "move" /\ e.place \in Headings /\ s.menu \notin {No, e.place})
             /\ ~(e.kind = "press" /\ (e.place \in Headings \/ s.menu # No))
             /\ ~(e.kind = "release" /\ Pressed(s, "menu") # No)
    <2>1. \/ t \in Consumed({s})
          \/ t \in Given({s}) /\ s.menu = No
      BY <1>8 DEF HandleMenuBarPointer
    <2>2. e.kind = "press" => s.menu = No BY <1>8
    <2>3. Handled(s, s)
      <3>1. CASE e.kind = "press" BY <2>2, <3>1, ChromeIdle
      <3>2. CASE e.kind # "press"
        <4>1. Eases(s, s) BY <1>0, EasesReflexive
        <4> QED BY <1>0, <3>2, <4>1, EasedStarts
      <3> QED BY <3>1, <3>2
    <2>4. CASE t \in Consumed({s}) BY <2>3, <2>4, ConsumedServes
    <2>5. CASE t \in Given({s}) /\ s.menu = No
      <3>1. Serves(s, e, t) BY <1>0, <2>3, <2>5, GivenServes
      <3> QED BY <2>5, <3>1 DEF Given
    <2> QED BY <2>1, <2>4, <2>5
  <1> QED BY <1>1, <1>2, <1>3, <1>4, <1>5, <1>6, <1>7, <1>8

-----------------------------------------------------------------------------
(* The scroll bars and the tabs *)

LEMMA ScrollBarServes ==
  ASSUME NEW s, NEW e, Starts(s, e, "bar"), NEW t \in HandleScrollBarPointer(s, e)
  PROVE  /\ Serves(s, e, t)
         /\ t.given /\ e.kind # "leave" => t = Give(s, TRUE)
  <1> DEFINE d == Drop(s, {"bar"})
             over == e.place \in {"thumb", "track"}
  <1>0. Sound(s) /\ (e.kind = "press" => s.aim = Nowhere) BY StartsSound
  <1>1. "bar" \notin Live(s) BY <1>0, LiveOwners DEF Cards, Prompts
  <1>2. Ready(s) /\ Handled(s, s) /\ (e.kind = "press" => Live(s) = {}) BY <1>1, StartsIdle
  <1>3. Less(s, d, {"press"}) BY <1>0, Dropped
  <1>4. Handled(s, d) BY <1>2, <1>3, EasedReady DEF Less
  <1> HIDE DEF d
  <1>5. \A u \in Consumed({s}) \cup Consumed({d}) : Serves(s, e, u) /\ ~u.given
    BY <1>2, <1>4, ConsumedServes
  <1>6. CASE t \in Consumed({s}) \cup Consumed({d}) BY <1>5, <1>6
  <1>7. CASE e.kind = "leave" /\ t \in Given({d})
    <2>1. Serves(s, e, t) BY <1>4, <1>7, GivenServes
    <2> QED BY <1>7, <2>1
  <1>8. CASE e.kind = "press" /\ over /\ t \in Consumed({Arm(s, "bar", e.place)})
    <2>1. "emoji" \notin DOMAIN s.press BY <1>0, <1>2, <1>8 DEF Live, Sound, Typed
    <2>2. MayArm(s, "bar", e.place) BY <1>8, <2>1 DEF MayArm, Prompts
    <2>3. Pressing(s, "bar") /\ e.place # No BY <1>8 DEF Starts, No
    <2>4. Handled(s, Arm(s, "bar", e.place)) BY <2>2, <2>3, Armed
    <2> QED BY <1>8, <2>4, ConsumedServes
  <1>9. CASE t \in Given({s})
    <2>1. Serves(s, e, t) BY <1>0, <1>2, <1>9, GivenServes
    <2> QED BY <1>9, <2>1 DEF Given
  <1>10. \/ t \in Consumed({s}) \cup Consumed({d})
         \/ e.kind = "leave" /\ t \in Given({d})
         \/ e.kind = "press" /\ over /\ t \in Consumed({Arm(s, "bar", e.place)})
         \/ t \in Given({s})
    BY DEF HandleScrollBarPointer, d
  <1> QED BY <1>6, <1>7, <1>8, <1>9, <1>10

LEMMA BelowTopChromeServes ==
  ASSUME NEW s, NEW e, Starts(s, e, "bar"), Bare(s), NEW t \in BelowTopChrome(s, e)
  PROVE  Serves(s, e, t)
  <1>1. \E u \in HandleScrollBarPointer(s, e) :
          \/ t = u
          \/ u.given /\ OpensContextMenu(e) /\ t \in Consumed({OpenContextMenu(u)})
    BY DEF BelowTopChrome
  <1> PICK u \in HandleScrollBarPointer(s, e) :
          \/ t = u
          \/ u.given /\ OpensContextMenu(e) /\ t \in Consumed({OpenContextMenu(u)})
    BY <1>1
  <1>2. Serves(s, e, u) BY ScrollBarServes
  <1>3. CASE u.given /\ OpensContextMenu(e) /\ t \in Consumed({OpenContextMenu(u)})
    <2>1. e.kind = "right" BY <1>3 DEF OpensContextMenu
    <2>2. u = Give(s, TRUE) BY <1>3, <2>1, ScrollBarServes
    <2>3. Sound(s) BY StartsSound
    <2>4. Eases(s, u) BY <2>2, <2>3, GiveEases DEF Less
    <2>5. Ready(u) /\ Bare(u) BY <2>1, <2>3, <2>4, EasedReady, EasedBare DEF Starts
    <2>6. Handled(u, OpenContextMenu(u)) BY <2>5, ContextMenuOpened DEF Bare
    <2>7. Handled(s, OpenContextMenu(u)) BY <2>4, <2>6, EasedThenHandled
    <2> QED BY <1>3, <2>7, ConsumedServes
  <1> QED BY <1>2, <1>3

LEMMA TabServes ==
  ASSUME NEW s, NEW e, Starts(s, e, "bar"), NEW t \in HandleTabPointer(s, e)
  PROVE  Serves(s, e, t)
  <1>0. Sound(s) BY StartsSound
  <1>1. "bar" \notin Live(s) BY <1>0, LiveOwners DEF Cards, Prompts
  <1>2. Ready(s) /\ Handled(s, s) BY <1>1, StartsIdle
  <1>3. CASE e.kind # "press"
    <2>1. t \in Consumed({s}) BY <1>3 DEF HandleTabPointer
    <2> QED BY <1>2, <2>1, ConsumedServes
  <1>4. CASE e.kind = "press"
    <2> DEFINE a == DismissOpenMenu(s)
               b == DismissContextMenu(a)
               c == Drop(b, {"bar"})
    <2>1. t \in Consumed(Outcomes(c)) BY <1>4 DEF HandleTabPointer, CancelScrollBarInteraction
    <2>2. Eases(s, a) /\ Sound(a) BY <1>0, OpenMenuDismissed DEF Less, Eases
    <2> HIDE DEF a
    <2>3. Eases(a, b) /\ Sound(b) BY <2>2, ContextMenuDismissed DEF Less, Eases
    <2> HIDE DEF b
    <2>4. Eases(b, c) BY <2>3, Dropped DEF Less
    <2> HIDE DEF c
    <2>5. Eases(s, c) BY <2>2, <2>3, <2>4, EasesTransitive
    <2>6. Ready(c) BY <1>2, <2>5, EasedReady
    <2>7. \A u \in Outcomes(c) : Handled(c, u) BY <2>6, OutcomesHandled
    <2>8. \A u \in Outcomes(c) : Handled(s, u) BY <2>5, <2>7, EasedThenHandled
    <2> QED BY <2>1, <2>8, ConsumedServes
  <1> QED BY <1>3, <1>4

-----------------------------------------------------------------------------
(* The window's chrome, the find bar and the emoji list *)

LEMMA ChromeServes ==
  ASSUME NEW s, NEW e, Chrome(s, e), NEW u \in HandleChromePointer(s, e)
  PROVE  Serves(s, e, u)
  <1>0. Sound(s) /\ Starts(s, e, "menu") /\ Bare(s) BY StartsSound DEF Chrome
  <1>1. CASE ~s.captured /\ Dragging(s)
    <2>1. u \in HandleScrollBarPointer(s, e) BY <1>1 DEF HandleChromePointer
    <2>2. Starts(s, e, "bar")
      <3>1. CASE e.kind = "press"
        <4>1. s.menu = No BY <1>1, <3>1 DEF Chrome
        <4> QED BY <4>1, ChromeIdle
      <3>2. CASE e.kind # "press" BY <1>0, <3>2 DEF Starts
      <3> QED BY <3>1, <3>2
    <2> QED BY <2>1, <2>2, ScrollBarServes
  <1>2. CASE ~(~s.captured /\ Dragging(s))
    <2>1. \E t \in HandleMenuBarPointer(s, e) : u \in BelowMenu(s, t, e)
      BY <1>2 DEF HandleChromePointer
    <2> PICK t \in HandleMenuBarPointer(s, e) : u \in BelowMenu(s, t, e) BY <2>1
    <2>2. Serves(s, e, t) BY <1>2, MenuBarServes
    <2>3. CASE s.captured
      <3>1. u \in Given({t}) BY <2>3 DEF BelowMenu
      <3>2. e.kind = "press" => t.aim = Nowhere
        <4>1. ASSUME e.kind = "press" PROVE t.given
          <5>1. t \in Given({s}) BY <2>3, <4>1 DEF HandleMenuBarPointer
          <5> QED BY <1>0, <5>1, GiveEases DEF Given
        <4> QED BY <2>2, <4>1 DEF Serves
      <3>3. Handled(s, t) BY <2>2 DEF Serves
      <3> QED BY <3>1, <3>2, <3>3, GivenServes
    <2>4. CASE u = t BY <2>2, <2>4
    <2>5. CASE ~s.captured /\ u # t
      <3>1. /\ t.given
            /\ u \in HandleTabPointer(t, e) \/ u \in BelowTopChrome(t, e)
        BY <2>5 DEF BelowMenu
      <3>2. t = Give(s, TRUE) \/ t = Give(Drop(s, {"menu"}), TRUE)
        BY <1>2, <2>5, <3>1, MenuBarServes
      <3>3. Eases(s, t)
        <4>1. Less(s, Drop(s, {"menu"}), {"press"}) BY <1>0, Dropped
        <4>2. Sound(Drop(s, {"menu"})) BY <4>1, StaysClosed
        <4>3. Eases(Drop(s, {"menu"}), Give(Drop(s, {"menu"}), TRUE)) BY <4>2, GiveEases DEF Less
        <4>4. Eases(s, Give(s, TRUE)) BY <1>0, GiveEases DEF Less
        <4> DEFINE d == Drop(s, {"menu"})
        <4>5. Eases(s, d) /\ Eases(d, Give(d, TRUE)) BY <4>1, <4>3 DEF Less
        <4> HIDE DEF d
        <4>6. Eases(s, Give(d, TRUE)) BY <4>5, EasesTransitive
        <4> QED BY <3>2, <4>4, <4>6 DEF d
      <3>4. Starts(s, e, "bar")
        <4>1. CASE e.kind = "press"
          <5>1. s.menu = No BY <1>2, <2>5, <3>1, <4>1, MenuBarServes
          <5> QED BY <5>1, ChromeIdle
        <4>2. CASE e.kind # "press" BY <1>0, <4>2 DEF Starts
        <4> QED BY <4>1, <4>2
      <3>5. Starts(t, e, "bar") /\ Bare(t) BY <1>0, <3>3, <3>4, EasedStarts, EasedBare
      <3>6. Serves(t, e, u) BY <3>1, <3>5, TabServes, BelowTopChromeServes
      <3> QED BY <3>3, <3>6, EasedServes
    <2> QED BY <2>3, <2>4, <2>5
  <1> QED BY <1>1, <1>2

LEMMA FieldFocused ==
  ASSUME NEW s, Ready(s), s.find, ~s.emoji
  PROVE  Handled(s, CaptureFindOrigin(CancelTextInput(SetFocused(s, TRUE))))
         /\ CaptureFindOrigin(CancelTextInput(SetFocused(s, TRUE))).aim = s.aim
  <1> DEFINE a == CancelTextInput(s)
             t == CaptureFindOrigin(CancelTextInput(SetFocused(s, TRUE)))
  <1>1. Sound(s) BY DEF Ready, Good, Mid
  <1>2. Less(s, a, {"tentative"}) /\ ~a.tentative BY <1>1, Cancelled
  <1>3. Ready(a) /\ Sound(a) /\ ~a.emoji /\ a.find
    BY <1>2, EasedReady, StaysClosed DEF Less, Same, Fields
  <1>4. t = [f \in Fields |-> IF f = "focused" THEN TRUE
                              ELSE IF f \in {"preedit", "tentative"} THEN FALSE
                              ELSE IF f = "origin" THEN s.document ELSE s[f]]
    BY <1>1 DEF CaptureFindOrigin, CancelTextInput, SetFocused, Sound, Typed, Fields
  <1>5. a = [f \in Fields |-> IF f = "tentative" THEN FALSE ELSE s[f]]
    BY <1>1 DEF CancelTextInput, Sound, Typed, Fields
  <1> HIDE DEF t, a
  <1>6. t = [f \in Fields |-> IF f = "focused" THEN TRUE
                              ELSE IF f = "preedit" THEN FALSE
                              ELSE IF f = "origin" THEN a.document ELSE a[f]]
    BY <1>4, <1>5 DEF Fields
  <1>7. Same(a, t, {"focused", "preedit", "find", "origin"}) /\ ~t.preedit /\ t.origin = a.document
    BY <1>6 DEF Same, Fields
  <1>8. Typed(t) BY <1>3, <1>6, <1>7 DEF Sound, Typed, Same, Fields
  <1>9. Searched(t) BY <1>7 DEF Searched, Same, Fields
  <1>10. Good(t, FALSE) BY <1>2, <1>3, <1>7, <1>8, <1>9, FieldTakes DEF Ready
  <1>11. /\ t.work = a.work /\ t.document = a.document /\ t.last = a.last /\ t.aim = a.aim
         /\ t.held = a.held /\ t.lost = a.lost /\ t.captured = a.captured
    BY <1>7 DEF Same, Fields
  <1>12. ~Asked(t) BY <1>3, <1>11 DEF Ready, Asked
  <1>13. Handled(a, t) BY <1>10, <1>11, <1>12 DEF Handled, Good, Mid, Sure
  <1>14. Handled(s, t) BY <1>2, <1>13, EasedThenHandled DEF Less
  <1>15. t.aim = s.aim BY <1>2, <1>11 DEF Less, Same, Fields
  <1> QED BY <1>14, <1>15 DEF t

LEMMA FindBarServes ==
  ASSUME NEW s, NEW e, Starts(s, e, "bar"), s.find, e.kind = "press" => ~s.emoji,
         NEW u \in HandleFindBarPointer(s, e)
  PROVE  Serves(s, e, u)
  <1> DEFINE t == Drop(s, {"find"})
             over == e.place \in FindBand
             origin == Pressed(s, "find")
             k == CaptureFindOrigin(CancelTextInput(SetFocused(t, TRUE)))
             f == Fire(t, "find", origin)
             r == IF e.place = origin THEN FindRequest(f, origin) ELSE t
  <1>0. Sound(s) /\ (e.kind = "press" => s.aim = Nowhere) BY StartsSound
  <1>1. "bar" \notin Live(s) BY <1>0, LiveOwners DEF Cards, Prompts
  <1>2. Ready(s) /\ Handled(s, s) /\ (e.kind = "press" => Live(s) = {}) /\ Starts(s, e, "find")
    BY <1>1, StartsIdle
  <1>3. Less(s, t, {"press"}) BY <1>0, Dropped
  <1>4. Ready(t) /\ Handled(s, t) /\ t.find = s.find /\ t.emoji = s.emoji /\ Sound(t)
    BY <1>2, <1>3, EasedReady, StaysClosed DEF Less, Same, Fields
  <1> HIDE DEF t
  <1>5. \A v \in Consumed({s}) \cup Consumed({t}) : Serves(s, e, v)
    BY <1>2, <1>4, ConsumedServes
  <1>6. CASE u \in Consumed({s}) \cup Consumed({t}) BY <1>5, <1>6
  <1>7. CASE e.kind = "leave" /\ u \in Given({t}) BY <1>4, <1>7, GivenServes
  <1>8. CASE u \in Given({s}) BY <1>0, <1>2, <1>8, GivenServes
  <1>9. CASE e.kind = "press" /\ u \in Consumed({k})
    <2>1. Handled(t, k) BY <1>4, <1>9, FieldFocused
    <2>2. Handled(s, k) BY <1>3, <2>1, EasedThenHandled DEF Less
    <2> QED BY <1>9, <2>2, ConsumedServes
  <1>10. CASE /\ e.kind = "press" /\ e.place \in {"next", "shut"}
              /\ u \in Consumed({Arm(s, "find", e.place)})
    <2>1. MayArm(s, "find", e.place) BY <1>10 DEF MayArm, Prompts
    <2>2. Handled(s, Arm(s, "find", e.place)) BY <1>2, <1>10, <2>1, Armed DEF Starts, No
    <2> QED BY <1>10, <2>2, ConsumedServes
  <1>11. CASE e.kind = "release" /\ origin # No /\ u \in Consumed({r})
    <2>5. "find" \in DOMAIN s.press /\ s.press["find"] = origin BY <1>11 DEF Pressed
    <2>6. "find" \in Live(s) \cup s.loose BY <2>5 DEF Live
    <2>7. Less(s, f, {"press", "misfired"}) BY <1>2, <1>11, <2>5, <2>6, DroppedThenFired DEF t
    <2>8. Sound(f) /\ Eases(s, f) BY <2>7, StaysClosed DEF Less
    <2> HIDE DEF f
    <2>1. Eases(f, CloseFindBar(f)) BY <2>8, FindBarClosed DEF Less
    <2>9. Eases(s, CloseFindBar(f)) BY <2>1, <2>8, EasesTransitive
    <2>2. r \in {t, f, CloseFindBar(f)} BY DEF FindRequest
    <2>3. Eases(s, r) BY <1>3, <2>2, <2>8, <2>9 DEF Less
    <2>4. Handled(s, r) BY <1>2, <2>3, EasedReady
    <2> QED BY <1>11, <2>4, ConsumedServes
  <1>12. \/ u \in Consumed({s}) \cup Consumed({t})
         \/ e.kind = "leave" /\ u \in Given({t})
         \/ u \in Given({s})
         \/ e.kind = "press" /\ u \in Consumed({k})
         \/ /\ e.kind = "press" /\ e.place \in {"next", "shut"}
            /\ u \in Consumed({Arm(s, "find", e.place)})
         \/ e.kind = "release" /\ origin # No /\ u \in Consumed({r})
    BY DEF HandleFindBarPointer, t
  <1> QED BY <1>6, <1>7, <1>8, <1>9, <1>10, <1>11, <1>12

LEMMA AtFindBarServes ==
  ASSUME NEW s, NEW e, Starts(s, e, "menu"), Bare(s),
         e.kind = "press" => (s.emoji => s.captured \/ Dragging(s)) /\ (Dragging(s) => s.menu = No),
         NEW u \in AtFindBar(s, e)
  PROVE  Serves(s, e, u)
  <1>0. Sound(s) /\ Chrome(s, e) BY StartsSound DEF Chrome
  <1>1. CASE u \in HandleChromePointer(s, e) BY <1>0, <1>1, ChromeServes
  <1>2. CASE /\ ~s.captured /\ ~Dragging(s) /\ s.menu = No /\ s.find
             /\ u \in HandleFindBarPointer(s, e)
    <2>1. Starts(s, e, "bar") BY <1>0, <1>2, ChromeIdle
    <2> QED BY <1>2, <2>1, FindBarServes
  <1>3. CASE /\ ~s.captured /\ ~Dragging(s) /\ s.menu = No
             /\ e.kind = "press" /\ u \in HandleChromePointer(BlurFindField(s), e)
    <2> DEFINE t == BlurFindField(s)
    <2>1. Less(s, t, {"focused", "preedit", "press"}) BY <1>0, Blurred
    <2> HIDE DEF t
    <2>2. Starts(t, e, "menu") /\ Bare(t) BY <1>0, <2>1, EasedStarts, EasedBare DEF Less
    <2>3. ~t.emoji /\ t.menu = No BY <1>3, <2>1, StaysClosed
    <2>4. Chrome(t, e) BY <2>2, <2>3 DEF Chrome
    <2>5. Serves(t, e, u) BY <1>3, <2>4, ChromeServes DEF t
    <2> QED BY <2>1, <2>5, EasedServes DEF Less
  <1>4. \/ u \in HandleChromePointer(s, e)
        \/ /\ ~s.captured /\ ~Dragging(s) /\ s.menu = No /\ s.find
           /\ u \in HandleFindBarPointer(s, e)
        \/ /\ ~s.captured /\ ~Dragging(s) /\ s.menu = No
           /\ e.kind = "press" /\ u \in HandleChromePointer(BlurFindField(s), e)
    BY DEF AtFindBar
  <1> QED BY <1>1, <1>2, <1>3, <1>4

LEMMA EmojiServes ==
  ASSUME NEW s, NEW e, Starts(s, e, "emoji"), Bare(s), s.emoji, s.menu = No,
         ~s.captured, ~Dragging(s), NEW u \in AtEmojiList(s, e)
  PROVE  Serves(s, e, u)
  <1> DEFINE over == e.place \in {"row", "panel"}
             d == Drop(s, {"emoji"})
             c == CloseEmojiCompletion(s)
             f == Fire(d, "emoji", "row")
  <1>0. Sound(s) BY StartsSound
  <1>1. Less(s, d, {"press"}) /\ "emoji" \notin DOMAIN d.press BY <1>0, Dropped
  <1>2. Starts(d, e, "emoji") /\ Handled(s, d) /\ Bare(d) /\ Sound(d) /\ d.menu = No
    BY <1>0, <1>1, EasedStarts, EasedBare, StaysClosed DEF Less, Live
  <1>3. Less(s, c, {"emoji", "press", "aim"}) /\ ~c.emoji /\ "emoji" \notin DOMAIN c.press
    BY <1>0, EmojiClosed
  <1>4. CASE e.kind = "press" /\ u \in Consumed({Arm(s, "emoji", "row")})
    <2>1. MayArm(s, "emoji", "row") BY <1>0 DEF MayArm, Prompts
    <2>2. Handled(s, Arm(s, "emoji", "row")) BY <1>4, <2>1, Armed DEF Starts, No
    <2> QED BY <1>4, <2>2, ConsumedServes
  <1>5. CASE u \in Consumed({d}) BY <1>2, <1>5, ConsumedServes
  <1>6. CASE e.kind = "press" /\ u \in AtFindBar(c, e)
    <2> HIDE DEF c
    <2>1. Starts(c, e, "emoji") /\ Bare(c) /\ c.menu = No
      BY <1>0, <1>3, EasedStarts, EasedBare, StaysClosed DEF Less
    <2>2. "emoji" \notin Live(c) BY <1>3 DEF Live
    <2>3. Starts(c, e, "menu") BY <2>1, <2>2, StartsIdle
    <2>4. Serves(c, e, u) BY <1>3, <1>6, <2>1, <2>3, AtFindBarServes
    <2> QED BY <1>3, <2>4, EasedServes DEF Less
  <1>7. CASE /\ e.kind = "release" /\ Pressed(s, "emoji") = "row"
             /\ u \in Consumed({CompleteEmoji(f)})
    <2>1. "emoji" \in Live(s) \cup s.loose /\ s.press["emoji"] = "row" BY <1>7 DEF Live, Pressed, No
    <2>2. Less(s, f, {"press", "misfired"}) BY <1>7, <2>1, DroppedThenFired
    <2>3. Sound(f) BY <2>2, StaysClosed
    <2> HIDE DEF f
    <2>4. Less(f, CloseEmojiCompletion(f), {"emoji", "press", "aim"}) BY <2>3, EmojiClosed
    <2>5. Eases(s, CloseEmojiCompletion(f)) BY <2>2, <2>4, EasesTransitive DEF Less
    <2>6. Handled(s, CompleteEmoji(f)) BY <1>7, <2>5, EasedReady DEF CompleteEmoji, Starts
    <2> QED BY <1>7, <2>6, ConsumedServes
  <1>8. CASE e.kind = "release" /\ u \in AtFindBar(d, e)
    <2> HIDE DEF d
    <2>1. Starts(d, e, "menu") BY <1>2, <1>8 DEF Starts
    <2>2. Serves(d, e, u) BY <1>2, <1>8, <2>1, AtFindBarServes
    <2> QED BY <1>1, <2>2, EasedServes DEF Less
  <1>9. CASE e.kind \notin {"press", "release"} /\ u \in Consumed({s}) \cup AtFindBar(s, e)
    <2>1. Starts(s, e, "menu") BY <1>9 DEF Starts
    <2>2. Handled(s, s) BY <1>0, <1>9, EasesReflexive, EasedReady DEF Starts
    <2>3. CASE u \in Consumed({s}) BY <2>2, <2>3, ConsumedServes
    <2>4. CASE u \in AtFindBar(s, e) BY <1>9, <2>1, <2>4, AtFindBarServes
    <2> QED BY <1>9, <2>3, <2>4
  <1>10. \/ e.kind = "press" /\ u \in Consumed({Arm(s, "emoji", "row")})
         \/ u \in Consumed({d})
         \/ e.kind = "press" /\ u \in AtFindBar(c, e)
         \/ /\ e.kind = "release" /\ Pressed(s, "emoji") = "row"
            /\ u \in Consumed({CompleteEmoji(f)})
         \/ e.kind = "release" /\ u \in AtFindBar(d, e)
         \/ e.kind \notin {"press", "release"} /\ u \in Consumed({s}) \cup AtFindBar(s, e)
    BY DEF AtEmojiList, EmojiRelease, d, c, f
  <1> QED BY <1>4, <1>5, <1>6, <1>7, <1>8, <1>9, <1>10

-----------------------------------------------------------------------------
(* The context menu and the cards *)

\* A press in the padding closes the menu; the rest of the gesture is the popup's.
LEMMA PaddingPressed ==
  ASSUME NEW s, Pressing(s, "context"), s.context
  PROVE  Handled(s, Arm(CloseShell([s EXCEPT !.context = FALSE]), "context", "dismissal"))
  <1> DEFINE d == Drop(s, {"context"})
             y == DismissContextMenu(s)
             x == CloseShell([s EXCEPT !.context = FALSE])
             q == Append(s.effects, "close")
             p == [o \in DOMAIN s.press \cup {"context"} |->
                     IF o = "context" THEN "dismissal" ELSE s.press[o]]
             r == [o \in DOMAIN d.press \cup {"context"} |->
                     IF o = "context" THEN "dismissal" ELSE d.press[o]]
             l == s.loose \ {"context"}
  <1>0. /\ Sound(s) /\ s.aim = Nowhere /\ s.shell /\ s = [f \in Fields |-> s[f]]
    BY DEF Pressing, Mid, Sound, Popped, Typed
  <1>1. Less(s, y, {"context", "shell", "press", "aim", "effects"})
        /\ "context" \notin DOMAIN y.press
    BY <1>0, ContextMenuDismissed
  <1>2. Pressing(y, "context") BY <1>1, EasedPressing DEF Less
  <1>3. MayArm(y, "context", "dismissal") BY DEF MayArm, Prompts
  <1>4. Handled(y, Arm(y, "context", "dismissal")) BY <1>2, <1>3, Armed DEF No
  <1>5. Handled(s, Arm(y, "context", "dismissal")) BY <1>1, <1>4, EasedThenHandled DEF Less
  <1>6. Arm(x, "context", "dismissal") = Arm(y, "context", "dismissal")
    <2>1. Less(s, d, {"press"}) /\ DOMAIN d.press = DOMAIN s.press \ {"context"} BY <1>0, Dropped
    <2>2. /\ d = [f \in Fields |-> IF f = "press" THEN d.press ELSE s[f]]
          /\ \A o \in DOMAIN d.press : d.press[o] = s.press[o]
      BY <2>1 DEF Less, Same, Eases, Calms, Sound, Typed
    <2> HIDE DEF d
    <2>3. p = r BY <2>1, <2>2
    <2>4. d.aim = Nowhere /\ d.shell /\ d.effects = s.effects BY <1>0, <2>2 DEF Fields
    <2>5. y = CloseShell([d EXCEPT !.context = FALSE])
      <3>1. [d EXCEPT !.context = FALSE].aim = Nowhere BY <2>2, <2>4 DEF Fields
      <3>2. Spoil([d EXCEPT !.context = FALSE], {"context"}) = [d EXCEPT !.context = FALSE]
        BY <3>1 DEF Spoil, Nowhere, No
      <3> QED BY <3>2 DEF DismissContextMenu, CloseContextMenu, d
    <2>6. y = [f \in Fields |-> IF f \in {"context", "shell"} THEN FALSE
                                ELSE IF f = "effects" THEN q
                                ELSE IF f = "press" THEN d.press ELSE s[f]]
      <3> DEFINE k == [d EXCEPT !.context = FALSE]
      <3>1. /\ k = [f \in Fields |-> IF f = "context" THEN FALSE
                                     ELSE IF f = "press" THEN d.press ELSE s[f]]
            /\ k.shell /\ k.effects = s.effects
        BY <2>2, <2>4 DEF Fields
      <3> HIDE DEF k
      <3>2. y = [k EXCEPT !.shell = FALSE, !.effects = q] BY <2>5, <3>1 DEF CloseShell, k
      <3> HIDE DEF q, y
      <3> QED BY <3>1, <3>2 DEF Fields
    <2>7. x = [f \in Fields |-> IF f \in {"context", "shell"} THEN FALSE
                                ELSE IF f = "effects" THEN q ELSE s[f]]
      BY <1>0 DEF CloseShell, Fields
    <2> HIDE DEF x, y, q
    <2>8. x.press = s.press /\ y.press = d.press /\ x.loose = s.loose /\ y.loose = s.loose
      BY <2>6, <2>7 DEF Fields
    <2>9. Arm(x, "context", "dismissal")
            = [x EXCEPT !.press = p, !.aim = <<"context", "dismissal">>, !.loose = l]
      BY <2>8 DEF Arm, No
    <2>10. Arm(y, "context", "dismissal")
            = [y EXCEPT !.press = r, !.aim = <<"context", "dismissal">>, !.loose = l]
      BY <2>8 DEF Arm, No
    <2> HIDE DEF p, r, l
    <2>11. Arm(x, "context", "dismissal")
            = [f \in Fields |-> IF f = "press" THEN p
                                ELSE IF f = "aim" THEN <<"context", "dismissal">>
                                ELSE IF f = "loose" THEN l ELSE x[f]]
      BY <2>7, <2>9 DEF Fields
    <2>12. Arm(y, "context", "dismissal")
            = [f \in Fields |-> IF f = "press" THEN r
                                ELSE IF f = "aim" THEN <<"context", "dismissal">>
                                ELSE IF f = "loose" THEN l ELSE y[f]]
      BY <2>6, <2>10 DEF Fields
    <2>13. \A f \in Fields : f # "press" => x[f] = y[f] BY <2>6, <2>7
    <2> QED BY <2>3, <2>11, <2>12, <2>13
  <1> QED BY <1>5, <1>6

LEMMA PopupServes ==
  ASSUME NEW s, NEW e, Starts(s, e, "context"), NEW t \in HandlePopupPointer(s, e)
  PROVE  Serves(s, e, t)
  <1> DEFINE d == Drop(s, {"context"})
             f == Fire(d, "context", "item")
  <1>0. Sound(s) /\ (e.kind = "press" => s.aim = Nowhere) BY StartsSound
  <1>1. ~s.context => "context" \notin Live(s)
    BY <1>0 DEF Live, Sound, Typed, Linked, Prompts
  <1>2. e.kind # "press" \/ ~s.context => Ready(s) /\ Handled(s, s)
    BY <1>1, StartsIdle
  <1>3. Less(s, d, {"press"}) BY <1>0, Dropped
  <1>4. CASE (e.kind # "press" \/ ~s.context) /\ t \in Given({s}) \cup Consumed({s})
    <2>1. CASE t \in Given({s}) BY <1>0, <1>2, <1>4, <2>1, GivenServes
    <2>2. CASE t \in Consumed({s}) BY <1>2, <1>4, <2>2, ConsumedServes
    <2> QED BY <1>4, <2>1, <2>2
  <1>5. CASE e.kind \in {"leave", "release"} /\ t \in Given({d}) \cup Consumed({d})
    <2>1. Handled(s, d) BY <1>2, <1>3, <1>5, EasedReady DEF Less
    <2>2. CASE t \in Given({d}) BY <1>5, <2>1, <2>2, GivenServes
    <2>3. CASE t \in Consumed({d}) BY <2>1, <2>3, ConsumedServes
    <2> QED BY <1>5, <2>2, <2>3
  <1>6. CASE e.kind = "press" /\ s.context /\ t \in Consumed({Arm(s, "context", "item")})
    <2>1. MayArm(s, "context", "item") BY <1>6 DEF MayArm, Prompts
    <2>2. Handled(s, Arm(s, "context", "item")) BY <1>6, <2>1, Armed DEF Starts, No
    <2> QED BY <1>6, <2>2, ConsumedServes
  <1>7. CASE /\ e.kind = "press" /\ s.context
             /\ t \in Consumed({Arm(CloseShell([s EXCEPT !.context = FALSE]),
                                    "context", "dismissal")})
    <2>1. Handled(s, Arm(CloseShell([s EXCEPT !.context = FALSE]), "context", "dismissal"))
      BY <1>7, PaddingPressed DEF Starts
    <2> QED BY <1>7, <2>1, ConsumedServes
  <1>8. CASE /\ e.kind = "release" /\ Pressed(s, "context") = "item"
             /\ t \in Consumed({CloseShell(CloseContextMenu(f))})
    <2>1. "context" \in Live(s) \cup s.loose /\ s.press["context"] = "item"
      BY <1>8 DEF Live, Pressed, No
    <2>2. Less(s, f, {"press", "misfired"}) BY <1>8, <2>1, DroppedThenFired
    <2>3. Sound(f) BY <2>2, StaysClosed
    <2> HIDE DEF f
    <2>4. Eases(f, DismissContextMenu(f)) BY <2>3, ContextMenuDismissed DEF Less
    <2>5. Eases(s, DismissContextMenu(f)) BY <2>2, <2>4, EasesTransitive DEF Less
    <2>6. Handled(s, CloseShell(CloseContextMenu(f)))
      BY <1>2, <1>8, <2>5, EasedReady DEF DismissContextMenu
    <2> QED BY <1>8, <2>6, ConsumedServes
  <1>9. \/ (e.kind # "press" \/ ~s.context) /\ t \in Given({s}) \cup Consumed({s})
        \/ e.kind \in {"leave", "release"} /\ t \in Given({d}) \cup Consumed({d})
        \/ e.kind = "press" /\ s.context /\ t \in Consumed({Arm(s, "context", "item")})
        \/ /\ e.kind = "press" /\ s.context
           /\ t \in Consumed({Arm(CloseShell([s EXCEPT !.context = FALSE]),
                                  "context", "dismissal")})
        \/ /\ e.kind = "release" /\ Pressed(s, "context") = "item"
           /\ t \in Consumed({CloseShell(CloseContextMenu(f))})
    BY DEF HandlePopupPointer, ContextRelease, Consumed, d, f
  <1> QED BY <1>4, <1>5, <1>6, <1>7, <1>8, <1>9

LEMMA BesideServes ==
  ASSUME NEW s, NEW e, Starts(s, e, "context"), Top(s) = No, NEW t \in BesideContextMenu(s, e)
  PROVE  Serves(s, e, t)
  <1> DEFINE c == DismissContextMenu(s)
  <1>0. Sound(s) BY StartsSound
  <1>1. Less(s, c, {"context", "shell", "press", "aim", "effects"})
        /\ ~c.context /\ "context" \notin DOMAIN c.press
    BY <1>0, ContextMenuDismissed
  <1>2. Sound(c) /\ "context" \notin Live(c) BY <1>1, StaysClosed DEF Live, Sound, Typed, Prompts
  <1> HIDE DEF c
  <1>3. Ready(c) /\ Handled(s, c) BY <1>1, <1>2, EasedStarts DEF Less
  <1>4. CASE t \in Consumed({c}) BY <1>3, <1>4, ConsumedServes
  <1>5. CASE e.kind # "press" /\ t \in Given({s}) \cup Consumed({s})
    <2>1. Handled(s, s) BY <1>5, StartsIdle
    <2>2. CASE t \in Given({s}) BY <1>5, <2>1, <2>2, GivenServes
    <2>3. CASE t \in Consumed({s}) BY <2>1, <2>3, ConsumedServes
    <2> QED BY <1>5, <2>2, <2>3
  <1>6. CASE t \in Consumed({OpenContextMenu(c)})
    <2>1. Top(c) = No BY <1>0, <1>1, <1>2, ChromeShrinks DEF Less, Eases
    <2>2. Handled(c, OpenContextMenu(c)) BY <1>3, <2>1, ContextMenuOpened
    <2>3. Handled(s, OpenContextMenu(c)) BY <1>1, <2>2, EasedThenHandled DEF Less
    <2> QED BY <1>6, <2>3, ConsumedServes
  <1>7. \/ t \in Consumed({c})
        \/ e.kind # "press" /\ t \in Given({s}) \cup Consumed({s})
        \/ t \in Consumed({OpenContextMenu(c)})
    BY DEF BesideContextMenu, c
  <1> QED BY <1>4, <1>5, <1>6, <1>7

Beneath == {"press", "focused", "preedit", "context", "shell", "aim", "effects"}

LEMMA UnderCardEases ==
  ASSUME NEW s, Sound(s), NEW card
  PROVE  Less(s, UnderCard(s, card), Beneath) /\ Top(UnderCard(s, card)) = Top(s)
  <1> DEFINE a == Drop(s, {"bar"})
             b == IF card = "spell" THEN a ELSE BlurFindField(a)
             t == DismissContextMenu(b)
  <1>1. Less(s, a, {"press"}) /\ Sound(a) BY Dropped, StaysClosed
  <1> HIDE DEF a
  <1>2. Less(a, b, {"focused", "preedit", "press"}) BY <1>1, Blurred, LessReflexive
  <1>3. Sound(b) BY <1>2, StaysClosed
  <1> HIDE DEF b
  <1>4. Less(b, t, {"context", "shell", "press", "aim", "effects"}) BY <1>3, ContextMenuDismissed
  <1> HIDE DEF t
  <1>5. Eases(s, b) BY <1>1, <1>2, EasesTransitive DEF Less
  <1>6. Eases(s, t) BY <1>4, <1>5, EasesTransitive DEF Less
  <1>7. Same(s, t, Beneath) BY <1>1, <1>2, <1>4 DEF Less, Same, Beneath
  <1>8. Top(t) = Top(s) BY <1>7 DEF Same, Beneath, Fields, Top
  <1>9. t = UnderCard(s, card) BY DEF UnderCard, CancelScrollBarInteraction, t, b, a
  <1> QED BY <1>6, <1>7, <1>8, <1>9 DEF Less

\* What a control of the card on top does.
LEMMA Activated ==
  ASSUME NEW s, Ready(s), NEW card, card = Top(s), card # No, NEW hit \in {"yes", "no", "word"},
         NEW t \in Activate(s, card, hit)
  PROVE  Handled(s, t)
  <1>0. Sound(s) BY DEF Ready, Good, Mid
  <1>1. CASE card = "error"
    <2>1. t = DismissFileError(s) BY <1>1 DEF Activate
    <2>2. s.errors > 0 BY <1>0, <1>1, TopCards
    <2>3. Eases(s, t) BY <1>0, <2>1, <2>2, FileErrorDismissed DEF Less
    <2> QED BY <2>3, EasedReady
  <1>2. CASE card = "spell"
    <2>1. s.spell # "closed" BY <1>0, <1>2, TopCards
    <2>2. t \in ActivateSpellcheckControl(s, hit) BY <1>2 DEF Activate
    <2>3. t \in {CloseSpellcheck(s), s} \cup SessionBegun(s) \cup SessionDecided(s)
      BY <2>2 DEF ActivateSpellcheckControl
    <2>4. Eases(s, s) BY <1>0, EasesReflexive
    <2>5. Eases(s, CloseSpellcheck(s)) BY <1>0, SpellcheckClosed DEF Less
    <2>6. \A u \in SessionBegun(s) \cup SessionDecided(s) : Eases(s, u)
      BY <1>0, <2>1, SessionsEase DEF Less
    <2>7. Eases(s, t) BY <2>3, <2>4, <2>5, <2>6
    <2> QED BY <2>7, EasedReady
  <1>3. CASE card \notin {"error", "spell"}
    <2>1. t \in Outcomes(s) BY <1>3 DEF Activate
    <2> QED BY <2>1, OutcomesHandled
  <1> QED BY <1>1, <1>2, <1>3

LEMMA CardServes ==
  ASSUME NEW s, NEW e, NEW card, card = Top(s), card # No, Starts(s, e, card),
         NEW u \in HandleCardPointer(s, card, e)
  PROVE  Serves(s, e, u)
  <1> DEFINE hit == CardHit(card, e.place)
             t == UnderCard(s, card)
             a == IF card = "spell" THEN SpellcheckPress(t, hit) ELSE t
             d == Drop(t, {card})
             f == Fire(d, card, hit)
  <1>0. Sound(s) BY StartsSound
  <1>1. hit \in {"yes", "no", "word", No} BY DEF CardHit
  <1>2. Less(s, t, Beneath) /\ Top(t) = card BY <1>0, UnderCardEases
  <1>3. Starts(t, e, card) /\ Sound(t) BY <1>2, EasedStarts, StaysClosed DEF Less
  <1>4. card \in Cards /\ (card = "error" => t.errors > 0)
        /\ (card = "spell" => t.spell # "closed" /\ t.errors = 0)
        /\ (card \in Prompts => card \in t.prompts)
    <2>1. card \in Cards /\ (card = "error" => t.errors > 0)
          /\ (card = "spell" => t.spell # "closed" /\ t.errors = 0)
      BY <1>2, <1>3, TopCards
    <2>2. card \in Prompts => card \in t.prompts BY <1>2, <1>3, TopCards DEF Prompts
    <2> QED BY <2>1, <2>2
  <1> HIDE DEF hit, t
  <1>5. CASE e.kind = "press" /\ u \in Consumed({Arm(a, card, hit)})
    <2>1. Less(t, a, Dialog)
      BY <1>1, <1>2, <1>3, SpellcheckPressed, LessReflexive
    <2> HIDE DEF a
    <2>2. Pressing(a, card) BY <1>3, <1>5, <2>1, EasedPressing DEF Less, Starts
    <2>3. Top(a) = card /\ a.errors = t.errors /\ (card = "spell" => a.spell # "closed")
      <3>1. a.errors = t.errors /\ a.prompts = t.prompts
        BY <2>1 DEF Less, Same, Fields, Dialog
      <3>2. CASE card = "spell"
        <4>1. Sound(a) BY <2>1, StaysClosed
        <4>2. a.spell # "closed"
          <5>1. a = SpellcheckPress(t, hit) BY <3>2 DEF a
          <5>2. a.spell = t.spell BY <1>3, <5>1 DEF SpellcheckPress, Sound, Typed, Fields
          <5> QED BY <1>4, <3>2, <5>2
        <4>3. a.errors = 0 BY <1>4, <3>1, <3>2
        <4> QED BY <3>1, <3>2, <4>1, <4>2, <4>3, TopCards
      <3>3. CASE card # "spell"
        <4>1. a = t BY <3>3 DEF a
        <4> QED BY <1>2, <3>3, <4>1
      <3> QED BY <3>2, <3>3
    <2>4. CASE hit # No
      <3>1. MayArm(a, card, hit)
        BY <1>1, <1>4, <2>3, <2>4 DEF MayArm, Cards, Prompts, No
      <3>2. Handled(a, Arm(a, card, hit)) BY <2>2, <2>4, <3>1, Armed
      <3>3. Handled(t, Arm(a, card, hit)) BY <2>1, <3>2, EasedThenHandled DEF Less
      <3>4. Handled(s, Arm(a, card, hit)) BY <1>2, <3>3, EasedThenHandled DEF Less
      <3> QED BY <1>5, <3>4, ConsumedServes
    <2>5. CASE hit = No
      <3>1. Handled(a, Arm(a, card, hit)) BY <2>2, <2>5, Disarmed
      <3>2. Handled(t, Arm(a, card, hit)) BY <2>1, <3>1, EasedThenHandled DEF Less
      <3>3. Handled(s, Arm(a, card, hit)) BY <1>2, <3>2, EasedThenHandled DEF Less
      <3> QED BY <1>5, <3>3, ConsumedServes
    <2> QED BY <2>4, <2>5
  <1>6. CASE e.kind = "release" /\ u \in Consumed(CardRelease(t, card, hit))
    <2>0. Ready(t) BY <1>3, <1>6 DEF Starts
    <2>1. Less(t, d, {"press"}) BY <1>3, Dropped
    <2>2. Handled(t, d) BY <2>0, <2>1, EasedReady DEF Less
    <2>3. ASSUME hit # No, Pressed(t, card) = hit, NEW v \in Activate(f, card, hit)
          PROVE  Handled(t, v)
      <3>1. card \in DOMAIN t.press /\ t.press[card] = hit BY <2>3 DEF Pressed
      <3>2. card \in Live(t) \cup t.loose BY <1>4, <3>1 DEF Live, Cards
      <3>3. Less(t, f, {"press", "misfired"}) BY <1>3, <1>6, <3>1, <3>2, DroppedThenFired
      <3> HIDE DEF f
      <3>4. Ready(f) BY <2>0, <3>3, EasedReady DEF Less
      <3>5. Top(f) = card BY <1>2, <3>3 DEF Less, Same, Fields, Top
      <3>6. hit \in {"yes", "no", "word"} BY <1>1, <2>3
      <3>7. Handled(f, v) BY <2>3, <3>4, <3>5, <3>6, Activated
      <3> QED BY <3>3, <3>7, EasedThenHandled DEF Less
    <2>4. \A v \in CardRelease(t, card, hit) : Handled(t, v)
      BY <2>2, <2>3 DEF CardRelease
    <2>5. \A v \in CardRelease(t, card, hit) : Handled(s, v)
      BY <1>2, <2>4, EasedThenHandled DEF Less
    <2> QED BY <1>6, <2>5, ConsumedServes
  <1>7. CASE e.kind = "leave" /\ u \in Given({Drop(t, {"spell"})})
    <2>1. Ready(t) BY <1>3, <1>7 DEF Starts
    <2>2. Handled(t, Drop(t, {"spell"})) BY <1>3, <2>1, Dropped, EasedReady DEF Less
    <2>3. Handled(s, Drop(t, {"spell"})) BY <1>2, <2>2, EasedThenHandled DEF Less
    <2> QED BY <1>7, <2>3, GivenServes
  <1>8. CASE e.kind # "press" /\ u \in Consumed({t})
    <2>1. Handled(s, t) BY <1>2, <1>3, <1>8, EasedReady DEF Less, Starts
    <2>2. \A v \in {t} : Handled(s, v) BY <1>2, <1>8, StartsSound, EasedStarts DEF Less
    <2> QED BY <1>8, <2>2, ConsumedServes
  <1>9. \/ e.kind = "press" /\ u \in Consumed({Arm(a, card, hit)})
        \/ e.kind = "release" /\ u \in Consumed(CardRelease(t, card, hit))
        \/ e.kind = "leave" /\ u \in Given({Drop(t, {"spell"})})
        \/ e.kind # "press" /\ u \in Consumed({t})
    BY DEF HandleCardPointer, a, t, hit
  <1> QED BY <1>5, <1>6, <1>7, <1>8, <1>9

-----------------------------------------------------------------------------
(* Where the event goes *)

\* Between two events.
Settled(s) ==
  /\ Mid(s, FALSE) /\ Sure(s, FALSE)
  /\ s.effects = << >> /\ s.work = {} /\ s.last = s.document /\ s.given = FALSE
  /\ "bar" \in DOMAIN s.press => ~ChromeOwnsInput(s)
  /\ s.captured /\ ~s.held => s.lost

LEMMA SettledReady ==
  ASSUME NEW s, Settled(s)
  PROVE  Ready(s) /\ Sound(s)
  BY DEF Settled, Ready, Good, Mid

Owner(s) ==
  IF Top(s) # No THEN Top(s)
  ELSE IF s.context THEN "context" ELSE IF s.menu # No THEN "menu" ELSE "emoji"

\* Only what is on top may be released on.
LEMMA ArmedOnTop ==
  ASSUME NEW s, Mid(s, FALSE), NEW o \in DOMAIN s.press,
         o \in s.prompts \cup {"error", "spell", "emoji"} \/ s.press[o] \in {"item", "entry"}
  PROVE  o = Owner(s)
  <1>0. Sound(s) /\ Apart(s) /\ OnlyTop(s) /\ (s.errors > 0 => "spell" \notin DOMAIN s.press)
    BY DEF Mid
  <1>1. s.prompts \subseteq {"external", "large", "unsaved"} /\ s.errors \in Nat
    <2>1. s.prompts \subseteq Prompts /\ s.errors \in 0 .. MaxErrors BY <1>0 DEF Sound, Typed
    <2> QED BY <2>1, InterfaceConstants DEF Prompts
  <1>2. /\ s.press[o] = "item" => o = "context" /\ s.context
        /\ s.press[o] = "entry" => o = "menu" /\ s.menu # No
        /\ o = "error" => s.errors > 0
        /\ o = "spell" => s.spell # "closed"
        /\ o = "emoji" => s.emoji
        /\ o \in DOMAIN s.press
    BY <1>0 DEF Sound, Linked
  <1>3. CASE o \in s.prompts
    <2>1. s.errors = 0 /\ s.spell = "closed" BY <1>0, <1>1, <1>2, <1>3 DEF OnlyTop
    <2>2. "external" \in s.prompts => o = "external" BY <1>0, <1>2, <1>3 DEF OnlyTop
    <2>3. "large" \in s.prompts => o \in {"external", "large"} BY <1>0, <1>2, <1>3 DEF OnlyTop
    <2>4. Top(s) = o
      <3>1. ~(s.errors > 0) BY <2>1
      <3> QED BY <1>1, <1>3, <2>1, <2>2, <2>3, <3>1 DEF Top
    <2> QED BY <1>1, <1>3, <2>4 DEF Owner, No
  <1>4. CASE o = "error"
    <2>1. Top(s) = "error" BY <1>0, <1>2, <1>4, TopCards DEF Sound, Linked
    <2> QED BY <1>4, <2>1 DEF Owner, No
  <1>5. CASE o = "spell"
    <2>1. s.errors = 0 BY <1>0, <1>1, <1>2, <1>5
    <2>2. s.spell # "closed" BY <1>0, <1>2, <1>5 DEF Sound, Linked
    <2>3. Top(s) = "spell" BY <1>0, <2>1, <2>2, TopCards
    <2> QED BY <1>5, <2>3 DEF Owner, No
  <1>6. CASE o = "emoji"
    <2>1. ~ChromeOwnsInput(s) BY <1>0, <1>2, <1>6 DEF Apart
    <2> QED BY <1>6, <2>1 DEF Owner, ChromeOwnsInput
  <1>7. CASE s.press[o] = "item"
    <2>1. o = "context" /\ s.context BY <1>2, <1>7
    <2>2. Top(s) = No BY <1>0, <2>1 DEF Apart
    <2> QED BY <2>1, <2>2 DEF Owner
  <1>8. CASE s.press[o] = "entry"
    <2>1. o = "menu" /\ s.menu # No BY <1>2, <1>8
    <2>2. Top(s) = No /\ ~s.context BY <1>0, <2>1 DEF Apart
    <2> QED BY <2>1, <2>2 DEF Owner
  <1> QED BY <1>3, <1>4, <1>5, <1>6, <1>7, <1>8

LEMMA LiveOfOwner ==
  ASSUME NEW s, Mid(s, FALSE)
  PROVE  Live(s) \subseteq {Owner(s), "find"}
  BY ArmedOnTop DEF Live

\* The button goes down.
Down(s) == Loosen([s EXCEPT !.aim = <<No, No>>, !.held = TRUE], {"find"})

LEMMA PressStarts ==
  ASSUME NEW s, Mid(s, FALSE), s.work = {}, s.document = s.last, s.captured => s.lost,
         NEW o, Live(s) \subseteq {o, "find"}
  PROVE  Pressing(Down(s), o) /\ Same(s, Down(s), {"aim", "held", "loose"})
  <1> DEFINE l == s.loose \cup {"find"}
             t == Down(s)
  <1>0. Sound(s) BY DEF Mid
  <1>12. "find" \in l /\ s.loose \subseteq l /\ l \subseteq {"find", "spell"}
    BY <1>0 DEF Sound, Typed
  <1>1. t = [f \in Fields |-> IF f = "aim" THEN <<No, No>> ELSE IF f = "held" THEN TRUE
                              ELSE IF f = "loose" THEN l ELSE s[f]]
    BY <1>0 DEF Down, Loosen, Sound, Typed, Fields
  <1> HIDE DEF t, l
  <1>2. Same(s, t, {"aim", "held", "loose"}) /\ t.aim = Nowhere /\ t.held /\ t.loose = l
    BY <1>1 DEF Same, Fields, Nowhere
  <1>3. Typed(t) BY <1>0, <1>1, <1>2, <1>12 DEF Sound, Typed, Same, Fields
  <1>4. /\ t.errors = s.errors /\ t.spell = s.spell /\ t.word = s.word /\ t.prompts = s.prompts
        /\ t.menu = s.menu /\ t.context = s.context /\ t.shell = s.shell /\ t.popup = s.popup
        /\ t.find = s.find /\ t.focused = s.focused /\ t.preedit = s.preedit
        /\ t.origin = s.origin /\ t.emoji = s.emoji /\ t.tentative = s.tentative
        /\ t.captured = s.captured /\ t.lost = s.lost
        /\ t.document = s.document /\ t.last = s.last /\ t.press = s.press
        /\ t.effects = s.effects /\ t.misfired = s.misfired /\ t.work = s.work
    BY <1>2 DEF Same, Fields
  <1>5. Sound(t) BY <1>0, <1>3, <1>4 DEF Sound, Popped, Linked, Composed
  <1>6. Held(t) BY <1>2, <1>4 DEF Mid, Held, Pressed, Dragging
  <1>7. Top(t) = Top(s) /\ ChromeOwnsInput(t) = ChromeOwnsInput(s) BY <1>4 DEF Top, ChromeOwnsInput
  <1>8. Apart(t) /\ OnlyTop(t) BY <1>4, <1>7 DEF Mid, Apart, OnlyTop, Field
  <1>9. Mid(t, FALSE) BY <1>4, <1>5, <1>6, <1>8 DEF Mid
  <1>10. Live(t) \subseteq Live(s) \ {"find"} BY <1>2, <1>4, <1>12 DEF Live
  <1>11. Pressing(t, o) BY <1>2, <1>4, <1>9, <1>10 DEF Pressing
  <1> QED BY <1>2, <1>11 DEF t

\* What the loop knows of a pointer event before anyone handles it.
Comes(r, e) ==
  /\ e.kind = "press" => ~r.held
  /\ e.kind = "release" => r.held
  /\ Top(r) = No /\ OnPopup(e) => r.popup \/ r.aim[1] = "context"

LEMMA RouteServes ==
  ASSUME NEW r, Settled(r), NEW e, Comes(r, e), NEW u \in Route(Before(r, e), e)
  PROVE  Serves(Before(r, e), e, u)
  <1> DEFINE s == Before(r, e)
  <1> SUFFICES Serves(s, e, u) OBVIOUS
  <1>0. Ready(r) /\ Sound(r) /\ Mid(r, FALSE) /\ Apart(r) BY SettledReady DEF Settled, Mid
  <1>1. ASSUME NEW o, e.kind = "press" => Live(r) \subseteq {o, "find"}
        PROVE  Starts(s, e, o)
    <2>1. CASE e.kind = "press"
      <3>1. s = Down(r) BY <2>1 DEF Before, Down
      <3>2. r.captured => r.lost BY <2>1 DEF Settled, Comes
      <3>3. Pressing(Down(r), o)
        BY <1>0, <1>1, <2>1, <3>2, PressStarts DEF Ready
      <3> QED BY <2>1, <3>1, <3>3 DEF Starts
    <2>2. CASE e.kind # "press"
      <3>1. s = r BY <2>2 DEF Before
      <3> QED BY <1>0, <2>2, <3>1 DEF Starts, Comes
    <2> QED BY <2>1, <2>2
  <1>2. Same(r, s, {"aim", "held", "loose"})
    <2>1. CASE e.kind = "press"
      <3>1. s = Down(r) BY <2>1 DEF Before, Down
      <3>2. r.captured => r.lost BY <2>1 DEF Settled, Comes
      <3>3. Live(r) \subseteq {Owner(r), "find"} BY <1>0, LiveOfOwner
      <3> QED BY <1>0, <3>1, <3>2, <3>3, PressStarts DEF Ready
    <2>2. CASE e.kind # "press"
      <3>1. s = r BY <2>2 DEF Before
      <3> QED BY <3>1 DEF Same
    <2> QED BY <2>1, <2>2
  <1> HIDE DEF s
  <1>3. /\ s.errors = r.errors /\ s.spell = r.spell /\ s.prompts = r.prompts /\ s.menu = r.menu
        /\ s.context = r.context /\ s.emoji = r.emoji /\ s.captured = r.captured
        /\ s.press = r.press
    BY <1>2 DEF Same, Fields
  <1>4. Top(s) = Top(r) /\ Dragging(s) = Dragging(r) BY <1>3 DEF Top, Dragging, Pressed
  <1>5. Live(r) \subseteq {Owner(r), "find"} BY <1>0, LiveOfOwner
  <1>6. CASE Top(s) # No /\ u \in HandleCardPointer(s, Top(s), e)
    <2>1. Owner(r) = Top(s) BY <1>4, <1>6 DEF Owner
    <2>2. Starts(s, e, Top(s)) BY <1>1, <1>5, <2>1
    <2> QED BY <1>6, <2>2, CardServes
  <1>7. CASE Top(s) = No /\ OnPopup(e) /\ u \in HandlePopupPointer(s, e)
    <2>1. Live(r) \subseteq {"context", "find"}
      <3>1. CASE r.context
        <4>1. Owner(r) = "context" BY <1>4, <1>7, <3>1 DEF Owner
        <4> QED BY <1>5, <4>1
      <3>2. CASE ~r.context
        <4>1. ~r.popup BY <1>0, <3>2 DEF Settled, Sound, Popped
        <4>2. r.aim[1] = "context" BY <1>4, <1>7, <4>1 DEF Comes
        <4>3. r.aim # Nowhere BY <4>2 DEF Nowhere, No
        <4>4. \A o \in Live(r) : r.aim = <<o, r.press[o]>> BY <4>3 DEF Settled, Sure
        <4>5. \A o \in Live(r) : r.aim[1] = o BY <4>4
        <4> QED BY <4>2, <4>5
      <3> QED BY <3>1, <3>2
    <2>2. Starts(s, e, "context") BY <1>1, <2>1
    <2> QED BY <1>7, <2>2, PopupServes
  <1>8. CASE Top(s) = No /\ s.context /\ u \in BesideContextMenu(s, e)
    <2>1. Owner(r) = "context" BY <1>3, <1>4, <1>8 DEF Owner
    <2>2. Starts(s, e, "context") BY <1>1, <1>5, <2>1
    <2> QED BY <1>8, <2>2, BesideServes
  <1>9. CASE /\ Top(s) = No /\ ~s.context /\ ~s.captured /\ ~Dragging(s) /\ s.menu = No
             /\ s.emoji /\ u \in AtEmojiList(s, e)
    <2>1. Owner(r) = "emoji" BY <1>3, <1>4, <1>9 DEF Owner
    <2>2. Starts(s, e, "emoji") BY <1>1, <1>5, <2>1
    <2> QED BY <1>9, <2>2, EmojiServes DEF Bare
  <1>10. CASE /\ Top(s) = No /\ ~s.context
              /\ ~(~s.captured /\ ~Dragging(s) /\ s.menu = No /\ s.emoji)
              /\ u \in AtFindBar(s, e)
    <2>1. Live(r) \subseteq {"menu", "find"}
      <3>1. CASE r.menu # No
        <4>1. Owner(r) = "menu" BY <1>3, <1>4, <1>10, <3>1 DEF Owner
        <4> QED BY <1>5, <4>1
      <3>2. CASE r.menu = No
        <4>1. Owner(r) = "emoji" BY <1>3, <1>4, <1>10, <3>2 DEF Owner
        <4>2. "emoji" \notin DOMAIN r.press
          BY <1>0, <1>3, <1>4, <1>10, <3>2 DEF Mid, Held, Sound, Linked
        <4> QED BY <1>5, <4>1, <4>2 DEF Live
      <3> QED BY <3>1, <3>2
    <2>2. Starts(s, e, "menu") BY <1>1, <2>1
    <2>3. Dragging(s) => s.menu = No
      <3>1. Dragging(r) => "bar" \in DOMAIN r.press BY DEF Dragging, Pressed, No
      <3> QED BY <1>3, <1>4, <3>1 DEF Settled, ChromeOwnsInput
    <2>4. s.emoji => s.captured \/ Dragging(s)
      <3>1. r.emoji => r.menu = No BY <1>0 DEF Apart, ChromeOwnsInput
      <3> QED BY <1>3, <1>10, <3>1
    <2> QED BY <1>10, <2>2, <2>3, <2>4, AtFindBarServes DEF Bare
  <1>11. u \in Route(s, e) BY DEF s
  <1>12. \/ Top(s) # No /\ u \in HandleCardPointer(s, Top(s), e)
         \/ Top(s) = No /\ OnPopup(e) /\ u \in HandlePopupPointer(s, e)
         \/ Top(s) = No /\ s.context /\ u \in BesideContextMenu(s, e)
         \/ /\ Top(s) = No /\ ~s.context /\ ~s.captured /\ ~Dragging(s) /\ s.menu = No
            /\ s.emoji /\ u \in AtEmojiList(s, e)
         \/ /\ Top(s) = No /\ ~s.context
            /\ ~(~s.captured /\ ~Dragging(s) /\ s.menu = No /\ s.emoji)
            /\ u \in AtFindBar(s, e)
    BY <1>11 DEF Route
  <1> QED BY <1>6, <1>7, <1>8, <1>9, <1>10, <1>12

-----------------------------------------------------------------------------
(* The editor's part of a pointer event, and what the loop remembers *)

\* An event has been handled, and what was asked for has not been done.
Over(s) ==
  /\ Good(s, Asked(s)) /\ s.last = s.document
  /\ s.captured /\ ~s.held => s.lost

LEMMA EditorGood ==
  ASSUME NEW s, NEW begun, Good(s, begun), NEW e, e.kind = "press" => s.held /\ s.aim = Nowhere,
         NEW t \in EditorPointer(s, e)
  PROVE  /\ Good(t, begun) /\ Same(s, t, {"tentative", "captured"})
         /\ t.captured => s.captured \/ e.kind = "press"
         /\ e.kind = "release" /\ ~Reviewing(s) => ~t.captured
  <1> DEFINE a == CancelTextInput(s)
             c == [a EXCEPT !.captured = TRUE]
             d == [s EXCEPT !.captured = FALSE]
  <1>0. Sound(s) BY DEF Good, Mid
  <1>1. Less(s, a, {"tentative"}) BY <1>0, Cancelled
  <1>2. Good(a, begun) /\ Sound(a) BY <1>1, StaysClosed, EasedGood DEF Less
  <1>3. CASE t = s /\ ~(e.kind = "release" /\ ~Reviewing(s)) BY <1>3 DEF Same
  <1>4. CASE t = a /\ e.kind # "release"
    <2>1. a.captured = s.captured BY <1>1 DEF Less, Same, Fields
    <2> QED BY <1>1, <1>2, <1>4, <2>1 DEF Less, Same
  <1>5. CASE t = c /\ e.kind = "press"
    <2>1. a.held /\ a.aim = Nowhere BY <1>1, <1>5 DEF Less, Same, Fields
    <2> HIDE DEF a
    <2>2. Typed(c) /\ Same(a, c, {"captured"}) BY <1>2 DEF Sound, Typed, Fields, Same
    <2> HIDE DEF c
    <2>3. /\ c.errors = a.errors /\ c.spell = a.spell /\ c.word = a.word /\ c.prompts = a.prompts
          /\ c.menu = a.menu /\ c.context = a.context /\ c.shell = a.shell /\ c.popup = a.popup
          /\ c.find = a.find /\ c.focused = a.focused /\ c.preedit = a.preedit
          /\ c.origin = a.origin /\ c.emoji = a.emoji /\ c.tentative = a.tentative
          /\ c.held = a.held /\ c.lost = a.lost
          /\ c.document = a.document /\ c.last = a.last /\ c.press = a.press
          /\ c.loose = a.loose /\ c.aim = a.aim
          /\ c.effects = a.effects /\ c.misfired = a.misfired
      BY <2>2 DEF Same, Fields
    <2>4. Sound(c) BY <1>2, <2>2, <2>3 DEF Sound, Popped, Linked, Composed
    <2>5. \A o \in Live(a) : o \in Prompts
      <3> SUFFICES ASSUME NEW o \in Live(a), o \notin Prompts PROVE FALSE OBVIOUS
      <3>1. a.aim = <<o, a.press[o]>> BY <1>2, <2>1 DEF Good, Sure
      <3>2. a.press[o] = No BY <2>1, <3>1 DEF Nowhere
      <3> QED BY <1>2, <3>2 DEF Live, Sound, Linked
    <2>15. a.loose \subseteq {"find", "spell"} BY <1>2 DEF Sound, Typed
    <2>6. "emoji" \notin DOMAIN a.press BY <2>5, <2>15 DEF Live, Prompts
    <2>7. Pressed(a, "menu") # "entry" BY <2>5, <2>15 DEF Live, Prompts, Pressed, No
    <2>8. Held(c) BY <2>1, <2>3, <2>6, <2>7 DEF Held, Pressed
    <2>9. Top(c) = Top(a) /\ ChromeOwnsInput(c) = ChromeOwnsInput(a)
      BY <2>3 DEF Top, ChromeOwnsInput
    <2>10. (Apart(a) => Apart(c)) /\ (OnlyTop(a) => OnlyTop(c))
      BY <2>3, <2>9 DEF Apart, OnlyTop, Field
    <2>11. Mid(c, begun) BY <1>2, <2>3, <2>4, <2>8, <2>10 DEF Good, Mid
    <2>12. Live(c) = Live(a) BY <2>3 DEF Live
    <2>13. Good(c, begun) BY <1>2, <2>3, <2>11, <2>12 DEF Good, Sure
    <2>14. Same(s, c, {"tentative", "captured"}) BY <1>1, <2>2 DEF Less, Same
    <2> QED BY <1>5, <2>13, <2>14
  <1>6. CASE t = d /\ e.kind = "release"
    <2>1. d = [f \in Fields |-> IF f = "captured" THEN FALSE ELSE s[f]]
      BY <1>0 DEF Sound, Typed, Fields
    <2> HIDE DEF d
    <2>2. Same(s, d, {"captured"}) /\ ~d.captured BY <2>1 DEF Same, Fields
    <2>3. Typed(d) BY <1>0, <2>1, <2>2 DEF Sound, Typed, Same, Fields
    <2>4. Sound(d) BY <1>0, <2>2, <2>3 DEF Sound, Popped, Linked, Composed, Same, Fields
    <2>5. Eases(s, d) BY <2>2, <2>4 DEF Eases, Calms, Keeps, Same, Fields
    <2>6. Good(d, begun) BY <2>5, EasedGood
    <2> QED BY <1>6, <2>2, <2>6 DEF Same
  <1>7. \/ t = s /\ ~(e.kind = "release" /\ ~Reviewing(s))
        \/ t = a /\ e.kind # "release"
        \/ t = c /\ e.kind = "press"
        \/ t = d /\ e.kind = "release"
    BY DEF EditorPointer
  <1> QED BY <1>3, <1>4, <1>5, <1>6, <1>7

Noted(s, l, h, q) == [s EXCEPT !.lost = l, !.held = h, !.aim = q]

\* What the loop notes of the event keeps what holds.
LEMMA NotedGood ==
  ASSUME NEW s, NEW begun, Good(s, begun), NEW l, NEW h, h => s.held, NEW q,
         q = s.aim \/ (q = Nowhere /\ ~h), s.captured /\ ~l => q = Nowhere
  PROVE  LET t == Noted(s, l, h, q) IN
         Good(t, begun) /\ Same(s, t, {"lost", "held", "aim"}) /\ t.lost = l /\ t.held = h
  <1> DEFINE t == Noted(s, l, h, q)
  <1>0. Sound(s) BY DEF Good, Mid
  <1>1. t = [f \in Fields |-> IF f = "lost" THEN l ELSE IF f = "held" THEN h
                              ELSE IF f = "aim" THEN q ELSE s[f]]
    BY <1>0 DEF Noted, Sound, Typed, Fields
  <1> HIDE DEF t
  <1>2. Same(s, t, {"lost", "held", "aim"}) /\ t.lost = l /\ t.held = h /\ t.aim = q
    BY <1>1 DEF Same, Fields
  <1>3. Typed(t) BY <1>0, <1>1, <1>2 DEF Sound, Typed, Same, Fields
  <1>4. /\ t.errors = s.errors /\ t.spell = s.spell /\ t.word = s.word /\ t.prompts = s.prompts
        /\ t.menu = s.menu /\ t.context = s.context /\ t.shell = s.shell /\ t.popup = s.popup
        /\ t.find = s.find /\ t.focused = s.focused /\ t.preedit = s.preedit
        /\ t.origin = s.origin /\ t.emoji = s.emoji /\ t.tentative = s.tentative
        /\ t.captured = s.captured
        /\ t.document = s.document /\ t.last = s.last /\ t.press = s.press /\ t.loose = s.loose
        /\ t.effects = s.effects /\ t.misfired = s.misfired
    BY <1>2 DEF Same, Fields
  <1>5. Sound(t) BY <1>0, <1>3, <1>4 DEF Sound, Popped, Linked, Composed
  <1>6. t.captured /\ ~t.lost => t.aim = Nowhere
    <2>1. s.captured /\ ~t.lost => t.aim = Nowhere BY <1>2, Zenon
    <2> QED BY <1>4, <2>1
  <1>7. Held(t) BY <1>4, <1>6 DEF Good, Mid, Held, Pressed, Dragging
  <1>8. Top(t) = Top(s) /\ ChromeOwnsInput(t) = ChromeOwnsInput(s) BY <1>4 DEF Top, ChromeOwnsInput
  <1>9. (Apart(s) => Apart(t)) /\ (OnlyTop(s) => OnlyTop(t))
    BY <1>4, <1>8 DEF Apart, OnlyTop, Field
  <1>10. Mid(t, begun) BY <1>4, <1>5, <1>7, <1>9 DEF Good, Mid
  <1>11. Live(t) = Live(s) BY <1>4 DEF Live
  <1>12. t.held \/ t.aim # Nowhere => (s.held \/ s.aim # Nowhere) /\ t.aim = s.aim
    <2>1. t.held => s.held BY <1>2, Zenon
    <2>2. t.aim = s.aim \/ (t.aim = Nowhere /\ ~t.held) BY <1>2, Zenon
    <2> QED BY <2>1, <2>2
  <1>13. Sure(t, begun) BY <1>4, <1>11, <1>12 DEF Good, Sure
  <1>14. Good(t, begun) BY <1>10, <1>13 DEF Good
  <1> QED BY <1>2, <1>14 DEF t

\* A selection drag takes its release past the chrome to the editor.
LEMMA ReleasePasses ==
  ASSUME NEW r, Settled(r), NEW e, Comes(r, e), e.kind = "release",
         r.captured, ~r.lost, Top(r) = No, ~r.context, NEW w \in Route(r, e)
  PROVE  Eases(r, w) /\ w.given /\ w.spell = "closed"
  <1> DEFINE a == Give(r, TRUE)
  <1>0. Sound(r) /\ r.aim = Nowhere BY SettledReady DEF Settled, Mid, Held
  <1>1. ~OnPopup(e)
    <2>1. ~r.popup BY <1>0 DEF Settled, Sound, Popped
    <2> QED BY <1>0, <2>1 DEF Comes, Nowhere, No
  <1>2. w \in HandleChromePointer(r, e) BY <1>1 DEF Route, AtFindBar
  <1>3. HandleMenuBarPointer(r, e) = Given({r}) BY DEF HandleMenuBarPointer
  <1>4. Given({r}) = {a} BY DEF Given
  <1>5. w \in BelowMenu(r, a, e) BY <1>2, <1>3, <1>4 DEF HandleChromePointer
  <1>6. w = Give(a, TRUE) BY <1>5 DEF BelowMenu, Given
  <1>7. Less(r, a, {"given"}) /\ a.given = TRUE BY <1>0, GiveEases
  <1>8. Sound(a) BY <1>7, StaysClosed
  <1> HIDE DEF a
  <1>9. Less(a, w, {"given"}) /\ w.given = TRUE BY <1>6, <1>8, GiveEases
  <1>10. Eases(r, w) BY <1>7, <1>9, EasesTransitive DEF Less
  <1>11. r.spell = "closed" BY <1>0, TopCards
  <1>12. w.spell = r.spell BY <1>7, <1>9 DEF Less, Same, Fields
  <1> QED BY <1>9, <1>10, <1>11, <1>12

LEMMA PointedOver ==
  ASSUME NEW r, Settled(r), NEW e, Comes(r, e), NEW v \in Pointed(r, e)
  PROVE  Over(v) /\ (e.kind = "leave" => (v.captured => v.lost))
  <1> DEFINE s == Before(r, e)
  <1>1. \E w \in Route(s, e) : \E u \in IF SynchronizeInteraction(w).given
                                        THEN EditorPointer(SynchronizeInteraction(w), e)
                                        ELSE {SynchronizeInteraction(w)} : v = After(r, u, e)
    BY DEF Pointed, HandlePointer
  <1> PICK w \in Route(s, e) : \E u \in IF SynchronizeInteraction(w).given
                                        THEN EditorPointer(SynchronizeInteraction(w), e)
                                        ELSE {SynchronizeInteraction(w)} : v = After(r, u, e)
    BY <1>1
  <1> DEFINE t == SynchronizeInteraction(w)
  <1> PICK u \in IF t.given THEN EditorPointer(t, e) ELSE {t} : v = After(r, u, e)
    OBVIOUS
  <1>2. Serves(s, e, w) BY RouteServes
  <1>3. /\ (e.kind = "press" => s.held = TRUE) /\ (e.kind # "press" => s = r)
        /\ s.captured = r.captured /\ s.lost = r.lost /\ s.last = r.last
    BY SettledReady DEF Before, Loosen, Sound, Typed, Fields
  <1> DEFINE b == Asked(w)
  <1>4. Good(w, b) BY <1>2 DEF Serves, Handled
  <1>5. /\ Good(t, b) /\ Same(w, t, Turning) /\ t.aim \in {w.aim, Nowhere}
        /\ t.last = t.document
        /\ w.document = w.last => Less(w, t, {"press"})
    BY <1>4, SynchronizedGood
  <1> HIDE DEF s, t, b
  <1>6. t.given = w.given /\ t.work = w.work /\ t.held = w.held /\ t.lost = w.lost
        /\ t.captured = w.captured /\ t.spell = w.spell
    BY <1>5 DEF Same, Turning, Fields
  <1>7. /\ t.held = s.held /\ t.lost = s.lost /\ (t.captured => s.captured)
        /\ e.kind = "press" /\ t.given => t.aim = Nowhere
    BY <1>2, <1>5, <1>6 DEF Serves, Handled
  <1>8. /\ Good(u, b) /\ Same(t, u, {"tentative", "captured"})
        /\ u.captured => t.captured \/ (e.kind = "press" /\ t.given)
        /\ e.kind = "release" /\ t.given /\ ~Reviewing(t) => ~u.captured
    <2>1. CASE t.given
      <3>1. e.kind = "press" => t.held /\ t.aim = Nowhere BY <1>3, <1>7, <2>1
      <3>2. u \in EditorPointer(t, e) BY <2>1
      <3> QED BY <1>5, <2>1, <3>1, <3>2, EditorGood
    <2>2. CASE ~t.given
      <3>1. u = t BY <2>2
      <3> QED BY <1>5, <2>2, <3>1 DEF Same
    <2> QED BY <2>1, <2>2
  <1>9. /\ u.given = t.given /\ u.work = t.work /\ u.held = t.held /\ u.lost = t.lost
        /\ u.aim = t.aim /\ u.last = t.last /\ u.document = t.document
    BY <1>8 DEF Same, Fields
  <1> DEFINE l == Lost(r, u, e) /\ ~(e.kind = "press" /\ u.given)
             h == u.held /\ e.kind # "release"
             q == IF e.kind = "release" THEN <<No, No>> ELSE u.aim
  <1>10. v = [u EXCEPT !.lost = l, !.held = h, !.aim = q] BY DEF After
  <1>11. ASSUME e.kind = "release", u.captured PROVE l
    <2>1. s = r /\ t.captured /\ r.captured BY <1>3, <1>7, <1>8, <1>11
    <2>2. SUFFICES ASSUME ~r.lost, Top(r) = No, ~r.context PROVE FALSE
      BY <1>11 DEF Lost
    <2>3. Eases(r, w) /\ w.given /\ w.spell = "closed"
      BY <1>11, <2>1, <2>2, ReleasePasses
    <2>4. ~Reviewing(t) BY <1>6, <2>3 DEF Reviewing
    <2> QED BY <1>6, <1>8, <1>11, <2>3, <2>4
  <1>12. h => u.held OBVIOUS
  <1>13. q = u.aim \/ (q = Nowhere /\ ~h) BY DEF Nowhere
  <1>14. u.captured /\ ~l => q = Nowhere
    <2>1. CASE e.kind = "press" /\ u.given BY <1>7, <1>9, <2>1
    <2>2. CASE e.kind = "press" /\ ~u.given
      <3>1. u.captured => r.captured BY <1>3, <1>7, <1>8, <1>9, <2>2
      <3>2. r.captured => r.lost BY <2>2 DEF Settled, Comes
      <3>3. u.captured => l BY <2>2, <3>1, <3>2 DEF Lost
      <3> QED BY <3>3
    <2>3. CASE e.kind = "release" BY <2>3 DEF Nowhere
    <2>4. CASE e.kind \notin {"press", "release"}
      <3>1. u.captured /\ r.lost => l BY <2>4 DEF Lost
      <3>2. u.lost = r.lost BY <1>3, <1>7, <1>9
      <3>3. u.captured /\ ~u.lost => u.aim = Nowhere BY <1>8 DEF Good, Mid, Held
      <3> QED BY <2>4, <3>1, <3>2, <3>3
    <2> QED BY <2>1, <2>2, <2>3, <2>4
  <1>15. e.kind = "leave" => (u.captured => l) BY DEF Lost
  <1>16. u.captured /\ ~h => l
    <2>1. CASE e.kind = "press"
      <3>1. u.held BY <1>3, <1>7, <1>9, <2>1
      <3> QED BY <2>1, <3>1
    <2>2. CASE e.kind = "release" BY <1>11, <2>2
    <2>3. CASE e.kind \notin {"press", "release"}
      <3>1. u.held = r.held /\ (u.captured => r.captured) BY <1>3, <1>7, <1>8, <1>9, <2>3
      <3>2. r.captured /\ ~r.held => r.lost BY DEF Settled
      <3>3. u.captured /\ r.lost => l BY <2>3 DEF Lost
      <3> QED BY <2>3, <3>1, <3>2, <3>3
    <2> QED BY <2>1, <2>2, <2>3
  <1> HIDE DEF l, h, q
  <1>17. /\ Good(v, b) /\ Same(u, v, {"lost", "held", "aim"}) /\ v.lost = l /\ v.held = h
    <2>1. v = Noted(u, l, h, q) BY <1>10 DEF Noted
    <2>2. Good(u, b) BY <1>8
    <2>3. Good(Noted(u, l, h, q), b) /\ Same(u, Noted(u, l, h, q), {"lost", "held", "aim"})
      BY <2>2, <1>12, <1>13, <1>14, NotedGood
    <2>4. Noted(u, l, h, q).lost = l /\ Noted(u, l, h, q).held = h
      BY <2>2 DEF Noted, Good, Mid, Sound, Typed, Fields
    <2> QED BY <2>1, <2>3, <2>4
  <1>18. /\ v.captured = u.captured /\ v.work = u.work
         /\ v.last = u.last /\ v.document = u.document
    BY <1>17 DEF Same, Fields
  <1>19. v.captured /\ ~v.held => v.lost
    <2>1. u.captured /\ ~v.held => v.lost BY <1>16, <1>17, Zenon
    <2> QED BY <1>18, <2>1
  <1>20. e.kind = "leave" => (v.captured => v.lost)
    <2>1. e.kind = "leave" => (u.captured => v.lost) BY <1>15, <1>17, Zenon
    <2> QED BY <1>18, <2>1
  <1>21. Asked(v) = b BY <1>6, <1>9, <1>18 DEF Asked, b
  <1>22. Good(v, Asked(v)) BY <1>17, <1>21
  <1>23. v.last = v.document BY <1>5, <1>9, <1>18
  <1> QED BY <1>19, <1>20, <1>22, <1>23 DEF Over

\* After it left, the pointer's release may go to another surface.
LEMMA LeftOver ==
  ASSUME NEW s, Over(s), s.captured => s.lost, NEW kept \in BOOLEAN
  PROVE  Over([s EXCEPT !.held = @ /\ kept])
  <1> DEFINE h == s.held /\ kept
             t == [s EXCEPT !.held = h]
             b == Asked(s)
  <1>0. Good(s, b) /\ Sound(s) BY DEF Over, Good, Mid
  <1>1. h => s.held OBVIOUS
  <1> HIDE DEF h, b
  <1>2. s.captured /\ ~s.lost => s.aim = Nowhere OBVIOUS
  <1>3. Good(Noted(s, s.lost, h, s.aim), b) BY <1>0, <1>1, <1>2, NotedGood
  <1>4. t = Noted(s, s.lost, h, s.aim)
    BY <1>0 DEF Noted, Sound, Typed, Fields
  <1>5. /\ t.captured = s.captured /\ t.lost = s.lost /\ t.work = s.work
        /\ t.last = s.last /\ t.document = s.document
    BY <1>0 DEF Sound, Typed, Fields
  <1> HIDE DEF t
  <1>6. Good(t, b) BY <1>3, <1>4
  <1>7. Asked(t) = b BY <1>5 DEF Asked, b
  <1>8. Over(t) BY <1>5, <1>6, <1>7 DEF Over
  <1> QED BY <1>8 DEF t, h

-----------------------------------------------------------------------------
(* What the loop does between two events *)

LEMMA AskedForGood ==
  ASSUME NEW s, Over(s)
  PROVE  Good(AskedFor(s), FALSE) /\ Frame(s, AskedFor(s))
  <1> DEFINE a == IF "dialog" \in s.work THEN DismissContextMenu(DismissOpenMenu(s)) ELSE s
             b == IF "prompt" \in s.work THEN NotifyPromptBegan(a) ELSE a
             c == IF "recent" \in s.work /\ b.menu = "recent" THEN CloseMenuBar(b) ELSE b
  <1>0. Good(s, Asked(s)) /\ Sound(s) BY DEF Over, Good, Mid
  <1>1. Eases(s, a)
    <2> DEFINE m == DismissOpenMenu(s)
    <2>1. Eases(s, m) /\ Sound(m) BY <1>0, OpenMenuDismissed DEF Less, Eases
    <2> HIDE DEF m
    <2>2. Eases(m, DismissContextMenu(m)) BY <2>1, ContextMenuDismissed DEF Less
    <2>3. Eases(s, DismissContextMenu(m)) BY <2>1, <2>2, EasesTransitive
    <2>4. Eases(s, s) BY <1>0, EasesReflexive
    <2> QED BY <2>3, <2>4 DEF m
  <1>2. Good(a, Asked(s)) /\ Frame(s, a) BY <1>0, <1>1, EasedGood, EasesFrame
  <1> HIDE DEF a
  <1>3. Good(b, FALSE) /\ Frame(a, b)
    <2>1. CASE "prompt" \in s.work
      <3>1. Good(a, TRUE) BY <1>2, GoodWhenBegun
      <3> QED BY <2>1, <3>1, PromptBeganGood
    <2>2. CASE "prompt" \notin s.work
      <3>1. Good(a, FALSE) BY <1>2, <2>2 DEF Asked, Good, Mid, Sure
      <3> QED BY <2>2, <3>1 DEF Frame
    <2> QED BY <2>1, <2>2
  <1>4. Sound(b) BY <1>3 DEF Good, Mid
  <1> HIDE DEF b
  <1>5. Eases(b, c) BY <1>4, MenuClosed, EasesReflexive DEF Less
  <1>6. Good(c, FALSE) /\ Frame(b, c) BY <1>3, <1>5, EasedGood, EasesFrame
  <1> HIDE DEF c
  <1>7. Good(AppendFileErrors(c), FALSE) /\ Frame(c, AppendFileErrors(c)) BY <1>6, ErrorsAppended
  <1>8. AskedFor(s) = IF "error" \in s.work THEN AppendFileErrors(c) ELSE c
    BY DEF AskedFor, c, b, a
  <1>9. Frame(s, c) BY <1>2, <1>3, <1>6 DEF Frame
  <1>10. Frame(s, AppendFileErrors(c)) BY <1>7, <1>9, FrameTransitive
  <1> QED BY <1>6, <1>7, <1>8, <1>9, <1>10

\* The compositor took the popup down, or never put it up.
LEMMA PopupGone ==
  ASSUME NEW s, s = [f \in Fields |-> s[f]]
  PROVE  [NotifyContextPopupDone(s) EXCEPT !.popup = FALSE] =
           [f \in Fields |->
              IF f \in {"context", "shell", "popup"} THEN FALSE
              ELSE IF f = "press" THEN Drop(s, {"context"}).press
              ELSE IF f = "aim" THEN (IF s.aim[1] = "context" THEN Nowhere ELSE s.aim)
              ELSE s[f]]
  <1> DEFINE d == Drop(s, {"context"})
             p == d.press
             q == IF s.aim[1] = "context" THEN Nowhere ELSE s.aim
             c == [d EXCEPT !.context = FALSE]
             a == Spoil(c, {"context"})
  <1>1. d = [f \in Fields |-> IF f = "press" THEN p ELSE s[f]]
    BY DEF Drop, Fields
  <1> HIDE DEF d, p
  <1>2. c = [f \in Fields |-> IF f = "context" THEN FALSE ELSE IF f = "press" THEN p ELSE s[f]]
    BY <1>1 DEF Fields
  <1>3. c.aim = s.aim BY <1>2 DEF Fields
  <1> HIDE DEF c
  <1>4. a = [f \in Fields |-> IF f = "context" THEN FALSE ELSE IF f = "press" THEN p
                              ELSE IF f = "aim" THEN q ELSE s[f]]
    <2>1. CASE s.aim[1] = "context"
      <3>1. a = [c EXCEPT !.aim = Nowhere] BY <1>3, <2>1 DEF Spoil, Nowhere
      <3>2. q = Nowhere BY <2>1
      <3> HIDE DEF a, q
      <3> QED BY <1>2, <3>1, <3>2 DEF Fields
    <2>2. CASE s.aim[1] # "context"
      <3>1. a = c BY <1>3, <2>2 DEF Spoil
      <3>2. q = s.aim BY <2>2
      <3> HIDE DEF a, q
      <3>3. a.aim = s.aim BY <1>3, <3>1
      <3> QED BY <1>2, <3>1, <3>2 DEF Fields
    <2> QED BY <2>1, <2>2
  <1> HIDE DEF a, q
  <1>5. NotifyContextPopupDone(s) = [a EXCEPT !.shell = FALSE]
    BY DEF NotifyContextPopupDone, CloseContextMenu, a, c, d
  <1>6. [NotifyContextPopupDone(s) EXCEPT !.popup = FALSE] =
           [f \in Fields |-> IF f \in {"context", "shell", "popup"} THEN FALSE
                             ELSE IF f = "press" THEN p ELSE IF f = "aim" THEN q ELSE s[f]]
    BY <1>4, <1>5 DEF Fields
  <1> QED BY <1>6 DEF p, d, q

LEMMA PopupGoneEases ==
  ASSUME NEW s, Sound(s), s.effects = << >>
  PROVE  LET t == [NotifyContextPopupDone(s) EXCEPT !.popup = FALSE] IN
         Less(s, t, {"context", "shell", "popup", "press", "aim"})
  <1> DEFINE t == [NotifyContextPopupDone(s) EXCEPT !.popup = FALSE]
             d == Drop(s, {"context"})
             p == d.press
             q == IF s.aim[1] = "context" THEN Nowhere ELSE s.aim
  <1>1. Less(s, d, {"press"}) /\ DOMAIN d.press = DOMAIN s.press \ {"context"} BY Dropped
  <1>2. /\ DOMAIN p = DOMAIN s.press \ {"context"} /\ \A o \in DOMAIN p : p[o] = s.press[o]
    BY <1>1 DEF Less, Eases, Calms
  <1> HIDE DEF d
  <1>3. t = [f \in Fields |->
              IF f \in {"context", "shell", "popup"} THEN FALSE
              ELSE IF f = "press" THEN p ELSE IF f = "aim" THEN q ELSE s[f]]
    BY PopupGone DEF Sound, Typed, d
  <1> HIDE DEF t, p, q
  <1>4. /\ Same(s, t, {"context", "shell", "popup", "press", "aim"})
        /\ t.context = FALSE /\ t.shell = FALSE /\ t.popup = FALSE /\ t.press = p /\ t.aim = q
    BY <1>3 DEF Same, Fields
  <1>5. Typed(t) BY <1>3, <1>4 DEF Sound, Typed, Same, Fields
  <1>6. Popped(t) BY <1>4 DEF Popped, Same, Fields
  <1>7. Linked(t) /\ Composed(t) BY <1>2, <1>4 DEF Sound, Linked, Composed, Same, Fields
  <1>8. Calms(s, t) BY <1>2, <1>4 DEF Calms, Same, Fields
  <1>9. Keeps(s, t) BY <1>2, <1>4 DEF Keeps, Live, q
  <1> QED BY <1>4, <1>5, <1>6, <1>7, <1>8, <1>9 DEF Less, Eases, Sound, t

\* Settled, but for who got the event.
Quiet(s) ==
  /\ Good(s, FALSE) /\ s.effects = << >> /\ s.work = {} /\ s.last = s.document
  /\ "bar" \in DOMAIN s.press => ~ChromeOwnsInput(s)
  /\ s.captured /\ ~s.held => s.lost

LEMMA EasedQuiet ==
  ASSUME NEW s, NEW t, Quiet(s), Eases(s, t), t.effects = << >>
  PROVE  Quiet(t)
  <1>1. Good(t, FALSE) BY EasedGood DEF Quiet
  <1>2. Sound(s) /\ Sound(t) BY <1>1 DEF Quiet, Good, Mid
  <1>3. ChromeOwnsInput(t) => ChromeOwnsInput(s) BY <1>2, ChromeShrinks DEF Eases
  <1>4. /\ t.work = s.work /\ t.last = s.last /\ t.document = s.document /\ t.held = s.held
        /\ t.lost = s.lost /\ (t.captured => s.captured) /\ DOMAIN t.press \subseteq DOMAIN s.press
    BY DEF Eases, Calms
  <1> QED BY <1>1, <1>3, <1>4 DEF Quiet

LEMMA QuietRests ==
  ASSUME NEW s, Quiet(s)
  PROVE  Settled(Rest(s))
  <1> DEFINE w == FALSE
             g == [s EXCEPT !.given = w]
             l == g.loose \cap DOMAIN g.press
             t == [g EXCEPT !.loose = l]
  <1>0. Good(s, FALSE) BY DEF Quiet
  <1> HIDE DEF w
  <1>6. Good(g, FALSE) /\ Same(s, g, {"given"}) /\ g.given = w BY <1>0, GivenGood
  <1>7. Rest(s) = t BY <1>0 DEF Rest, w, Good, Mid, Sound, Typed, Fields
  <1>8. Sound(g) BY <1>6 DEF Good, Mid
  <1>9. /\ \A o \in DOMAIN g.press : o \in g.loose => o \in l
        /\ l \subseteq {"find", "spell"}
    BY <1>8 DEF Sound, Typed
  <1> HIDE DEF g, l
  <1>10. t = [f \in Fields |-> IF f = "loose" THEN l ELSE g[f]]
    BY <1>8 DEF Sound, Typed, Fields
  <1> HIDE DEF t
  <1>11. Same(g, t, {"loose"}) /\ t.loose = l BY <1>10 DEF Same, Fields
  <1>12. Typed(t) BY <1>8, <1>9, <1>10, <1>11 DEF Sound, Typed, Same, Fields
  <1>13. Sound(t) BY <1>8, <1>11, <1>12 DEF Sound, Popped, Linked, Composed, Same, Fields
  <1>14. Eases(g, t) BY <1>9, <1>11, <1>13 DEF Eases, Calms, Keeps, Same, Fields
  <1>1. Good(t, FALSE) /\ Same(s, t, {"given", "loose"}) /\ t.given = w
    BY <1>6, <1>11, <1>14, EasedGood DEF Same, Fields
  <1>2. /\ t.effects = s.effects /\ t.work = s.work /\ t.last = s.last /\ t.document = s.document
        /\ t.press = s.press /\ t.captured = s.captured /\ t.held = s.held /\ t.lost = s.lost
        /\ t.errors = s.errors /\ t.spell = s.spell /\ t.prompts = s.prompts
        /\ t.menu = s.menu /\ t.context = s.context
    BY <1>1 DEF Same, Fields
  <1>3. ChromeOwnsInput(t) = ChromeOwnsInput(s) BY <1>2 DEF ChromeOwnsInput, Top
  <1>4. t.given = FALSE BY <1>1 DEF w
  <1>5. Settled(t) BY <1>1, <1>2, <1>3, <1>4 DEF Settled, Quiet, Good
  <1> QED BY <1>5, <1>7

(* Nothing is left to apply; the popup is v and the armed controls are p. *)
AtRest(s, v, p) ==
  [f \in Fields |-> IF f = "effects" THEN << >> ELSE IF f = "work" THEN {}
                    ELSE IF f = "popup" THEN v ELSE IF f = "press" THEN p ELSE s[f]]
Unbarred(s) ==
  IF Pressed(s, "bar") # No /\ ChromeOwnsInput(s) THEN Drop(s, {"bar"}).press ELSE s.press
Emptied(s, v) == [s EXCEPT !.effects = << >>, !.work = {}, !.popup = v]

LEMMA EmptiedSynchronizes ==
  ASSUME NEW s, Sound(s), s.last = s.document, NEW v
  PROVE  SynchronizeInteraction(Emptied(s, v)) = AtRest(s, v, Unbarred(s))
  <1> DEFINE x == Emptied(s, v)
             d == Drop(x, {"bar"})
  <1>1. x = AtRest(s, v, s.press) BY DEF Emptied, AtRest, Sound, Typed, Fields
  <1> HIDE DEF x
  <1>2. /\ x.document = x.last /\ x.press = s.press /\ x.errors = s.errors /\ x.spell = s.spell
        /\ x.prompts = s.prompts /\ x.menu = s.menu /\ x.context = s.context
    BY <1>1 DEF AtRest, Fields
  <1>3. Pressed(x, "bar") = Pressed(s, "bar") /\ ChromeOwnsInput(x) = ChromeOwnsInput(s)
    BY <1>2 DEF Pressed, ChromeOwnsInput, Top
  <1>4. CASE ~(Pressed(s, "bar") # No /\ ChromeOwnsInput(s))
    <2>1. SynchronizeInteraction(x) = x BY <1>2, <1>3, <1>4 DEF SynchronizeInteraction
    <2> QED BY <1>1, <1>4, <2>1 DEF Unbarred, x
  <1>5. CASE Pressed(s, "bar") # No /\ ChromeOwnsInput(s)
    <2>1. SynchronizeInteraction(x) = d
      BY <1>2, <1>3, <1>5 DEF SynchronizeInteraction, CancelScrollBarInteraction
    <2>2. Unbarred(s) = Drop(s, {"bar"}).press BY <1>5 DEF Unbarred
    <2> DEFINE p == [o \in DOMAIN s.press \ {"bar"} |-> s.press[o]]
    <2>3. CASE DOMAIN s.press \cap {"bar"} = {}
      <3>1. d = x /\ Drop(s, {"bar"}) = s BY <1>2, <2>3 DEF Drop
      <3> QED BY <1>1, <2>1, <2>2, <3>1 DEF x
    <2>4. CASE DOMAIN s.press \cap {"bar"} # {}
      <3>1. Drop(s, {"bar"}) = [s EXCEPT !.press = p] BY <2>4 DEF Drop
      <3>2. d = [x EXCEPT !.press = p] BY <1>2, <2>4 DEF Drop
      <3> HIDE DEF p, d
      <3>3. Drop(s, {"bar"}).press = p BY <3>1 DEF Sound, Typed, Fields
      <3>4. d = AtRest(s, v, p) BY <1>1, <3>2 DEF AtRest, Fields
      <3> QED BY <2>1, <2>2, <3>3, <3>4 DEF x
    <2> QED BY <2>3, <2>4
  <1> QED BY <1>4, <1>5

LEMMA EmptiedGood ==
  ASSUME NEW s, Good(s, FALSE)
  PROVE  LET t == Emptied(s, s.shell) IN
         Good(t, FALSE) /\ Same(s, t, {"effects", "work", "popup"})
         /\ t.effects = << >> /\ t.work = {} /\ t.popup = s.shell
  <1> DEFINE t == Emptied(s, s.shell)
  <1>0. Sound(s) BY DEF Good, Mid
  <1>1. t = AtRest(s, s.shell, s.press) BY <1>0 DEF Emptied, AtRest, Sound, Typed, Fields
  <1> HIDE DEF t
  <1>2. /\ Same(s, t, {"effects", "work", "popup"}) /\ t.effects = << >> /\ t.work = {}
        /\ t.popup = s.shell
    BY <1>1 DEF AtRest, Same, Fields
  <1>3. /\ t.errors = s.errors /\ t.spell = s.spell /\ t.word = s.word /\ t.prompts = s.prompts
        /\ t.menu = s.menu /\ t.context = s.context /\ t.shell = s.shell
        /\ t.find = s.find /\ t.focused = s.focused /\ t.preedit = s.preedit
        /\ t.origin = s.origin /\ t.emoji = s.emoji /\ t.tentative = s.tentative
        /\ t.captured = s.captured /\ t.held = s.held /\ t.lost = s.lost
        /\ t.document = s.document /\ t.last = s.last /\ t.press = s.press /\ t.loose = s.loose
        /\ t.aim = s.aim
        /\ t.misfired = s.misfired /\ t.control = s.control
    BY <1>2 DEF Same, Fields
  <1>4. t.effects \in Seq({"show", "close"}) BY <1>2
  <1>5. t = [f \in Fields |-> t[f]] BY <1>1 DEF AtRest
  <1>6. Typed(t) BY <1>0, <1>2, <1>3, <1>4, <1>5 DEF Sound, Typed
  <1>7. Popped(t) BY <1>0, <1>2, <1>3 DEF Sound, Popped
  <1>8. Linked(t) /\ Composed(t) BY <1>0, <1>3 DEF Sound, Linked, Composed
  <1>9. Held(t) BY <1>3 DEF Good, Mid, Held, Pressed, Dragging
  <1>10. Top(t) = Top(s) /\ ChromeOwnsInput(t) = ChromeOwnsInput(s)
    BY <1>3 DEF Top, ChromeOwnsInput
  <1>11. Apart(t) /\ OnlyTop(t) BY <1>3, <1>10 DEF Good, Mid, Apart, OnlyTop, Field
  <1>12. Mid(t, FALSE) BY <1>3, <1>6, <1>7, <1>8, <1>9, <1>11 DEF Good, Mid, Sound
  <1>13. Live(t) = Live(s) BY <1>3 DEF Live
  <1>14. Sure(t, FALSE) BY <1>3, <1>13 DEF Good, Sure
  <1> QED BY <1>2, <1>12, <1>14 DEF Good, t

\* What the popup was before it went does not show after.
LEMMA GoneAlike ==
  ASSUME NEW s, NEW v, NEW w, NEW p
  PROVE  [NotifyContextPopupDone(AtRest(s, v, p)) EXCEPT !.popup = FALSE] =
         [NotifyContextPopupDone(AtRest(s, w, p)) EXCEPT !.popup = FALSE]
  <1> DEFINE x == AtRest(s, v, p)
             y == AtRest(s, w, p)
             a == Drop(x, {"context"}).press
             b == Drop(y, {"context"}).press
  <1>1. /\ x = [f \in Fields |-> x[f]] /\ y = [f \in Fields |-> y[f]]
        /\ x.press = p /\ y.press = p
        /\ \A f \in Fields \ {"popup"} : x[f] = y[f]
    BY DEF AtRest, Fields
  <1> HIDE DEF x, y
  <1> DEFINE q == [o \in DOMAIN p \ {"context"} |-> p[o]]
  <1>2. a = b
    <2>1. CASE DOMAIN p \cap {"context"} = {} BY <1>1, <2>1 DEF Drop
    <2>2. CASE DOMAIN p \cap {"context"} # {}
      <3>1. Drop(x, {"context"}) = [x EXCEPT !.press = q] BY <1>1, <2>2 DEF Drop
      <3>2. Drop(y, {"context"}) = [y EXCEPT !.press = q] BY <1>1, <2>2 DEF Drop
      <3> HIDE DEF q
      <3> QED BY <1>1, <3>1, <3>2 DEF Fields
    <2> QED BY <2>1, <2>2
  <1>3. [NotifyContextPopupDone(x) EXCEPT !.popup = FALSE] =
           [f \in Fields |->
              IF f \in {"context", "shell", "popup"} THEN FALSE
              ELSE IF f = "press" THEN a
              ELSE IF f = "aim" THEN (IF x.aim[1] = "context" THEN Nowhere ELSE x.aim)
              ELSE x[f]]
    BY <1>1, PopupGone
  <1>4. [NotifyContextPopupDone(y) EXCEPT !.popup = FALSE] =
           [f \in Fields |->
              IF f \in {"context", "shell", "popup"} THEN FALSE
              ELSE IF f = "press" THEN b
              ELSE IF f = "aim" THEN (IF y.aim[1] = "context" THEN Nowhere ELSE y.aim)
              ELSE y[f]]
    BY <1>1, PopupGone
  <1>5. x.aim = y.aim BY <1>1 DEF Fields
  <1> HIDE DEF a, b
  <1>6. [NotifyContextPopupDone(x) EXCEPT !.popup = FALSE] =
        [NotifyContextPopupDone(y) EXCEPT !.popup = FALSE]
    BY <1>1, <1>2, <1>3, <1>4, <1>5
  <1> QED BY <1>6 DEF x, y

LEMMA SynchronizedQuiet ==
  ASSUME NEW s, Good(s, FALSE), s.last = s.document, s.captured /\ ~s.held => s.lost,
         NEW u \in Synchronized(s)
  PROVE  Quiet(u)
  <1> DEFINE p == Unbarred(s)
             x == Emptied(s, s.shell)
             y == AtRest(s, s.shell, p)
             g == [NotifyContextPopupDone(y) EXCEPT !.popup = FALSE]
             z == AtRest(s, s.popup, p)
  <1>0. Sound(s) BY DEF Good, Mid
  <1>1. SynchronizeInteraction(x) = y BY <1>0, EmptiedSynchronizes
  <1>2. /\ Good(x, FALSE) /\ Same(s, x, {"effects", "work", "popup"})
        /\ x.effects = << >> /\ x.work = {} /\ x.popup = s.shell
    BY EmptiedGood
  <1>3. SynchronizeInteraction([s EXCEPT !.effects = << >>, !.work = {}]) = z
    <2>1. [s EXCEPT !.effects = << >>, !.work = {}] = Emptied(s, s.popup)
      BY <1>0 DEF Emptied, Sound, Typed, Fields
    <2> QED BY <1>0, <2>1, EmptiedSynchronizes
  <1>4. x.document = x.last BY <1>2 DEF Same, Fields
  <1> HIDE DEF x
  <1>5. Good(y, FALSE) /\ Less(x, y, {"press"}) /\ ("bar" \in DOMAIN y.press => ~ChromeOwnsInput(y))
    <2> HIDE DEF y
    <2> DEFINE w == FALSE
    <2>1. Good(x, w) BY <1>2
    <2> HIDE DEF w
    <2>2. Good(y, w) /\ ("bar" \in DOMAIN y.press => ~ChromeOwnsInput(y)) /\ Less(x, y, {"press"})
      BY <1>1, <1>4, <2>1, SynchronizedGood
    <2> QED BY <2>2 DEF w
  <1>6. /\ y.effects = << >> /\ y.work = {} /\ y.last = y.document
        /\ y.captured = s.captured /\ y.held = s.held /\ y.lost = s.lost
    BY DEF AtRest, Fields
  <1>7. Quiet(y) BY <1>5, <1>6 DEF Quiet
  <1>8. Quiet(g)
    <2>1. Sound(y) BY <1>5 DEF Good, Mid
    <2> HIDE DEF y
    <2>2. Less(y, g, {"context", "shell", "popup", "press", "aim"}) BY <1>6, <2>1, PopupGoneEases
    <2> HIDE DEF g
    <2>3. g.effects = << >> BY <1>6, <2>2 DEF Less, Same, Fields
    <2> QED BY <1>7, <2>2, <2>3, EasedQuiet DEF Less
  <1>9. [NotifyContextPopupDone(z) EXCEPT !.popup = FALSE] = g BY GoneAlike
  <1>10. ASSUME NEW w PROVE [z EXCEPT !.popup = w] = AtRest(s, w, p)
    BY DEF AtRest, Fields
  <1>11. u \in ApplyEffects(z, s.effects) BY <1>3 DEF Synchronized
  <1>12. Popped(s) /\ s.shell \in BOOLEAN BY <1>0 DEF Sound, Typed
  <1> HIDE DEF p, g
  <1>13. CASE s.effects = << >>
    <2>1. u = z BY <1>11, <1>13 DEF ApplyEffects
    <2>2. s.popup = s.shell BY <1>12, <1>13 DEF Popped
    <2> QED BY <1>7, <2>1, <2>2
  <1>14. CASE s.effects # << >> /\ s.effects[Len(s.effects)] = "show"
    <2>1. s.shell = TRUE BY <1>12, <1>14 DEF Popped
    <2>2. u \in {[z EXCEPT !.popup = TRUE], [NotifyContextPopupDone(z) EXCEPT !.popup = FALSE]}
      BY <1>11, <1>14 DEF ApplyEffects, ShowContextMenuPopup
    <2> DEFINE w == TRUE
    <2>3. u = [z EXCEPT !.popup = w] \/ u = g BY <1>9, <2>2
    <2>4. s.shell = w BY <2>1
    <2> HIDE DEF w
    <2>5. u = AtRest(s, w, p) \/ u = g BY <1>10, <2>3
    <2>6. AtRest(s, w, p) = y BY <2>4
    <2> QED BY <1>7, <1>8, <2>5, <2>6
  <1>15. CASE s.effects # << >> /\ s.effects[Len(s.effects)] # "show"
    <2>1. s.shell = FALSE BY <1>12, <1>15 DEF Popped
    <2> DEFINE w == FALSE
    <2>2. u = [z EXCEPT !.popup = w] BY <1>11, <1>15 DEF ApplyEffects
    <2>3. s.shell = w BY <2>1
    <2> HIDE DEF w
    <2>4. u = AtRest(s, w, p) BY <1>10, <2>2
    <2>5. AtRest(s, w, p) = y BY <2>3
    <2> QED BY <1>7, <2>4, <2>5
  <1> QED BY <1>13, <1>14, <1>15

LEMMA OverSettles ==
  ASSUME NEW t, Over(t), NEW u \in ApplyShellEffects(t)
  PROVE  Settled(Rest(u))
  <1> DEFINE s == IF t.work = {} THEN t ELSE AskedFor(t)
  <1>1. Good(s, FALSE) /\ Frame(t, s)
    <2>1. CASE t.work = {}
      <3>1. ~Asked(t) BY <2>1 DEF Asked
      <3>2. Good(t, FALSE) BY <3>1 DEF Over, Good, Mid, Sure
      <3> QED BY <2>1, <3>2 DEF Frame
    <2>2. CASE t.work # {} BY <2>2, AskedForGood
    <2> QED BY <2>1, <2>2
  <1>2. u \in Synchronized(s) BY DEF ApplyShellEffects
  <1> HIDE DEF s
  <1>3. s.last = s.document /\ (s.captured /\ ~s.held => s.lost) BY <1>1 DEF Over, Frame
  <1>4. Quiet(u) BY <1>1, <1>2, <1>3, SynchronizedQuiet
  <1> QED BY <1>4, QuietRests

-----------------------------------------------------------------------------
(* The keyboard *)

LEMMA HandledOver ==
  ASSUME NEW s, Settled(s), NEW t, Handled(s, t), t.last = t.document
  PROVE  Over(t)
  <1>1. s.captured /\ ~s.held => s.lost BY DEF Settled
  <1> QED BY <1>1 DEF Over, Handled

LEMMA HandledSynchronized ==
  ASSUME NEW s, Settled(s), NEW t, Handled(s, t)
  PROVE  Over(SynchronizeInteraction(t))
  <1> DEFINE u == SynchronizeInteraction(t)
             b == Asked(t)
  <1>1. Good(t, b) BY DEF Handled
  <1>2. Good(u, b) /\ Same(t, u, Turning) /\ u.last = u.document BY <1>1, SynchronizedGood
  <1> HIDE DEF u
  <1>3. u.work = t.work /\ u.captured = t.captured /\ u.held = t.held /\ u.lost = t.lost
    BY <1>2 DEF Same, Turning, Fields
  <1>4. u.captured /\ ~u.held => u.lost BY <1>3 DEF Settled, Handled
  <1>5. Asked(u) = b BY <1>3 DEF Asked
  <1>6. Over(u) BY <1>2, <1>4, <1>5 DEF Over
  <1> QED BY <1>6 DEF u

LEMMA SpellcheckKeyboard ==
  ASSUME NEW s, Ready(s), Top(s) = "spell", NEW key, NEW t \in HandleSpellcheckKeyboard(s, key)
  PROVE  Handled(s, t)
  <1> DEFINE c == Drop(s, {"bar"})
             d == DismissContextMenu(c)
  <1>0. Sound(s) BY DEF Ready, Good, Mid
  <1>1. Less(s, c, {"press"}) BY <1>0, Dropped
  <1>2. Sound(c) BY <1>1, StaysClosed
  <1> HIDE DEF c
  <1>3. Less(c, d, {"context", "shell", "press", "aim", "effects"}) BY <1>2, ContextMenuDismissed
  <1>4. Eases(s, d) BY <1>1, <1>3, EasesTransitive DEF Less
  <1>5. Ready(d) /\ Handled(s, d) /\ Sound(d) BY <1>4, EasedReady DEF Eases
  <1>6. Top(d) = "spell"
    <2>1. d.errors = s.errors /\ d.spell = s.spell /\ d.prompts = s.prompts
      BY <1>1, <1>3 DEF Less, Same, Fields
    <2> QED BY <2>1 DEF Top
  <1>7. d = DismissContextMenu(CancelScrollBarInteraction(s))
    BY DEF d, c, CancelScrollBarInteraction
  <1> HIDE DEF d
  <1>8. d.spell # "closed" /\ d.control \in {"yes", "no", "word"}
    BY <1>5, <1>6, TopCards DEF Sound, Typed
  <1>9. ASSUME NEW hit \in {"yes", "no", "word"}, t \in ActivateSpellcheckControl(d, hit)
        PROVE  Handled(s, t)
    <2> DEFINE card == Top(d)
    <2>1. t \in Activate(d, card, hit) BY <1>6, <1>9 DEF Activate
    <2>2. card # No BY <1>6 DEF No
    <2> HIDE DEF card
    <2>3. Handled(d, t)
      <3>1. card = Top(d) BY DEF card
      <3> QED BY <1>5, <1>9, <2>1, <2>2, <3>1, Activated
    <2> QED BY <1>4, <2>3, EasedThenHandled
  <1>10. CASE t = CloseSpellcheck(d)
    <2>1. Eases(d, t) BY <1>5, <1>10, SpellcheckClosed DEF Less
    <2> QED BY <1>5, <2>1, HandledThenEased
  <1>11. CASE t \in CycleFocus(d)
    <2>1. Eases(d, t) BY <1>5, <1>6, <1>11, FocusCycled DEF Less
    <2> QED BY <1>5, <2>1, HandledThenEased
  <1>12. CASE t \in SessionBegun(d)
    <2>1. Eases(d, t) BY <1>5, <1>8, <1>12, SessionsEase DEF Less
    <2> QED BY <1>5, <2>1, HandledThenEased
  <1>13. CASE t = d BY <1>5, <1>13
  <1>14. \/ t = CloseSpellcheck(d) \/ t \in CycleFocus(d) \/ t = d \/ t \in SessionBegun(d)
         \/ t \in ActivateSpellcheckControl(d, "yes")
         \/ t \in ActivateSpellcheckControl(d, d.control)
    BY <1>7 DEF HandleSpellcheckKeyboard
  <1> QED BY <1>8, <1>9, <1>10, <1>11, <1>12, <1>13, <1>14

LEMMA CardKeyboard ==
  ASSUME NEW s, Ready(s), NEW card, card = Top(s), card # No, card # "spell", NEW key,
         NEW t \in HandleCardKeyboard(s, card, key)
  PROVE  Handled(s, t)
  <1> DEFINE d == UnderCard(s, card)
  <1>0. Sound(s) BY DEF Ready, Good, Mid
  <1>1. Less(s, d, Beneath) /\ Top(d) = card BY <1>0, UnderCardEases
  <1>2. d = DismissContextMenu(BlurFindField(CancelScrollBarInteraction(s))) BY DEF UnderCard
  <1> HIDE DEF d
  <1>3. Eases(s, d) /\ Ready(d) /\ Handled(s, d) /\ Sound(d)
    BY <1>1, EasedReady DEF Less, Eases
  <1>4. CASE card = "error" /\ t = DismissFileError(d)
    <2>1. d.errors > 0 BY <1>1, <1>3, <1>4, TopCards
    <2>2. Eases(d, t) BY <1>3, <1>4, <2>1, FileErrorDismissed DEF Less
    <2> QED BY <1>3, <2>2, HandledThenEased
  <1>5. CASE t = d BY <1>3, <1>5
  <1>6. CASE t \in Outcomes(d)
    <2>1. Handled(d, t) BY <1>3, <1>6, OutcomesHandled
    <2> QED BY <1>3, <2>1, EasedThenHandled
  <1>7. (card = "error" /\ t = DismissFileError(d)) \/ t = d \/ t \in Outcomes(d)
    BY <1>2 DEF HandleCardKeyboard
  <1> QED BY <1>4, <1>5, <1>6, <1>7

LEMMA ContextMenuKeyboard ==
  ASSUME NEW s, Ready(s), NEW key, NEW t \in HandleContextMenuKeyboard(s, key)
  PROVE  Handled(s, t)
  <1>0. Sound(s) BY DEF Ready, Good, Mid
  <1>1. t \in {s, Drop(s, {"context"}), DismissContextMenu(s)}
    BY DEF HandleContextMenuKeyboard, DismissContextMenu
  <1>2. Eases(s, t) BY <1>0, <1>1, EasesReflexive, Dropped, ContextMenuDismissed DEF Less
  <1> QED BY <1>2, EasedReady

LEMMA OpenMenuKeyboard ==
  ASSUME NEW s, Ready(s), s.menu # No, Top(s) = No, NEW key,
         NEW t \in HandleOpenMenuKeyboard(s, key)
  PROVE  Handled(s, t)
  <1> DEFINE c == CloseMenuBar(s)
  <1>0. Sound(s) BY DEF Ready, Good, Mid
  <1>1. Eases(s, c) BY <1>0, MenuClosed DEF Less
  <1> HIDE DEF c
  <1>2. Ready(c) /\ Handled(s, c) /\ Sound(c) BY <1>1, EasedReady DEF Eases
  <1>3. Top(c) = No BY <1>0, <1>1, <1>2, ChromeShrinks DEF Eases
  <1>4. CASE t = c BY <1>2, <1>4
  <1>5. CASE t \in {OpenMenuFromKeyboard(s, m) : m \in Headings}
    <2>1. Eases(s, t) BY <1>0, <1>5, MenuMoved DEF Less
    <2> QED BY <2>1, EasedReady
  <1>6. CASE t = Drop(s, {"menu"})
    <2>1. Eases(s, t) BY <1>0, <1>6, Dropped DEF Less
    <2> QED BY <2>1, EasedReady
  <1>7. CASE t = s
    <2>1. Eases(s, t) BY <1>0, <1>7, EasesReflexive
    <2> QED BY <2>1, EasedReady
  <1>8. CASE t \in Commands(c)
    <2>1. Handled(c, t) BY <1>2, <1>3, <1>8, CommandsHandled
    <2> QED BY <1>1, <2>1, EasedThenHandled
  <1>9. \/ t = c \/ t \in {OpenMenuFromKeyboard(s, m) : m \in Headings}
        \/ t = Drop(s, {"menu"}) \/ t = s \/ t \in Commands(c)
    BY DEF HandleOpenMenuKeyboard, c
  <1> QED BY <1>4, <1>5, <1>6, <1>7, <1>8, <1>9

\* A menu opened from the keyboard takes the place of the field and of what composes.
LEMMA MenuFromKeyboard ==
  ASSUME NEW s, Ready(s), Bare(s), s.menu = No, NEW m \in Headings
  PROVE  Handled(s, CloseEmojiCompletion(MenuOpened(OpenMenuFromKeyboard(s, m))))
  <1> DEFINE d == Drop(s, {"menu"})
             a == [d EXCEPT !.menu = m]
             b == Spoil(a, {"menu"})
             c == MenuOpened(b)
             t == CloseEmojiCompletion(c)
  <1>0. Good(s, FALSE) /\ Sound(s) /\ m # No BY DEF Ready, Good, Mid, Headings, No
  <1>1. Less(s, d, {"press"}) /\ "menu" \notin DOMAIN d.press BY <1>0, Dropped
  <1>2. Ready(d) /\ Sound(d) /\ Good(d, FALSE) BY <1>1, EasedReady, StaysClosed DEF Less, Ready
  <1> HIDE DEF d
  <1>3. Typed(a) /\ Same(d, a, {"menu"}) /\ a.menu = m
    BY <1>0, <1>2 DEF Same, Fields, Sound, Typed
  <1> HIDE DEF a
  <1>4. /\ a.errors = d.errors /\ a.spell = d.spell /\ a.word = d.word /\ a.prompts = d.prompts
        /\ a.context = d.context /\ a.shell = d.shell /\ a.popup = d.popup
        /\ a.find = d.find /\ a.focused = d.focused /\ a.preedit = d.preedit
        /\ a.origin = d.origin /\ a.emoji = d.emoji /\ a.tentative = d.tentative
        /\ a.captured = d.captured /\ a.held = d.held /\ a.lost = d.lost
        /\ a.document = d.document /\ a.last = d.last /\ a.press = d.press /\ a.loose = d.loose
        /\ a.aim = d.aim
        /\ a.effects = d.effects /\ a.misfired = d.misfired /\ a.work = d.work
    BY <1>3 DEF Same, Fields
  <1>5. Sound(a)
    <2>1. Popped(a) /\ Composed(a) BY <1>2, <1>4 DEF Sound, Popped, Composed
    <2>2. Linked(a) BY <1>1, <1>2, <1>4 DEF Sound, Linked
    <2> QED BY <1>3, <2>1, <2>2 DEF Sound
  <1>6. Held(a) BY <1>2, <1>4 DEF Good, Mid, Held, Pressed, Dragging
  <1>7. Mid(a, TRUE) BY <1>2, <1>4, <1>5, <1>6 DEF Good, Mid
  <1>8. Live(a) = Live(d) BY <1>4 DEF Live
  <1>9. Good(a, TRUE) BY <1>2, <1>4, <1>7, <1>8 DEF Good, Sure
  <1>10. "menu" \notin Live(a) BY <1>1, <1>4 DEF Live
  <1>11. Less(a, b, {"aim"}) BY <1>5, <1>10, SpoiledEases
  <1>12. Good(b, TRUE) /\ Sound(b) BY <1>9, <1>11, EasedGood, StaysClosed DEF Less
  <1> HIDE DEF b
  <1>13. Less(b, c, Closing) /\ ~c.context /\ ~c.tentative /\ ~Field(c) /\ c.menu = b.menu
    BY <1>12, MenuOpens
  <1>14. Good(c, TRUE) /\ Sound(c) BY <1>12, <1>13, EasedGood, StaysClosed DEF Less
  <1> HIDE DEF c
  <1>15. Less(c, t, {"emoji", "press", "aim"}) /\ ~t.emoji BY <1>14, EmojiClosed
  <1> HIDE DEF t
  <1>16. Good(t, TRUE) /\ Sound(t) /\ ~t.context /\ ~t.tentative
    <2>1. Good(t, TRUE) BY <1>14, <1>15, EasedGood DEF Less
    <2>2. Sound(t) /\ ~t.context /\ ~t.tentative BY <1>13, <1>15, StaysClosed
    <2> QED BY <2>1, <2>2
  <1>17. Top(t) = No
    <2>1. /\ d.errors = s.errors /\ d.spell = s.spell /\ d.prompts = s.prompts
      BY <1>1 DEF Less, Same, Fields
    <2>2. /\ t.errors = a.errors /\ t.spell = a.spell /\ t.prompts = a.prompts
      BY <1>11, <1>13, <1>15 DEF Less, Same, Closing, Fields
    <2> QED BY <1>4, <2>1, <2>2 DEF Top, Bare
  <1>18. Apart(t) BY <1>15, <1>16, <1>17 DEF Apart
  <1>19. Good(t, FALSE) BY <1>16, <1>17, <1>18, Completed
  <1>20. Frame(s, d) /\ Frame(a, b) /\ Frame(b, c) /\ Frame(c, t)
    BY <1>1, <1>11, <1>13, <1>15, EasesFrame DEF Less
  <1>21. Frame(d, a) BY <1>4 DEF Frame
  <1>22. Frame(s, t) BY <1>20, <1>21, FrameTransitive
  <1>23. ~Asked(t) BY <1>22 DEF Ready, Frame, Asked
  <1>24. Good(t, Asked(t)) BY <1>19, <1>23 DEF Good, Mid, Sure
  <1>25. Handled(s, t) BY <1>22, <1>24 DEF Handled, Frame
  <1> QED BY <1>25 DEF t, c, b, a, d, OpenMenuFromKeyboard

LEMMA SearchHandled ==
  ASSUME NEW s, Ready(s)
  PROVE  Handled(s, RunIncrementalFind(s))
  <1> DEFINE t == RunIncrementalFind(s)
             w == FALSE
  <1>1. Good(s, w) BY DEF Ready
  <1> HIDE DEF w
  <1>2. Good(t, w) /\ Same(s, t, {"origin"}) BY <1>1, SearchRun
  <1> HIDE DEF t
  <1>3. /\ t.work = s.work /\ t.last = s.last /\ t.held = s.held /\ t.lost = s.lost
        /\ t.captured = s.captured
    BY <1>2 DEF Same, Fields
  <1>4. ~Asked(t) BY <1>3 DEF Ready, Asked
  <1>5. Good(t, Asked(t)) BY <1>2, <1>4 DEF Good, Mid, Sure, w
  <1>6. Handled(s, t) BY <1>3, <1>5 DEF Handled
  <1> QED BY <1>6 DEF t

LEMMA EmojiThenClosed ==
  ASSUME NEW s, NEW t, Handled(s, t)
  PROVE  Handled(s, CloseEmojiCompletion(t))
  <1>1. Sound(t) BY DEF Handled, Good, Mid
  <1>2. Eases(t, CloseEmojiCompletion(t)) BY <1>1, EmojiClosed DEF Less
  <1> QED BY <1>2, HandledThenEased

LEMMA EditsHandled ==
  ASSUME NEW s, Ready(s), NEW t \in Edits(s)
  PROVE  Handled(s, t) /\ Ready(t)
  <1>0. Sound(s) BY DEF Ready, Good, Mid
  <1>1. Eases(s, t) BY <1>0, EasesReflexive, Cancelled DEF Edits, Less
  <1> QED BY <1>1, EasedReady

LEMMA EditorKeyboardHandled ==
  ASSUME NEW s, Ready(s), NEW key, NEW t \in EditorKeyboard(s, key)
  PROVE  Handled(s, t)
  <1> DEFINE a == IF key = "released" \/ Reviewing(s) THEN s ELSE CancelTextInput(s)
  <1>0. Sound(s) BY DEF Ready, Good, Mid
  <1>1. Eases(s, a) BY <1>0, EasesReflexive, Cancelled DEF Less
  <1>2. t \in RefreshEmojiCompletion(a) BY DEF EditorKeyboard
  <1> HIDE DEF a
  <1>3. Ready(a) BY <1>1, EasedReady
  <1>4. Handled(a, t) BY <1>2, <1>3, EmojiRefreshed
  <1> QED BY <1>1, <1>4, EasedThenHandled

LEMMA FindFieldKeyboard ==
  ASSUME NEW s, Ready(s), NEW key, NEW t \in HandleFindFieldKeyboard(s, key)
  PROVE  Handled(s, t)
  <1> DEFINE w == FALSE
             m == [s EXCEPT !.preedit = w]
             a == IF key = "released" THEN s ELSE m
  <1>0. Sound(s) BY DEF Ready, Good, Mid
  <1>1. w => Field(s) OBVIOUS
  <1>2. t \in {CloseFindBar(a), RunIncrementalFind(a), a} BY DEF HandleFindFieldKeyboard
  <1> HIDE DEF w
  <1>3. Eases(s, m) BY <1>0, <1>1, FieldComposes DEF Less
  <1>4. Eases(s, a) BY <1>0, <1>3, EasesReflexive
  <1> HIDE DEF a
  <1>5. Ready(a) /\ Handled(s, a) /\ Sound(a) BY <1>4, EasedReady DEF Eases
  <1>6. CASE t = CloseFindBar(a)
    <2>1. Eases(a, t) BY <1>5, <1>6, FindBarClosed DEF Less
    <2> QED BY <1>5, <2>1, HandledThenEased
  <1>7. CASE t = RunIncrementalFind(a)
    <2>1. Handled(a, t) BY <1>5, <1>7, SearchHandled
    <2> QED BY <1>4, <2>1, EasedThenHandled
  <1>8. CASE t = a BY <1>5, <1>8
  <1> QED BY <1>2, <1>6, <1>7, <1>8

LEMMA ShortcutOrText ==
  ASSUME NEW s, Ready(s), Top(s) = No, NEW key, NEW t \in HandleShortcutOrText(s, key)
  PROVE  Handled(s, t)
  <1>0. Sound(s) BY DEF Ready, Good, Mid
  <1>1. Eases(s, CloseEmojiCompletion(s)) /\ Eases(s, s)
    BY <1>0, EmojiClosed, EasesReflexive DEF Less
  <1>2. CASE t = OpenFindBar(s) BY <1>2, FindBarOpened
  <1>3. ASSUME NEW T, t \in {CloseEmojiCompletion(u) : u \in T}, \A u \in T : Handled(s, u)
        PROVE  Handled(s, t)
    BY <1>3, EmojiThenClosed
  <1>4. CASE t \in {CloseEmojiCompletion(u) : u \in Commands(s) \cup Edits(s)}
    <2>1. \A u \in Commands(s) \cup Edits(s) : Handled(s, u) BY CommandsHandled, EditsHandled
    <2> QED BY <1>3, <1>4, <2>1
  <1>5. CASE t \in {CloseEmojiCompletion(u) : u \in HandleFindFieldKeyboard(s, key)}
    <2>1. \A u \in HandleFindFieldKeyboard(s, key) : Handled(s, u) BY FindFieldKeyboard
    <2> QED BY <1>3, <1>5, <2>1
  <1>6. CASE t \in {CloseEmojiCompletion(u) : u \in Edits(s)}
    <2>1. \A u \in Edits(s) : Handled(s, u) BY EditsHandled
    <2> QED BY <1>3, <1>6, <2>1
  <1>7. CASE t \in HandleEmojiKeyboard(s, key)
    <2>1. t = CloseEmojiCompletion(s) \/ t = s \/ t \in EditorKeyboard(s, key)
      BY <1>7 DEF HandleEmojiKeyboard, CompleteEmoji
    <2> QED BY <1>1, <2>1, EasedReady, EditorKeyboardHandled
  <1>8. CASE t \in EditorKeyboard(s, key) BY <1>8, EditorKeyboardHandled
  <1>9. \/ t = OpenFindBar(s)
        \/ t \in {CloseEmojiCompletion(u) : u \in Commands(s) \cup Edits(s)}
        \/ t \in {CloseEmojiCompletion(u) : u \in HandleFindFieldKeyboard(s, key)}
        \/ t \in {CloseEmojiCompletion(u) : u \in Edits(s)}
        \/ t \in HandleEmojiKeyboard(s, key) \/ t \in EditorKeyboard(s, key)
    BY DEF HandleShortcutOrText
  <1> QED BY <1>2, <1>4, <1>5, <1>6, <1>7, <1>8, <1>9

\* Whoever the key goes to.
LEMMA KeyboardOver ==
  ASSUME NEW s, Settled(s), NEW key, NEW t \in HandleKeyboard(s, key)
  PROVE  Over(t)
  <1> DEFINE chrome == Top(s) # No \/ s.context \/ s.menu # No \/ key \in {"contextMenu", "menu"}
  <1>0. Ready(s) /\ Sound(s) BY SettledReady
  <1>1. \E u \in KeyboardRoute(s, key) :
          t = SynchronizeInteraction(IF chrome THEN CloseEmojiCompletion(u) ELSE u)
    BY DEF HandleKeyboard
  <1> PICK u \in KeyboardRoute(s, key) :
         t = SynchronizeInteraction(IF chrome THEN CloseEmojiCompletion(u) ELSE u)
    BY <1>1
  <1>2. SUFFICES Handled(s, u) \/ (chrome /\ Handled(s, CloseEmojiCompletion(u)))
    <2>1. Handled(s, u) => Handled(s, CloseEmojiCompletion(u)) BY EmojiThenClosed
    <2> QED BY <1>2, <2>1, HandledSynchronized
  <1>3. CASE Top(s) = "spell" /\ u \in HandleSpellcheckKeyboard(s, key)
    BY <1>0, <1>3, SpellcheckKeyboard
  <1>4. CASE Top(s) \notin {No, "spell"} /\ u \in HandleCardKeyboard(s, Top(s), key)
    <2> DEFINE card == Top(s)
    <2>1. card # No /\ card # "spell" /\ u \in HandleCardKeyboard(s, card, key) BY <1>4
    <2>2. card = Top(s) OBVIOUS
    <2> HIDE DEF card
    <2> QED BY <1>0, <2>1, <2>2, CardKeyboard
  <1>5. CASE u \in HandleContextMenuKeyboard(s, key) BY <1>0, <1>5, ContextMenuKeyboard
  <1>6. CASE Top(s) = No /\ u = OpenContextMenu(s) BY <1>0, <1>6, ContextMenuOpened
  <1>7. CASE Top(s) = No /\ s.menu # No /\ u \in HandleOpenMenuKeyboard(s, key)
    BY <1>0, <1>7, OpenMenuKeyboard
  <1>8. CASE /\ Bare(s) /\ s.menu = No /\ key = "menu"
             /\ u \in {MenuOpened(OpenMenuFromKeyboard(s, m)) : m \in Headings}
    BY <1>0, <1>8, MenuFromKeyboard
  <1>9. CASE Top(s) = No /\ u \in HandleShortcutOrText(s, key) BY <1>0, <1>9, ShortcutOrText
  <1>10. "spell" # No BY DEF No
  <1> QED BY <1>3, <1>4, <1>5, <1>6, <1>7, <1>8, <1>9, <1>10 DEF KeyboardRoute, Bare

-----------------------------------------------------------------------------
(* The input method, the workspace and what the window reports *)

\* Behind a card or a menu the editor's and the field's text is only let go.
LEMMA BatchBehindChrome ==
  ASSUME NEW s, Ready(s), ChromeOwnsInput(s), NEW v
  PROVE  Eases(s, [s EXCEPT !.preedit = FALSE, !.tentative = @ /\ v])
  <1> DEFINE w == FALSE
             a == [s EXCEPT !.preedit = w]
             x == s.tentative /\ v
             t == [a EXCEPT !.tentative = x]
  <1>0. Sound(s) /\ ~s.tentative BY DEF Ready, Good, Mid, Apart
  <1>1. w => Field(s) OBVIOUS
  <1>2. ~x BY <1>0
  <1>3. [s EXCEPT !.preedit = FALSE, !.tentative = @ /\ v] = t BY <1>0 DEF Sound, Typed, Fields
  <1> HIDE DEF w, x
  <1>4. Less(s, a, {"preedit"}) /\ Sound(a) BY <1>0, <1>1, FieldComposes, StaysClosed
  <1> HIDE DEF a
  <1>5. t = [f \in Fields |-> IF f = "tentative" THEN x ELSE a[f]]
    BY <1>4 DEF Sound, Typed, Fields
  <1> HIDE DEF t
  <1>6. Same(a, t, {"tentative"}) /\ t.tentative = x BY <1>5 DEF Same, Fields
  <1>7. Typed(t) BY <1>4, <1>5, <1>6 DEF Sound, Typed, Same, Fields
  <1>8. Sound(t) BY <1>4, <1>6, <1>7 DEF Sound, Popped, Linked, Composed, Same, Fields
  <1>9. ~t.tentative BY <1>2, <1>6, Zenon
  <1>10. Less(a, t, {"tentative"}) BY <1>6, <1>8, <1>9 DEF Less, Eases, Calms, Keeps, Same, Fields
  <1>11. Eases(s, t) BY <1>4, <1>10, EasesTransitive DEF Less
  <1> QED BY <1>3, <1>11

LEMMA FieldBatchHandled ==
  ASSUME NEW s, Ready(s), Field(s), NEW batch
  PROVE  Handled(s, FieldBatch(s, batch))
  <1> DEFINE w == FALSE
             b == [s EXCEPT !.preedit = w]
  <1>0. Sound(s) BY DEF Ready, Good, Mid
  <1>1. CASE batch = "preedit"
    <2> DEFINE y == TRUE
               a == [s EXCEPT !.preedit = y]
    <2>1. FieldBatch(s, batch) = a BY <1>1 DEF FieldBatch
    <2> HIDE DEF y
    <2>2. Eases(s, a) BY <1>0, FieldComposes DEF Less
    <2> QED BY <2>1, <2>2, EasedReady
  <1>2. batch # "preedit" =>
          FieldBatch(s, batch) = RunIncrementalFind(b) \/ FieldBatch(s, batch) = b
    BY DEF FieldBatch
  <1> HIDE DEF w
  <1>3. Eases(s, b) BY <1>0, FieldComposes DEF Less
  <1> HIDE DEF b
  <1>4. Ready(b) /\ Handled(s, b) BY <1>3, EasedReady
  <1>5. Handled(s, RunIncrementalFind(b)) BY <1>3, <1>4, SearchHandled, EasedThenHandled
  <1> QED BY <1>1, <1>2, <1>4, <1>5

LEMMA EditorBatchHandled ==
  ASSUME NEW s, Ready(s), ~ChromeOwnsInput(s), ~Field(s), NEW batch, NEW t \in EditorBatch(s, batch)
  PROVE  Handled(s, t)
  <1> DEFINE a == CancelTextInput(s)
  <1>0. Sound(s) BY DEF Ready, Good, Mid
  <1>1. Eases(s, a) BY <1>0, Cancelled DEF Less
  <1>2. \/ t = CloseEmojiCompletion([s EXCEPT !.tentative = TRUE])
        \/ t = CloseEmojiCompletion(a) \/ t \in RefreshEmojiCompletion(a)
    BY DEF EditorBatch
  <1> HIDE DEF a
  <1>3. Ready(a) /\ Handled(s, a) BY <1>1, EasedReady
  <1>4. CASE t = CloseEmojiCompletion([s EXCEPT !.tentative = TRUE]) BY <1>4, EditorComposes
  <1>5. CASE t = CloseEmojiCompletion(a) BY <1>3, <1>5, EmojiThenClosed
  <1>6. CASE t \in RefreshEmojiCompletion(a)
    <2>1. Handled(a, t) BY <1>3, <1>6, EmojiRefreshed
    <2> QED BY <1>1, <2>1, EasedThenHandled
  <1> QED BY <1>2, <1>4, <1>5, <1>6

\* Committed text searches again, and never in another document.
LEMMA FieldBatchStays ==
  ASSUME NEW s, Sound(s), NEW batch
  PROVE  FieldBatch(s, batch).document = s.document
  <1> DEFINE b == [s EXCEPT !.preedit = FALSE]
             a == [s EXCEPT !.preedit = TRUE]
  <1>1. b = [f \in Fields |-> b[f]] /\ b.document = s.document /\ a.document = s.document
    BY DEF Sound, Typed, Fields
  <1>2. FieldBatch(s, batch) \in {a, b, RunIncrementalFind(b)} BY DEF FieldBatch
  <1> HIDE DEF b, a
  <1>3. RunIncrementalFind(b).document = b.document
    BY <1>1 DEF RunIncrementalFind, CaptureFindOrigin, Fields
  <1> QED BY <1>1, <1>2, <1>3

LEMMA EditorBatchStays ==
  ASSUME NEW s, Sound(s), NEW batch, NEW t \in EditorBatch(s, batch)
  PROVE  t.document = s.document
  <1> DEFINE a == CancelTextInput(s)
             m == [s EXCEPT !.tentative = TRUE]
  <1>1. ASSUME NEW x, x = [f \in Fields |-> x[f]]
        PROVE  /\ CloseEmojiCompletion(x).document = x.document
               /\ Spoil([Drop(x, {"emoji"}) EXCEPT !.emoji = TRUE], {"emoji"}).document = x.document
    <2> DEFINE d == Drop(x, {"emoji"})
               p == [o \in DOMAIN x.press \ {"emoji"} |-> x.press[o]]
    <2>1. d = [f \in Fields |-> d[f]] /\ d.document = x.document
      <3>1. d = x \/ d = [x EXCEPT !.press = p] BY DEF Drop
      <3> HIDE DEF d, p
      <3> QED BY <1>1, <3>1 DEF Fields
    <2> HIDE DEF d
    <2>2. ASSUME NEW v PROVE Spoil([d EXCEPT !.emoji = v], {"emoji"}).document = x.document
      BY <2>1 DEF Spoil, Fields
    <2> QED BY <2>2 DEF CloseEmojiCompletion, d
  <1>2. /\ a = [f \in Fields |-> a[f]] /\ a.document = s.document
        /\ m = [f \in Fields |-> m[f]] /\ m.document = s.document
    BY DEF Sound, Typed, Fields, CancelTextInput
  <1>3. \/ t = CloseEmojiCompletion(m) \/ t = CloseEmojiCompletion(a)
        \/ t = Spoil([Drop(a, {"emoji"}) EXCEPT !.emoji = TRUE], {"emoji"})
    BY DEF EditorBatch, RefreshEmojiCompletion
  <1> HIDE DEF a, m
  <1> QED BY <1>1, <1>2, <1>3

LEMMA TextInputOver ==
  ASSUME NEW s, Settled(s), NEW batch, NEW t \in HandleTextInputBatch(s, batch)
  PROVE  Over(t)
  <1>0. Ready(s) /\ Sound(s) BY SettledReady
  <1>1. s.document = s.last BY DEF Settled
  <1>2. SUFFICES Handled(s, t) /\ t.document = s.document
    <2>1. t.last = s.last BY <1>2 DEF Handled
    <2> QED BY <1>1, <1>2, <2>1, HandledOver
  <1>3. ASSUME Eases(s, t) PROVE Handled(s, t) /\ t.document = s.document
    BY <1>0, <1>3, EasedReady DEF Eases, Calms
  <1>4. CASE t = s BY <1>0, <1>3, <1>4, EasesReflexive
  <1>5. CASE /\ ChromeOwnsInput(s)
             /\ t = [s EXCEPT !.preedit = FALSE, !.tentative = @ /\ batch # "cancel"]
    <2> DEFINE v == batch # "cancel"
    <2>1. t = [s EXCEPT !.preedit = FALSE, !.tentative = @ /\ v] BY <1>5
    <2> HIDE DEF v
    <2>2. Eases(s, t) BY <1>0, <1>5, <2>1, BatchBehindChrome
    <2> QED BY <1>3, <2>2
  <1>6. CASE Field(s) /\ t = FieldBatch(s, batch) BY <1>0, <1>6, FieldBatchHandled, FieldBatchStays
  <1>7. CASE ~ChromeOwnsInput(s) /\ ~Field(s) /\ t \in EditorBatch(s, batch)
    BY <1>0, <1>7, EditorBatchHandled, EditorBatchStays
  <1> QED BY <1>4, <1>5, <1>6, <1>7 DEF HandleTextInputBatch, Field

LEMMA EasedOver ==
  ASSUME NEW s, Settled(s), NEW t, Eases(s, t)
  PROVE  Over(t)
  <1>1. Handled(s, t) BY SettledReady, EasedReady
  <1>2. t.last = t.document BY DEF Eases, Calms, Settled
  <1> QED BY <1>1, <1>2, HandledOver

LEMMA WorkspaceOver ==
  ASSUME NEW s, Settled(s), NEW t \in Outcomes(s)
  PROVE  Over(SynchronizeInteraction(t))
  <1>1. Handled(s, t) BY SettledReady, OutcomesHandled
  <1> QED BY <1>1, HandledSynchronized

LEMMA SpellcheckResultsOver ==
  ASSUME NEW s, Settled(s), s.spell \in {"loading", "working"},
         NEW t \in IF s.spell = "loading" THEN SessionBegun(s)
                   ELSE {SynchronizeSpellcheckDialog(s, x, FALSE) : x \in {"decision", "ended"}}
  PROVE  Over(t)
  <1>0. Sound(s) BY SettledReady
  <1>1. Eases(s, t)
    <2>1. CASE s.spell = "loading" BY <1>0, <2>1, SessionsEase DEF Less
    <2>2. CASE s.spell # "loading"
      <3> DEFINE w == FALSE
      <3>1. PICK x \in {"decision", "ended"} : t = SynchronizeSpellcheckDialog(s, x, w) BY <2>2
      <3>2. w \in BOOLEAN OBVIOUS
      <3> HIDE DEF w
      <3>3. Less(s, t, Dialog) BY <1>0, <3>1, <3>2, DialogSynchronized
      <3> QED BY <3>3 DEF Less
    <2> QED BY <2>1, <2>2
  <1> QED BY <1>1, EasedOver

LEMMA PopupDoneOver ==
  ASSUME NEW s, Settled(s)
  PROVE  Over([NotifyContextPopupDone(s) EXCEPT !.popup = FALSE])
  <1>1. Eases(s, [NotifyContextPopupDone(s) EXCEPT !.popup = FALSE])
    BY SettledReady, PopupGoneEases DEF Settled, Less
  <1> QED BY <1>1, EasedOver

-----------------------------------------------------------------------------
(* Every action *)

LEMMA SettlesSettled ==
  ASSUME NEW T, \A t \in T : Over(t), Settles(T)
  PROVE  Settled(ui')
  <1>1. \E t \in T : \E u \in ApplyShellEffects(t) : ui' = Rest(u) BY DEF Settles
  <1> PICK t \in T : \E u \in ApplyShellEffects(t) : ui' = Rest(u) BY <1>1
  <1> PICK u \in ApplyShellEffects(t) : ui' = Rest(u) OBVIOUS
  <1>2. Over(t) OBVIOUS
  <1>3. Settled(Rest(u)) BY <1>2, OverSettles
  <1> QED BY <1>3

(* The loop delivers a press only with the button up and a release only with it down,
   and the popup's places only while it is there or has the gesture. *)
LEMMA PlacesComes ==
  ASSUME NEW s, NEW e, e.place \in Places(s), e.kind = "press" => ~s.held,
         e.kind = "release" => s.held
  PROVE  Comes(s, e)
  <1> SUFFICES ASSUME Top(s) = No, e.place \in {"item", "padding"}
               PROVE  s.popup \/ s.aim[1] = "context"
    BY DEF Comes, OnPopup
  <1> QED BY DEF Places, FindBand

LEMMA PointersCome ==
  ASSUME NEW s, NEW e \in Clicks(s) \cup Others(s)
  PROVE  Comes(s, e)
  <1>1. CASE e \in Clicks(s)
    <2>1. e.kind = (IF s.held THEN "release" ELSE "press") /\ e.place \in Places(s)
      BY <1>1 DEF Clicks
    <2> QED BY <2>1, PlacesComes
  <1>2. CASE e \in Others(s)
    <2>1. e.kind \in {"move", "right", "middle"} /\ e.place \in Places(s) BY <1>2 DEF Others
    <2> QED BY <2>1, PlacesComes
  <1> QED BY <1>1, <1>2

LEMMA InitSettled == InputInit => Settled(ui)
  <1> SUFFICES ASSUME NEW d \in Documents PROVE Settled(InitialUi(d))
    BY DEF InputInit
  <1> DEFINE s == InitialUi(d)
  <1>1. /\ s.errors = 0 /\ s.spell = "closed" /\ s.word = FALSE /\ s.control = "no"
        /\ s.prompts = {} /\ s.menu = No /\ s.context = FALSE /\ s.shell = FALSE
        /\ s.popup = FALSE /\ s.find = FALSE /\ s.focused = FALSE /\ s.preedit = FALSE
        /\ s.emoji = FALSE /\ s.tentative = FALSE /\ s.captured = FALSE
        /\ s.held = FALSE /\ s.document = d /\ s.last = d /\ s.press = << >>
        /\ s.aim = Nowhere /\ s.loose = {} /\ s.effects = << >> /\ s.work = {} /\ s.given = FALSE
        /\ s.misfired = FALSE
    BY DEF InitialUi, Nowhere
  <1>2. s = [f \in Fields |-> s[f]] BY DEF InitialUi, Fields
  <1> HIDE DEF s
  <1>3. DOMAIN s.press = {} BY <1>1
  <1>4. s.errors \in 0 .. MaxErrors /\ s.effects \in Seq({"show", "close"})
    BY <1>1, InterfaceConstants
  <1>5. Typed(s) BY <1>1, <1>2, <1>4 DEF Typed
  <1>6. Sound(s) BY <1>1, <1>3, <1>5 DEF Sound, Popped, Linked, Composed
  <1>7. ~ChromeOwnsInput(s) /\ Top(s) = No BY <1>1 DEF ChromeOwnsInput, Top
  <1>8. Live(s) = {} BY <1>3 DEF Live
  <1>9. Pressed(s, "menu") = No /\ Pressed(s, "bar") = No BY <1>3 DEF Pressed
  <1>10. Held(s) BY <1>1, <1>3, <1>9 DEF Held, Dragging, No
  <1>11. Apart(s) /\ OnlyTop(s) BY <1>1, <1>3, <1>7 DEF Apart, OnlyTop
  <1>12. Mid(s, FALSE) BY <1>1, <1>3, <1>6, <1>10, <1>11 DEF Mid
  <1>13. Sure(s, FALSE) BY <1>8 DEF Sure
  <1>14. Settled(s) BY <1>1, <1>3, <1>12, <1>13 DEF Settled
  <1> QED BY <1>14 DEF s

LEMMA NextSettled == Settled(ui) /\ [InputNext]_ui => Settled(ui')
  <1> SUFFICES ASSUME Settled(ui), [InputNext]_ui PROVE Settled(ui') OBVIOUS
  <1>0. Sound(ui) BY SettledReady
  <1>1. CASE UNCHANGED ui BY <1>1
  <1>2. ASSUME NEW e \in Clicks(ui) \cup Others(ui), Pointer(e) PROVE Settled(ui')
    <2>1. \A t \in Pointed(ui, e) : Over(t) BY PointersCome, PointedOver
    <2> QED BY <1>2, <2>1, SettlesSettled DEF Pointer
  <1>3. ASSUME NEW place \in Places(ui), PointerLeaves(place) PROVE Settled(ui')
    <2> DEFINE e == [kind |-> "leave", place |-> place]
    <2>1. Comes(ui, e) BY PlacesComes
    <2>2. e.kind = "leave" OBVIOUS
    <2>3. \E kept \in BOOLEAN : Settles({[t EXCEPT !.held = @ /\ kept] : t \in Pointed(ui, e)})
      BY <1>3 DEF PointerLeaves
    <2> HIDE DEF e
    <2>4. PICK kept \in BOOLEAN : Settles({[t EXCEPT !.held = @ /\ kept] : t \in Pointed(ui, e)})
      BY <2>3
    <2>5. \A t \in Pointed(ui, e) : Over([t EXCEPT !.held = @ /\ kept])
      BY <2>1, <2>2, PointedOver, LeftOver
    <2> DEFINE T == {[t EXCEPT !.held = @ /\ kept] : t \in Pointed(ui, e)}
    <2>6. \A t \in T : Over(t) BY <2>5
    <2>7. Settles(T) BY <2>4
    <2> HIDE DEF T
    <2> QED BY <2>6, <2>7, SettlesSettled
  <1>4. ASSUME NEW key, Keyboard(key) PROVE Settled(ui')
    <2>1. \A t \in HandleKeyboard(ui, key) : Over(t) BY KeyboardOver
    <2> QED BY <1>4, <2>1, SettlesSettled DEF Keyboard
  <1>5. ASSUME NEW batch, TextInput(batch) PROVE Settled(ui')
    <2>1. \A t \in HandleTextInputBatch(ui, batch) : Over(t) BY TextInputOver
    <2> QED BY <1>5, <2>1, SettlesSettled DEF TextInput
  <1>6. CASE LoseFocus
    <2>1. \A t \in {FocusLost(ui)} : Over(t) BY <1>0, FocusIsLost, EasedOver
    <2> QED BY <1>6, <2>1, SettlesSettled DEF LoseFocus
  <1>7. CASE Resize
    <2>1. \A t \in {HandleFrameSizeChange(ui)} : Over(t) BY <1>0, FrameSizeChanged, EasedOver
    <2> QED BY <1>7, <2>1, SettlesSettled DEF Resize
  <1>8. CASE WorkspaceTurns
    <2>1. \A t \in {SynchronizeInteraction(x) : x \in Outcomes(ui)} : Over(t) BY WorkspaceOver
    <2> QED BY <1>8, <2>1, SettlesSettled DEF WorkspaceTurns
  <1>9. CASE ProcessSpellcheckResults
    <2> DEFINE T == IF ui.spell = "loading" THEN SessionBegun(ui)
                    ELSE {SynchronizeSpellcheckDialog(ui, x, FALSE) : x \in {"decision", "ended"}}
    <2>1. ui.spell \in {"loading", "working"} /\ Settles(T) BY <1>9 DEF ProcessSpellcheckResults
    <2>2. \A t \in T : Over(t) BY <2>1, SpellcheckResultsOver
    <2> HIDE DEF T
    <2> QED BY <2>1, <2>2, SettlesSettled
  <1>10. CASE PopupDone
    <2> DEFINE T == {[NotifyContextPopupDone(ui) EXCEPT !.popup = FALSE]}
    <2>1. Settles(T) BY <1>10 DEF PopupDone
    <2>2. \A t \in T : Over(t) BY PopupDoneOver
    <2> HIDE DEF T
    <2> QED BY <2>1, <2>2, SettlesSettled
  <1> QED BY <1>1, <1>2, <1>3, <1>4, <1>5, <1>6, <1>7, <1>8, <1>9, <1>10 DEF InputNext

-----------------------------------------------------------------------------
(* What holds between two events *)

UiSettled == Settled(ui)

THEOREM InputsSettle == InputSpec => []UiSettled
  <1>1. InputInit => UiSettled BY InitSettled DEF UiSettled
  <1>2. UiSettled /\ [InputNext]_ui => UiSettled' BY NextSettled DEF UiSettled
  <1> QED BY <1>1, <1>2, PTL DEF InputSpec

(* One overlay owns the input and the popup is there exactly while the shell and the
   model say so: between two events of RunWaylandApplication's loop, whatever
   ApplicationUi's handlers were asked and whatever the workspace answered. *)
THEOREM InterfacesAgree == InputSpec => []InterfaceAgrees
  <1>1. UiSettled => InterfaceAgrees
    <2> SUFFICES ASSUME UiSettled PROVE InterfaceAgrees OBVIOUS
    <2>1. Sound(ui) /\ Apart(ui) BY DEF UiSettled, Settled, Mid
    <2>2. UiTypeOK BY <2>1 DEF UiTypeOK, UiSettled, Settled, Sound, Typed
    <2>3. PopupAgrees BY <2>1 DEF PopupAgrees, UiSettled, Settled, Sound, Popped
    <2>4. OverlaysExclude BY <2>1 DEF OverlaysExclude, Apart, Field
    <2>5. OriginIsCurrent BY DEF OriginIsCurrent, UiSettled, Settled, Mid
    <2> QED BY <2>2, <2>3, <2>4, <2>5 DEF InterfaceAgrees
  <1> QED BY <1>1, InputsSettle, PTL

(* Uncommitted text belongs to whoever has the keyboard, in the editor and in the
   fields: what HandleTextInputBatch composes is let go by every overlay that opens. *)
THEOREM TextInputsAreOwned == InputSpec => []TextInputIsOwned
  <1>1. UiSettled => TextInputIsOwned
    <2> SUFFICES ASSUME UiSettled PROVE TextInputIsOwned OBVIOUS
    <2>1. Sound(ui) /\ Apart(ui) BY DEF UiSettled, Settled, Mid
    <2>2. Reviewing(ui) => Top(ui) # No
      <3>1. Reviewing(ui) => ui.spell # "closed" BY DEF Reviewing
      <3> QED BY <2>1, <3>1, TopCards
    <2>3. ui.tentative => ~ChromeOwnsInput(ui) /\ ~Field(ui) BY <2>1 DEF Apart
    <2> QED BY <2>1, <2>2, <2>3 DEF TextInputIsOwned, Sound, Composed, Field, ChromeOwnsInput
  <1> QED BY <1>1, InputsSettle, PTL

(* A card that comes up takes the armed press from every card below it, so that a later
   release cannot activate one. *)
THEOREM CardsArmTheTop == InputSpec => []CardsArmOnlyTheTop
  <1>1. UiSettled => CardsArmOnlyTheTop
    <2> SUFFICES ASSUME UiSettled, NEW card \in CardsUp(ui), Pressed(ui, card) # No
                 PROVE  card = Top(ui)
      BY DEF CardsArmOnlyTheTop
    <2>1. Sound(ui) /\ Mid(ui, FALSE) BY DEF UiSettled, Settled, Mid
    <2>2. card \in DOMAIN ui.press BY <2>1, PressedIsArmed
    <2>3. card \in ui.prompts \cup {"error", "spell"} BY DEF CardsUp
    <2>5. card = Owner(ui) BY <2>1, <2>2, <2>3, ArmedOnTop
    <2>6. Top(ui) # No
      <3>1. card \notin {"context", "menu", "emoji"}
        BY <2>1, <2>3 DEF Sound, Typed, Prompts
      <3> QED BY <2>5, <3>1 DEF Owner
    <2> QED BY <2>5, <2>6 DEF Owner
  <1> QED BY <1>1, InputsSettle, PTL

(* A release fires the control the user pressed, if it is still there and has not
   moved, and no other, but for the two presses the code keeps past that: the
   spelling card's over a resize, and the find bar's where its field had no focus to
   lose.  And a selection drag ends with it unless another owner took the release. *)
THEOREM GesturesAreComplete == InputSpec => []GesturesComplete
  <1>1. UiSettled => GesturesComplete BY DEF UiSettled, Settled, Mid, GesturesComplete
  <1> QED BY <1>1, InputsSettle, PTL
=============================================================================
