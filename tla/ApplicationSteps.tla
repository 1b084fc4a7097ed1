--------------------------- MODULE ApplicationSteps ---------------------------
(***************************************************************************)
(* Theorems about steps: which documents and files one call into the       *)
(* application may change, and on whose word. Reaches says how far a       *)
(* handler goes; one lemma per handler bounds it, and lemmas about the     *)
(* actions compare the bound with the cards on screen.                     *)
(***************************************************************************)
EXTENDS ApplicationProofs

\* A tab that has a path has the stamp of a file, so its saves are guarded.
Stamped(s) ==
  \A id \in DOMAIN s.tab : s.tab[id].path # NoPath => s.tab[id].stamp # NoStamp

\* A prompt on screen is of one of the two kinds.
Named(s) == s.prompt.kind = "none" => s.prompt = NoPrompt

\* Contents in Big are nowhere in n but where they were in s.
Carried(s, n, Big) ==
  \A id \in DOMAIN n.docs : \A text \in Big :
    text \in {n.docs[id].text, n.docs[id].saved} =>
      /\ id \in DOMAIN s.docs
      /\ text \in {s.docs[id].text, s.docs[id].saved}

\* From s to n only the documents X and the files W change, and nothing of
\* Big is loaded.
Reaches(s, n, X, W, Big) ==
  /\ \A p \in Paths \ W : n.disk[p] = s.disk[p]
  /\ \A id \in DOMAIN s.docs \ X :
       id \in DOMAIN n.docs /\ n.docs[id] = s.docs[id]
  /\ DOMAIN s.tab \ X \subseteq DOMAIN n.tab
  /\ Carried(s, n, Big)
  /\ n.dialogs = s.dialogs /\ n.spell = s.spell
  /\ Stamped(s) => Stamped(n)
  /\ Named(s) => Named(n)

\* The documents hold the texts they held, and what is edited is the same.
Kept(s, n) ==
  /\ n.editing = s.editing /\ n.paste = s.paste /\ n.opening = s.opening
  /\ DOMAIN n.docs = DOMAIN s.docs
  /\ \A id \in DOMAIN s.docs : n.docs[id].text = s.docs[id].text

\* n shows another tab, at most.
OnlyShown(s, n) ==
  /\ n.docs = s.docs /\ n.tab = s.tab /\ n.disk = s.disk
  /\ n.dialogs = s.dialogs /\ n.spell = s.spell /\ n.prompt = s.prompt
  /\ n.external = s.external /\ n.large = s.large /\ n.opening = s.opening
  /\ n.requests = s.requests
  /\ s.spell = "review" => Kept(s, n)
-----------------------------------------------------------------------------
(* How bounds are combined *)

\* Nothing but what is shown and asked changes.
LEMMA SameReaches ==
  ASSUME NEW s, NEW n, NEW X, NEW W, NEW Big,
         n.docs = s.docs, n.tab = s.tab, n.disk = s.disk,
         n.dialogs = s.dialogs, n.spell = s.spell, Named(s) => Named(n)
  PROVE  Reaches(s, n, X, W, Big)
  BY DEF Reaches, Carried, Stamped

\* One call after the other.
LEMMA ReachesThrough ==
  ASSUME NEW s, NEW m, NEW n, NEW X, NEW W, NEW Big,
         Reaches(s, m, X, W, Big), Reaches(m, n, X, W, Big)
  PROVE  Reaches(s, n, X, W, Big)
  <1>1. \A p \in Paths \ W : n.disk[p] = s.disk[p] BY DEF Reaches
  <1>2. \A id \in DOMAIN s.docs \ X :
          id \in DOMAIN n.docs /\ n.docs[id] = s.docs[id]
    BY DEF Reaches
  <1>3. Carried(s, n, Big) BY DEF Reaches, Carried
  <1>4. DOMAIN s.tab \ X \subseteq DOMAIN n.tab BY DEF Reaches
  <1> QED BY <1>1, <1>2, <1>3, <1>4 DEF Reaches

\* A wider bound, or fewer contents it speaks of.
LEMMA ReachesMore ==
  ASSUME NEW s, NEW n, NEW X, NEW W, NEW Big, NEW Y, NEW V, NEW Less,
         Reaches(s, n, X, W, Big), X \subseteq Y, W \subseteq V,
         Less \subseteq Big
  PROVE  Reaches(s, n, Y, V, Less)
  BY DEF Reaches, Carried
-----------------------------------------------------------------------------
(* What is shown *)

\* Activate changes no document, even when the editor refuses it.
LEMMA ActivateShows ==
  ASSUME NEW s, IsState(s), NEW id
  PROVE  /\ OnlyShown(s, Activate(s, id))
         /\ s.spell # "review" /\ id \in DOMAIN s.docs =>
              Activate(s, id).editing = id
  <1>1. CASE id = s.editing \/ s.spell = "review"
    <2>1. Activate(s, id) = [s EXCEPT !.active = id]
      BY <1>1 DEF Activate, ActivateDocument, SpellcheckReviewActive
    <2> QED BY <1>1, <2>1 DEF OnlyShown, Kept, IsState, States
  <1>2. CASE ~ (id = s.editing \/ s.spell = "review") /\ id \notin DOMAIN s.docs
    <2>1. Activate(s, id) = [[s EXCEPT !.fault = TRUE] EXCEPT !.active = id]
      BY <1>2
      DEF Activate, ActivateDocument, SpellcheckReviewActive, HasDocument
    <2> QED BY <1>2, <2>1 DEF OnlyShown, Kept, IsState, States
  <1>3. CASE ~ (id = s.editing \/ s.spell = "review") /\ id \in DOMAIN s.docs
    <2>1. Activate(s, id) = [[s EXCEPT !.editing = id, !.paste = FALSE]
                               EXCEPT !.active = id]
      BY <1>3
      DEF Activate, ActivateDocument, SpellcheckReviewActive, HasDocument
    <2> QED BY <1>3, <2>1 DEF OnlyShown, Kept, IsState, States
  <1> QED BY <1>1, <1>2, <1>3

\* A decision brings its tab to the front.
LEMMA ShowTabShows ==
  ASSUME NEW s, IsState(s), NEW id
  PROVE  OnlyShown(s, ShowTab(s, id))
  <1>1. OnlyShown(s, s) BY DEF OnlyShown, Kept
  <1> QED BY <1>1, ActivateShows DEF ShowTab

\* What only shows reaches nothing.
LEMMA ShownReaches ==
  ASSUME NEW s, NEW n, OnlyShown(s, n), NEW X, NEW W, NEW Big
  PROVE  Reaches(s, n, X, W, Big)
  BY SameReaches DEF OnlyShown, Named

\* The fields the cards and the queue are kept in, one by one.
LEMMA CardsReach ==
  ASSUME NEW s, IsState(s), NEW v, NEW X, NEW W, NEW Big
  PROVE  /\ Reaches(s, [s EXCEPT !.external = v], X, W, Big)
         /\ Reaches(s, [s EXCEPT !.large = v], X, W, Big)
         /\ Reaches(s, [s EXCEPT !.opening = v], X, W, Big)
         /\ Reaches(s, [s EXCEPT !.requests = v], X, W, Big)
         /\ Reaches(s, [s EXCEPT !.resolved = v], X, W, Big)
         /\ Reaches(s, [s EXCEPT !.gen = v], X, W, Big)
         /\ Reaches(s, [s EXCEPT !.slot = v], X, W, Big)
         /\ Reaches(s, [s EXCEPT !.prompt = NoPrompt], X, W, Big)
  <1> DEFINE Same(n) == /\ n.docs = s.docs /\ n.tab = s.tab /\ n.disk = s.disk
                        /\ n.dialogs = s.dialogs /\ n.spell = s.spell
                        /\ n.prompt \in {s.prompt, NoPrompt}
  <1>1. ASSUME NEW n, Same(n)
        PROVE  Reaches(s, n, X, W, Big)
    <2>1. Named(s) => Named(n) BY <1>1 DEF Named
    <2> QED BY <1>1, <2>1, SameReaches
  <1>2. Same([s EXCEPT !.external = v]) BY DEF IsState, States
  <1>3. Same([s EXCEPT !.large = v]) BY DEF IsState, States
  <1>4. Same([s EXCEPT !.opening = v]) BY DEF IsState, States
  <1>5. Same([s EXCEPT !.requests = v]) BY DEF IsState, States
  <1>6. Same([s EXCEPT !.resolved = v]) BY DEF IsState, States
  <1>7. Same([s EXCEPT !.gen = v]) BY DEF IsState, States
  <1>8. Same([s EXCEPT !.slot = v]) BY DEF IsState, States
  <1>9. Same([s EXCEPT !.prompt = NoPrompt]) BY DEF IsState, States
  <1> HIDE DEF Same
  <1> QED BY <1>1, <1>2, <1>3, <1>4, <1>5, <1>6, <1>7, <1>8, <1>9
-----------------------------------------------------------------------------
(* The dirty-close prompt *)

\* A request is queued.
LEMMA QueueReaches ==
  ASSUME NEW s, IsState(s), NEW request, NEW X, NEW W, NEW Big
  PROVE  /\ Reaches(s, Queue(s, request), X, W, Big)
         /\ Queue(s, request).prompt = s.prompt
  <1> DEFINE v == Append(s.requests, request)
  <1>1. Queue(s, request) = [s EXCEPT !.requests = v] BY DEF Queue
  <1> HIDE DEF v
  <1>2. Reaches(s, [s EXCEPT !.requests = v], X, W, Big) BY CardsReach
  <1>3. [s EXCEPT !.requests = v].prompt = s.prompt BY DEF IsState, States
  <1> QED BY <1>1, <1>2, <1>3

\* A prompt of one of the two kinds comes up, with its tab.
LEMMA BeginPromptReaches ==
  ASSUME NEW s, Good(s), GenRoom(s), NEW kind \in {"tab", "window"},
         NEW id \in DOMAIN s.tab, NEW X, NEW W, NEW Big
  PROVE  LET n == BeginPrompt(s, kind, id)
         IN  /\ Reaches(s, n, X, W, Big)
             /\ \/ n.prompt = s.prompt
                \/ n.prompt.kind = kind /\ ~ n.prompt.awaiting
             /\ s.large = NoLarge /\ s.external = NoExternal
                /\ s.prompt = NoPrompt => n.prompt.kind = kind
  <1> DEFINE ask == [kind |-> kind, tab |-> id, awaiting |-> FALSE]
             m   == [s EXCEPT !.prompt = ask, !.gen = FreshGen(s)]
             n   == ShowTab(m, id)
  <1>1. CASE s.large # NoLarge \/ s.external # NoExternal \/ s.prompt # NoPrompt
    <2>1. BeginPrompt(s, kind, id) = s BY <1>1 DEF BeginPrompt
    <2>2. Reaches(s, s, X, W, Big) BY SameReaches
    <2> QED BY <1>1, <2>1, <2>2
  <1>2. CASE ~ (s.large # NoLarge \/ s.external # NoExternal
                \/ s.prompt # NoPrompt)
    <2>1. ask \in Prompt /\ ask.kind = kind /\ ask.awaiting = FALSE
      BY DEF Good, IsState, Prompt, TabRef
    <2>2. FreshGen(s) \in GenRef BY FreshIdentity DEF GenRef
    <2> HIDE DEF ask
    <2>3. /\ m.docs = s.docs /\ m.tab = s.tab /\ m.disk = s.disk
          /\ m.dialogs = s.dialogs /\ m.spell = s.spell /\ m.prompt = ask
          /\ IsState(m)
      BY <2>1, <2>2 DEF Good, IsState, States
    <2> HIDE DEF m
    <2>4. Reaches(s, m, X, W, Big) BY <2>1, <2>3, SameReaches DEF Named
    <2>5. OnlyShown(m, n) BY <2>3, ShowTabShows
    <2>6. Reaches(s, n, X, W, Big) BY <2>4, <2>5, ShownReaches, ReachesThrough
    <2>7. n.prompt = ask BY <2>3, <2>5 DEF OnlyShown
    <2>8. BeginPrompt(s, kind, id) = n BY <1>2 DEF BeginPrompt, m, ask
    <2> HIDE DEF n
    <2> QED BY <2>1, <2>6, <2>7, <2>8
  <1> QED BY <1>1, <1>2

\* The walk's state is reset.
LEMMA ClearDirtyCloseStateReaches ==
  ASSUME NEW s, IsState(s), NEW X, NEW W, NEW Big
  PROVE  LET n == ClearDirtyCloseState(s)
         IN  Reaches(s, n, X, W, Big) /\ n.prompt = s.prompt
  <1> DEFINE n == ClearDirtyCloseState(s)
  <1>1. /\ n.docs = s.docs /\ n.tab = s.tab /\ n.disk = s.disk
        /\ n.dialogs = s.dialogs /\ n.spell = s.spell /\ n.prompt = s.prompt
    BY DEF ClearDirtyCloseState, IsState, States
  <1> HIDE DEF n
  <1>2. Reaches(s, n, X, W, Big) BY <1>1, SameReaches DEF Named
  <1> QED BY <1>1, <1>2 DEF n

\* Cancel on the card.
LEMMA DismissPromptReaches ==
  ASSUME NEW s, Good(s), NEW X, NEW W, NEW Big
  PROVE  /\ Reaches(s, DismissPrompt(s), X, W, Big)
         /\ DismissPrompt(s).prompt = NoPrompt
  <1> DEFINE m == [s EXCEPT !.prompt = NoPrompt]
  <1>1. Reaches(s, m, X, W, Big) BY CardsReach DEF Good
  <1>2. Good(m) /\ m.prompt = NoPrompt
    BY NoPromptGood DEF Good, IsState, States
  <1> HIDE DEF m
  <1>3. /\ Reaches(m, ClearDirtyCloseState(m), X, W, Big)
        /\ ClearDirtyCloseState(m).prompt = NoPrompt
    BY <1>2, ClearDirtyCloseStateReaches DEF Good
  <1>4. Reaches(s, ClearDirtyCloseState(m), X, W, Big)
    BY <1>1, <1>3, ReachesThrough
  <1> QED BY <1>3, <1>4 DEF m, DismissPrompt

\* The card waits for a dialog, or no longer does.
LEMMA AwaitingReaches ==
  ASSUME NEW s, Good(s), NEW b \in BOOLEAN, b => s.prompt # NoPrompt,
         NEW X, NEW W, NEW Big
  PROVE  LET n == [s EXCEPT !.prompt.awaiting = b]
         IN  /\ Reaches(s, n, X, W, Big)
             /\ n.prompt.kind = s.prompt.kind /\ n.prompt.awaiting = b
  <1> DEFINE ask == [s.prompt EXCEPT !.awaiting = b]
             n   == [s EXCEPT !.prompt = ask]
  <1>1. /\ ask.kind = s.prompt.kind /\ ask.awaiting = b
        /\ s.prompt = NoPrompt => ask = NoPrompt
    <2>1. s.prompt \in Prompt BY DEF Good, IsState, States
    <2>2. ask.kind = s.prompt.kind /\ ask.awaiting = b BY <2>1 DEF Prompt
    <2>3. CASE s.prompt = NoPrompt
      <3>1. \A r \in Prompt :
              r.awaiting = FALSE => [r EXCEPT !.awaiting = FALSE] = r
        BY DEF Prompt
      <3>2. s.prompt.awaiting = FALSE BY <2>3 DEF NoPrompt
      <3>3. [s.prompt EXCEPT !.awaiting = FALSE] = s.prompt BY <2>1, <3>1, <3>2
      <3>4. b = FALSE BY <2>3
      <3> QED BY <2>2, <2>3, <3>3, <3>4
    <2> QED BY <2>2, <2>3
  <1>2. [s EXCEPT !.prompt.awaiting = b] = n OBVIOUS
  <1> HIDE DEF ask
  <1>3. /\ n.docs = s.docs /\ n.tab = s.tab /\ n.disk = s.disk
        /\ n.dialogs = s.dialogs /\ n.spell = s.spell /\ n.prompt = ask
    BY DEF Good, IsState, States
  <1> HIDE DEF n
  <1>4. Named(s) => Named(n) BY <1>1, <1>3 DEF Named
  <1> QED BY <1>1, <1>2, <1>3, <1>4, SameReaches

\* A Save As is asked for.
LEMMA QueueShowSaveAsReaches ==
  ASSUME NEW s, IsState(s), NEW X, NEW W, NEW Big
  PROVE  /\ Reaches(s, QueueShowSaveAs(s), X, W, Big)
         /\ QueueShowSaveAs(s).prompt = s.prompt
  <1> DEFINE v == [tab |-> IF s.prompt # NoPrompt THEN s.prompt.tab ELSE s.active,
                   gen |-> IF s.prompt.awaiting THEN s.gen ELSE NoGen]
             m == [s EXCEPT !.slot = v]
             n == [m EXCEPT !.requests = Append(m.requests, "ShowSaveAs")]
  <1>1. QueueShowSaveAs(s) = n BY DEF QueueShowSaveAs, Queue
  <1> HIDE DEF v
  <1>2. /\ n.docs = s.docs /\ n.tab = s.tab /\ n.disk = s.disk
        /\ n.dialogs = s.dialogs /\ n.spell = s.spell /\ n.prompt = s.prompt
    BY DEF IsState, States
  <1> HIDE DEF n
  <1> QED BY <1>1, <1>2, SameReaches DEF Named

\* Save on the card of a tab without a path.
LEMMA AwaitSaveAsReaches ==
  ASSUME NEW s, Good(s), s.prompt # NoPrompt, NEW X, NEW W, NEW Big
  PROVE  /\ Reaches(s, AwaitSaveAs(s), X, W, Big)
         /\ AwaitSaveAs(s).prompt.kind = s.prompt.kind
  <1> DEFINE m == [s EXCEPT !.prompt.awaiting = TRUE]
  <1>1. Reaches(s, m, X, W, Big) /\ m.prompt.kind = s.prompt.kind
    BY AwaitingReaches
  <1>2. IsState(m) BY AwaitingGood DEF Good
  <1> HIDE DEF m
  <1>3. /\ Reaches(m, QueueShowSaveAs(m), X, W, Big)
        /\ QueueShowSaveAs(m).prompt = m.prompt
    BY <1>2, QueueShowSaveAsReaches
  <1>4. Reaches(s, QueueShowSaveAs(m), X, W, Big)
    BY <1>1, <1>3, ReachesThrough
  <1> QED BY <1>1, <1>3, <1>4 DEF m, AwaitSaveAs

\* The dialog the card waited for came to nothing.
LEMMA NotifySaveIncompleteReaches ==
  ASSUME NEW s, Good(s), NEW X, NEW W, NEW Big
  PROVE  LET n == NotifySaveIncomplete(s)
         IN  /\ Reaches(s, n, X, W, Big)
             /\ n.prompt.kind = s.prompt.kind /\ ~ n.prompt.awaiting
  <1> DEFINE n == [s EXCEPT !.prompt.awaiting = FALSE]
  <1>1. /\ Reaches(s, n, X, W, Big)
        /\ n.prompt.kind = s.prompt.kind /\ n.prompt.awaiting = FALSE
    BY AwaitingReaches
  <1> QED BY <1>1 DEF NotifySaveIncomplete

\* The walk asks about the next tab, or the close is accepted.
LEMMA AdvanceOrAcceptWindowCloseReaches ==
  ASSUME NEW s, Good(s), GenRoom(s), s.prompt = NoPrompt,
         NEW X, NEW W, NEW Big
  PROVE  LET n == AdvanceOrAcceptWindowClose(s)
         IN  /\ Reaches(s, n, X, W, Big)
             /\ s.large = NoLarge /\ s.external = NoExternal =>
                  n.prompt.kind = "window" \/ "AcceptClose" \in ToSet(n.requests)
  <1> DEFINE m  == [s EXCEPT !.gen = NoGen]
             id == NextWindowCloseDirty(s)
  <1>1. Good(m)
    BY DEF Good, IsState, States, StripIsTabs, TabsHaveDocuments, OneTab,
           NoOverlap, Pending, GenRef
  <1>2. m.tab = s.tab /\ m.prompt = s.prompt /\ m.large = s.large
        /\ m.external = s.external /\ Keeps(s, m)
    BY DEF Good, IsState, States, Keeps, LiveDocs, LiveGens
  <1>3. Reaches(s, m, X, W, Big) BY CardsReach DEF Good
  <1> HIDE DEF m
  <1>4. GenRoom(m) BY <1>2, KeepsRoom
  <1>5. CASE UnresolvedDirty(s) # {}
    <2> DEFINE n == BeginPrompt(m, "window", id)
    <2>1. id \in DOMAIN m.tab BY <1>2, <1>5, NextWindowCloseDirtyOpen
    <2>2. AdvanceOrAcceptWindowClose(s) = n
      BY <1>5 DEF m, AdvanceOrAcceptWindowClose
    <2> HIDE DEF id
    <2>3. /\ Reaches(m, n, X, W, Big)
          /\ m.large = NoLarge /\ m.external = NoExternal
             /\ m.prompt = NoPrompt => n.prompt.kind = "window"
      BY <1>1, <1>4, <2>1, BeginPromptReaches
    <2> HIDE DEF n
    <2>4. Reaches(s, n, X, W, Big) BY <1>3, <2>3, ReachesThrough
    <2> QED BY <1>2, <2>2, <2>3, <2>4
  <1>6. CASE UnresolvedDirty(s) = {}
    <2> DEFINE c == ClearDirtyCloseState(s)
               n == Queue(c, "AcceptClose")
    <2>1. Good(c) /\ Reaches(s, c, X, W, Big)
      BY ClearDirtyCloseStateGood, ClearDirtyCloseStateReaches DEF Good
    <2> HIDE DEF c
    <2>2. Reaches(c, n, X, W, Big) BY <2>1, QueueReaches DEF Good
    <2>3. "AcceptClose" \in ToSet(n.requests)
      BY <2>1, QueueElements DEF Request
    <2>4. Reaches(s, n, X, W, Big) BY <2>1, <2>2, ReachesThrough
    <2>5. AdvanceOrAcceptWindowClose(s) = n
      BY <1>6 DEF c, AdvanceOrAcceptWindowClose
    <2> QED BY <2>3, <2>4, <2>5
  <1> QED BY <1>5, <1>6
-----------------------------------------------------------------------------
(* Tabs come and go *)

\* A new document is empty.
LEMMA CreateReaches ==
  ASSUME NEW s, IsState(s), NEW id, id \notin DOMAIN s.docs, NEW X, NEW W, NEW Big,
         Empty \notin Big
  PROVE  LET n == CreateDocument(s, id)
         IN  Reaches(s, n, X, W, Big) /\ n.prompt = s.prompt
  <1> DEFINE n == CreateDocument(s, id)
  <1>1. /\ DOMAIN n.docs = DOMAIN s.docs \cup {id}
        /\ n.docs[id] = AtSavePoint(Empty)
        /\ \A d \in DOMAIN s.docs \ {id} : n.docs[d] = s.docs[d]
        /\ n.tab = s.tab /\ n.disk = s.disk /\ n.dialogs = s.dialogs
        /\ n.spell = s.spell /\ n.prompt = s.prompt
    BY CreateFields
  <1> HIDE DEF n
  <1>2. Carried(s, n, Big)
    <2> SUFFICES ASSUME NEW d \in DOMAIN n.docs, NEW text \in Big,
                        text \in {n.docs[d].text, n.docs[d].saved}
                 PROVE  /\ d \in DOMAIN s.docs
                        /\ text \in {s.docs[d].text, s.docs[d].saved}
      BY DEF Carried
    <2>1. d # id BY <1>1 DEF AtSavePoint
    <2> QED BY <1>1, <2>1
  <1> QED BY <1>1, <1>2 DEF n, Reaches, Stamped, Named

\* A tab is appended; one with a path knows its file.
LEMMA AppendTabReaches ==
  ASSUME NEW s, IsState(s), NEW id, id \notin DOMAIN s.tab, NEW record,
         record.path # NoPath => record.stamp # NoStamp,
         NEW X, NEW W, NEW Big
  PROVE  LET n == AppendTab(s, id, record)
         IN  /\ Reaches(s, n, X, W, Big)
             /\ n.prompt = s.prompt /\ n.opening = s.opening
             /\ n.docs = s.docs /\ n.disk = s.disk /\ n.spell = s.spell
  <1> DEFINE stripN == Append(s.strip, id)
             tabN == [t \in DOMAIN s.tab \cup {id} |->
                       IF t = id THEN record ELSE s.tab[t]]
             n    == [s EXCEPT !.strip = stripN, !.tab = tabN]
  <1>1. AppendTab(s, id, record) = n BY DEF AppendTab
  <1>2. /\ DOMAIN tabN = DOMAIN s.tab \cup {id} /\ tabN[id] = record
        /\ \A t \in DOMAIN s.tab : tabN[t] = s.tab[t]
    OBVIOUS
  <1> HIDE DEF tabN, stripN
  <1>3. /\ n.docs = s.docs /\ n.tab = tabN /\ n.disk = s.disk
        /\ n.dialogs = s.dialogs /\ n.spell = s.spell
        /\ n.prompt = s.prompt /\ n.opening = s.opening
    BY DEF IsState, States
  <1> HIDE DEF n
  <1>4. Reaches(s, n, X, W, Big)
    BY <1>2, <1>3 DEF Reaches, Carried, Stamped, Named
  <1> QED BY <1>1, <1>3, <1>4

\* A document goes with its tab, unless the editor refuses.
LEMMA ForgetClosedReaches ==
  ASSUME NEW s, IsState(s), NEW id, NEW W, NEW Big
  PROVE  LET n == ForgetTab(CloseDocument(s, id), id)
         IN  /\ Reaches(s, n, {id}, W, Big)
             /\ n.prompt = s.prompt
  <1> DEFINE m      == CloseDocument(s, id)
             stripN == RemoveAt(m.strip, IndexOf(m, id))
             tabN   == [t \in DOMAIN m.tab \ {id} |-> m.tab[t]]
             n      == [m EXCEPT !.strip = stripN, !.tab = tabN]
  <1>1. ForgetTab(m, id) = n BY DEF ForgetTab
  <1>2. /\ DOMAIN m.docs \subseteq DOMAIN s.docs
        /\ \A d \in DOMAIN s.docs \ {id} :
             d \in DOMAIN m.docs /\ m.docs[d] = s.docs[d]
        /\ \A d \in DOMAIN m.docs : m.docs[d] = s.docs[d]
        /\ m.tab = s.tab /\ m.disk = s.disk /\ m.dialogs = s.dialogs
        /\ m.spell = s.spell /\ m.prompt = s.prompt /\ DOMAIN m = DOMAIN s
    <2>1. CASE id = s.editing \/ ~ HasDocument(s, id)
      <3>1. m = [s EXCEPT !.fault = TRUE] BY <2>1 DEF CloseDocument
      <3> HIDE DEF m
      <3> QED BY <3>1 DEF IsState, States
    <2>2. CASE ~ (id = s.editing \/ ~ HasDocument(s, id))
      <3> DEFINE docsN == [d \in DOMAIN s.docs \ {id} |-> s.docs[d]]
      <3>1. m = [s EXCEPT !.docs = docsN] BY <2>2 DEF CloseDocument
      <3>2. /\ DOMAIN docsN = DOMAIN s.docs \ {id}
            /\ \A d \in DOMAIN s.docs \ {id} : docsN[d] = s.docs[d]
        OBVIOUS
      <3> HIDE DEF m, docsN
      <3>3. /\ m.docs = docsN
            /\ m.tab = s.tab /\ m.disk = s.disk /\ m.dialogs = s.dialogs
            /\ m.spell = s.spell /\ m.prompt = s.prompt
            /\ DOMAIN m = DOMAIN s
        BY <3>1 DEF IsState, States
      <3> QED BY <3>2, <3>3
    <2> QED BY <2>1, <2>2
  <1>3. /\ DOMAIN tabN = DOMAIN m.tab \ {id}
        /\ \A t \in DOMAIN m.tab \ {id} : tabN[t] = m.tab[t]
    OBVIOUS
  <1> HIDE DEF m, stripN, tabN
  <1>4. /\ n.docs = m.docs /\ n.tab = tabN /\ n.disk = m.disk
        /\ n.dialogs = m.dialogs /\ n.spell = m.spell /\ n.prompt = m.prompt
    BY <1>2 DEF IsState, States
  <1> HIDE DEF n
  <1>5. Reaches(s, n, {id}, W, Big)
    BY <1>2, <1>3, <1>4 DEF Reaches, Carried, Stamped, Named
  <1> QED BY <1>1, <1>2, <1>4, <1>5 DEF m

\* A closed tab takes only its own document along.
LEMMA RemoveTabReaches ==
  ASSUME NEW s, Good(s), DocRoom(s), NEW id \in DOMAIN s.tab,
         s.prompt = NoPrompt, NEW W, NEW Big, Empty \notin Big
  PROVE  Reaches(s, RemoveTab(s, id), {id}, W, Big)
  <1> DEFINE fresh == FreshDoc(s)
             m == CreateDocument(s, fresh)
             created == Activate(m, fresh)
             gone == ForgetTab(CloseDocument(created, id), id)
             new == AppendTab(gone, fresh, Untitled)
             i == IndexOf(s, id)
             next == s.strip[IF i < Len(s.strip) THEN i + 1 ELSE i - 1]
             base == IF id = s.active THEN Activate(s, next) ELSE s
             left == ForgetTab(CloseDocument(base, id), id)
             n == [left EXCEPT !.active = left.editing]
  <1>1. fresh \in DocIds /\ fresh \notin DOMAIN s.docs
    BY FreshIdentity DEF LiveDocs
  <1>2. fresh \notin DOMAIN s.tab BY <1>1 DEF Good, TabsHaveDocuments
  <1> HIDE DEF fresh
  <1>3. CASE Len(s.strip) = 1
    <2>1. Good(m) /\ m.tab = s.tab /\ m.prompt = NoPrompt
      BY <1>1, CreateDocumentGood
    <2>2. Reaches(s, m, {id}, W, Big) BY <1>1, CreateReaches DEF Good
    <2> HIDE DEF m
    <2>3. Good(created) /\ created.tab = s.tab /\ created.prompt = NoPrompt
      BY <1>1, <2>1, ActivateGood
    <2>4. OnlyShown(m, created) BY <2>1, ActivateShows DEF Good
    <2>5. Reaches(s, created, {id}, W, Big)
      BY <2>2, <2>4, ShownReaches, ReachesThrough
    <2> HIDE DEF created
    <2>6. Good(gone) /\ DOMAIN gone.tab = DOMAIN s.tab \ {id}
      BY <2>3, ForgetClosedGood
    <2>7. Reaches(created, gone, {id}, W, Big)
      BY <2>3, ForgetClosedReaches DEF Good
    <2>8. Reaches(s, gone, {id}, W, Big) BY <2>5, <2>7, ReachesThrough
    <2> HIDE DEF gone
    <2>9. fresh \notin DOMAIN gone.tab BY <1>2, <2>6
    <2>10. Untitled.path = NoPath BY DEF Untitled
    <2>11. Reaches(gone, new, {id}, W, Big)
      BY <2>6, <2>9, <2>10, AppendTabReaches DEF Good
    <2>12. Reaches(s, new, {id}, W, Big) BY <2>8, <2>11, ReachesThrough
    <2> QED BY <1>3, <2>12 DEF new, gone, created, m, fresh, RemoveTab
  <1>4. CASE Len(s.strip) # 1
    <2>1. next \in DocIds BY <1>4, NeighbourInStrip
    <2> HIDE DEF next
    <2>2. Good(base) /\ base.tab = s.tab /\ base.prompt = NoPrompt
      BY <2>1, ActivateGood
    <2>3. Reaches(s, base, {id}, W, Big)
      <3>1. Reaches(s, s, {id}, W, Big) BY SameReaches
      <3>2. OnlyShown(s, Activate(s, next)) BY ActivateShows DEF Good
      <3>3. Reaches(s, Activate(s, next), {id}, W, Big) BY <3>2, ShownReaches
      <3> QED BY <3>1, <3>3
    <2> HIDE DEF base
    <2>4. Good(left) BY <2>2, ForgetClosedGood
    <2>5. Reaches(base, left, {id}, W, Big)
      BY <2>2, ForgetClosedReaches DEF Good
    <2> HIDE DEF left
    <2>6. /\ n.docs = left.docs /\ n.tab = left.tab /\ n.disk = left.disk
          /\ n.dialogs = left.dialogs /\ n.spell = left.spell
          /\ n.prompt = left.prompt
      BY <2>4 DEF Good, IsState, States
    <2> HIDE DEF n
    <2>7. Reaches(left, n, {id}, W, Big) BY <2>6, SameReaches DEF Named
    <2>8. Reaches(s, left, {id}, W, Big) BY <2>3, <2>5, ReachesThrough
    <2>9. Reaches(s, n, {id}, W, Big) BY <2>7, <2>8, ReachesThrough
    <2> QED BY <1>4, <2>9 DEF n, left, base, next, RemoveTab
  <1> QED BY <1>3, <1>4

\* The close the prompt asked about goes ahead; a walk closes no tab.
LEMMA PerformCloseReaches ==
  ASSUME NEW s, Good(s), DocRoom(s), GenRoom(s),
         NEW W, NEW Big, Empty \notin Big
  PROVE  LET n == PerformClose(s)
         IN  /\ Reaches(s, n, {s.prompt.tab}, W, Big)
             /\ s.prompt.kind = "window" =>
                  /\ Reaches(s, n, {}, W, Big)
                  /\ s.large = NoLarge /\ s.external = NoExternal =>
                       n.prompt.kind = "window"
                       \/ "AcceptClose" \in ToSet(n.requests)
  <1> DEFINE id     == s.prompt.tab
             closed == [s EXCEPT !.prompt = NoPrompt]
             more   == closed.resolved \cup
                         (IF HasDocument(s, id) /\ Modified(s, id)
                          THEN {id} ELSE {})
             asked  == [closed EXCEPT !.resolved = more]
  <1>1. Good(closed) /\ Keeps(s, closed) BY NoPromptGood
  <1>2. /\ closed.prompt = NoPrompt /\ closed.tab = s.tab
        /\ closed.large = s.large /\ closed.external = s.external
    BY DEF Good, IsState, States
  <1>3. Reaches(s, closed, {}, W, Big) BY CardsReach DEF Good
  <1>4. id \in DOMAIN s.docs => id \in DocIds BY DEF Good, IsState
  <1> HIDE DEF id, closed
  <1>5. CASE s.prompt.kind = "window"
    <2> DEFINE n == AdvanceOrAcceptWindowClose(asked)
    <2>1. more \subseteq DocIds
      BY <1>1, <1>4 DEF Good, IsState, States, HasDocument
    <2> HIDE DEF more
    <2>2. Good(asked)
      BY <1>1, <2>1
      DEF Good, IsState, States, StripIsTabs, TabsHaveDocuments, OneTab,
          NoOverlap, Pending
    <2>3. LiveGens(asked) = LiveGens(closed)
      BY <1>1 DEF Good, IsState, States, LiveGens
    <2>4. Reaches(closed, asked, {}, W, Big) BY <1>1, CardsReach DEF Good
    <2>5. /\ asked.prompt = closed.prompt /\ asked.large = closed.large
          /\ asked.external = closed.external
      BY <1>1 DEF Good, IsState, States
    <2> HIDE DEF asked
    <2>6. GenRoom(asked) BY <1>1, <2>3, KeepsRoom DEF GenRoom
    <2>7. /\ Reaches(asked, n, {}, W, Big)
          /\ asked.large = NoLarge /\ asked.external = NoExternal =>
               n.prompt.kind = "window" \/ "AcceptClose" \in ToSet(n.requests)
      BY <1>2, <2>2, <2>5, <2>6, AdvanceOrAcceptWindowCloseReaches
    <2>8. PerformClose(s) = n
      BY <1>5 DEF asked, more, closed, id, PerformClose
    <2> HIDE DEF n
    <2>9. Reaches(s, asked, {}, W, Big) BY <1>3, <2>4, ReachesThrough
    <2>10. Reaches(s, n, {}, W, Big) BY <2>7, <2>9, ReachesThrough
    <2>11. Reaches(s, n, {s.prompt.tab}, W, Big) BY <2>10, ReachesMore
    <2> QED BY <1>2, <2>5, <2>7, <2>8, <2>10, <2>11
  <1>6. CASE s.prompt.kind # "window"
    <2> DEFINE c == ClearDirtyCloseState(closed)
               r == RemoveTab(c, id)
    <2>1. /\ Good(c) /\ c.prompt = NoPrompt /\ c.tab = closed.tab
          /\ Keeps(closed, c)
      BY <1>1, <1>2, ClearDirtyCloseStateGood
    <2>2. Reaches(closed, c, {}, W, Big)
      BY <1>1, ClearDirtyCloseStateReaches DEF Good
    <2>3. Reaches(s, c, {}, W, Big) BY <1>3, <2>2, ReachesThrough
    <2>4. Reaches(s, c, {id}, W, Big) BY <2>3, ReachesMore
    <2> HIDE DEF c
    <2>5. DocRoom(c) BY <1>1, <2>1, KeepsRoom
    <2>6. id \in DOMAIN c.tab => Reaches(c, r, {id}, W, Big)
      BY <2>1, <2>5, RemoveTabReaches
    <2>7. id \in DOMAIN c.tab => Reaches(s, r, {id}, W, Big)
      BY <2>4, <2>6, ReachesThrough
    <2>8. PerformClose(s) = IF id \in DOMAIN c.tab THEN r ELSE c
      BY <1>2, <1>6, <2>1 DEF c, closed, id, PerformClose, HasTab
    <2> HIDE DEF r
    <2> QED BY <1>6, <2>4, <2>7, <2>8 DEF id
  <1> QED BY <1>5, <1>6
-----------------------------------------------------------------------------
(* Saving *)

\* A conflict card comes up.
LEMMA BeginExternalChangeReaches ==
  ASSUME NEW s, IsState(s), NEW id \in TabRef, NEW path \in Paths,
         NEW matter \in GenRef, NEW X, NEW W, NEW Big
  PROVE  LET n == BeginExternalChange(s, id, path, matter)
         IN  /\ Reaches(s, n, X, W, Big)
             /\ n.prompt = s.prompt
             /\ s.spell = "review" => Kept(s, n)
  <1> DEFINE card == [tab |-> id, path |-> path, gen |-> matter]
             m    == [s EXCEPT !.external = card]
             n    == ShowTab(m, id)
  <1>1. CASE s.external # NoExternal
    <2>1. BeginExternalChange(s, id, path, matter) = s
      BY <1>1 DEF BeginExternalChange
    <2>2. Reaches(s, s, X, W, Big) BY SameReaches
    <2> QED BY <2>1, <2>2 DEF Kept
  <1>2. CASE s.external = NoExternal
    <2>1. card \in ExternalChange BY DEF ExternalChange, PathRef
    <2>2. BeginExternalChange(s, id, path, matter) = n
      BY <1>2 DEF BeginExternalChange
    <2> HIDE DEF card
    <2>3. /\ IsState(m) /\ m.prompt = s.prompt /\ m.spell = s.spell
          /\ m.editing = s.editing /\ m.paste = s.paste
          /\ m.opening = s.opening /\ m.docs = s.docs
      BY <2>1 DEF IsState, States
    <2>4. Reaches(s, m, X, W, Big) BY CardsReach
    <2> HIDE DEF m
    <2>5. OnlyShown(m, n) BY <2>3, ShowTabShows
    <2>6. Reaches(s, n, X, W, Big) BY <2>4, <2>5, ShownReaches, ReachesThrough
    <2> HIDE DEF n
    <2> QED BY <2>2, <2>3, <2>5, <2>6 DEF OnlyShown, Kept
  <1> QED BY <1>1, <1>2

\* A conflict card goes.
LEMMA SettleReaches ==
  ASSUME NEW s, IsState(s), NEW id, NEW X, NEW W, NEW Big
  PROVE  LET n == Settle(s, id)
         IN  /\ Reaches(s, n, X, W, Big)
             /\ n.prompt = s.prompt /\ n.tab = s.tab /\ n.disk = s.disk
             /\ n.external \in {s.external, NoExternal}
             /\ Kept(s, n)
  <1> DEFINE m == [s EXCEPT !.external = NoExternal]
  <1>1. CASE s.external.tab = id
    <2>1. Settle(s, id) = m BY <1>1 DEF Settle
    <2>2. Reaches(s, m, X, W, Big) BY CardsReach
    <2>3. /\ m.prompt = s.prompt /\ m.tab = s.tab /\ m.disk = s.disk
          /\ m.external = NoExternal /\ m.docs = s.docs
          /\ m.editing = s.editing /\ m.paste = s.paste
          /\ m.opening = s.opening
      BY DEF IsState, States
    <2> HIDE DEF m
    <2> QED BY <2>1, <2>2, <2>3 DEF Kept
  <1>2. CASE s.external.tab # id
    <2>1. Settle(s, id) = s BY <1>2 DEF Settle
    <2>2. Reaches(s, s, X, W, Big) BY SameReaches
    <2> QED BY <2>1, <2>2 DEF Kept
  <1> QED BY <1>1, <1>2

\* The bytes of a document reached the disk.
Written(s, n, id, path) ==
  /\ id \in DOMAIN s.tab
  /\ n.disk[path] = FileOf(s.docs[id].text, FreshStamp(s))

\* A save writes one document to one path.
LEMMA StoredReaches ==
  ASSUME NEW s, Good(s), StampRoom(s), NEW id \in DOMAIN s.tab,
         NEW path \in Paths, NEW Big
  PROVE  LET n == Stored(s, id, path)
         IN  /\ Reaches(s, n, {id}, {path}, Big)
             /\ Written(s, n, id, path) /\ Kept(s, n)
  <1> DEFINE n == Stored(s, id, path)
  <1>1. StoredFrom(s, n, id, path) BY StoredFields
  <1>2. FreshStamp(s) # NoStamp
    BY FreshIdentity, FileConstants DEF Stamps, NoStamp
  <1>3. id \in DOMAIN s.docs BY DEF Good, TabsHaveDocuments
  <1> HIDE DEF n
  <1>4. Carried(s, n, Big)
    <2>1. \A d \in DOMAIN n.docs : d \in DOMAIN s.docs /\
            {n.docs[d].text, n.docs[d].saved}
              \subseteq {s.docs[d].text, s.docs[d].saved}
      BY <1>1, <1>3 DEF StoredFrom, AtSavePoint
    <2> QED BY <2>1 DEF Carried
  <1>5. Stamped(s) => Stamped(n) BY <1>1, <1>2 DEF StoredFrom, Stamped
  <1>6. Reaches(s, n, {id}, {path}, Big)
    BY <1>1, <1>4, <1>5 DEF StoredFrom, Reaches, Named
  <1>7. Kept(s, n) BY <1>1 DEF StoredFrom, Kept, AtSavePoint
  <1> QED BY <1>1, <1>6, <1>7 DEF n, StoredFrom, Written

\* What a save does: it writes, asks, or does nothing; a guarded write finds
\* the file its tab knows.
SaveBounds(s, n, id, path, unconditional, io, Big) ==
  /\ Reaches(s, n, {id}, {path}, Big)
  /\ s.spell = "review" => Kept(s, n)
  /\ IF SaveStatus(s, id, path, unconditional, io) = "success"
     THEN Written(s, n, id, path)
     ELSE Reaches(s, n, {}, {}, Big)
  /\ SaveStatus(s, id, path, unconditional, io) = "success" =>
       (~ unconditional /\ s.tab[id].path = path /\ Stamped(s)
        => s.disk[path].exists /\ s.disk[path].stamp = s.tab[id].stamp)

\* SaveToPath keeps within that.
LEMMA SaveToPathReaches ==
  ASSUME NEW s, Good(s), StampRoom(s), NEW id, NEW path \in Paths,
         NEW unconditional, NEW matter \in GenRef, NEW io, NEW Big
  PROVE  SaveBounds(s, SaveToPath(s, id, path, unconditional, matter, io),
                    id, path, unconditional, io, Big)
  <1> DEFINE n == SaveToPath(s, id, path, unconditional, matter, io)
  <1>1. CASE SaveStatus(s, id, path, unconditional, io) = "success"
    <2>1. n = Stored(s, id, path) BY <1>1 DEF SaveToPath
    <2>2. id \in DOMAIN s.tab BY <1>1 DEF SaveStatus, HasTab
    <2>3. /\ Reaches(s, n, {id}, {path}, Big)
          /\ Written(s, n, id, path) /\ Kept(s, n)
      BY <2>1, <2>2, StoredReaches
    <2>4. ASSUME ~ unconditional, s.tab[id].path = path, Stamped(s)
          PROVE  s.disk[path].exists /\ s.disk[path].stamp = s.tab[id].stamp
      <3>1. path # NoPath BY WorkspaceConstants
      <3>2. s.tab[id].stamp # NoStamp BY <2>2, <2>4, <3>1 DEF Stamped
      <3>3. WriteStatus(s.disk, path, s.tab[id].stamp, io) = "success"
        BY <1>1, <2>2, <2>4 DEF SaveStatus, HasTab
      <3> QED BY <3>2, <3>3 DEF WriteStatus, DestinationMatches
    <2> HIDE DEF n
    <2>5. SaveBounds(s, n, id, path, unconditional, io, Big)
      BY <1>1, <2>3, <2>4 DEF SaveBounds
    <2> QED BY <2>5 DEF n
  <1>2. CASE SaveStatus(s, id, path, unconditional, io) = "changed"
    <2>1. n = BeginExternalChange(s, id, path, matter)
      BY <1>2 DEF SaveToPath
    <2>2. id \in TabRef
      BY <1>2 DEF SaveStatus, HasTab, Good, IsState, TabRef
    <2>3. /\ Reaches(s, n, {}, {}, Big) /\ Reaches(s, n, {id}, {path}, Big)
          /\ s.spell = "review" => Kept(s, n)
      BY <2>1, <2>2, BeginExternalChangeReaches DEF Good
    <2> HIDE DEF n
    <2>4. SaveBounds(s, n, id, path, unconditional, io, Big)
      BY <1>2, <2>3 DEF SaveBounds
    <2> QED BY <2>4 DEF n
  <1>3. CASE SaveStatus(s, id, path, unconditional, io)
               \notin {"success", "changed"}
    <2>1. n = s BY <1>3 DEF SaveToPath
    <2>2. Reaches(s, n, {}, {}, Big) /\ Reaches(s, n, {id}, {path}, Big)
      BY <2>1, SameReaches
    <2>3. Kept(s, n) BY <2>1 DEF Kept
    <2> HIDE DEF n
    <2>4. SaveBounds(s, n, id, path, unconditional, io, Big)
      BY <1>3, <2>2, <2>3 DEF SaveBounds
    <2> QED BY <2>4 DEF n
  <1> QED BY <1>1, <1>2, <1>3

\* What a Save As result does, by how it ends.
SaveAsBounds(s, n, id, path, matter, io, Big) ==
  /\ Reaches(s, n, {id}, {path}, Big)
  /\ \/ Reaches(s, n, {}, {}, Big)
     \/ /\ SaveStatus(s, id, path, FALSE, io) = "success"
        /\ Written(s, n, id, path)
  /\ id \in DOMAIN s.tab \ DOMAIN n.tab =>
       Continues(s, id, matter) /\ s.prompt.kind # "window"
  /\ ~ s.prompt.awaiting =>
       /\ ~ n.prompt.awaiting
       /\ s.spell = "review" => Kept(s, n)
  /\ s.prompt.kind = "window" /\ s.external = NoExternal =>
       n.prompt.kind = "window" \/ "AcceptClose" \in ToSet(n.requests)

\* The dialog came to nothing, and so did its prompt's wait.
LEMMA GaveUpReaches ==
  ASSUME NEW s, NEW m, Good(m), NEW id, NEW path, NEW matter, NEW io, NEW Big,
         Reaches(s, m, {}, {}, Big), m.prompt = s.prompt,
         s.spell = "review" => Kept(s, m)
  PROVE  LET n == IF Continues(s, id, matter) THEN NotifySaveIncomplete(m) ELSE m
         IN  SaveAsBounds(s, n, id, path, matter, io, Big)
  <1> DEFINE n == NotifySaveIncomplete(m)
  <1>1. Reaches(s, m, {id}, {path}, Big) BY ReachesMore
  <1>2. id \notin DOMAIN s.tab \ DOMAIN m.tab BY DEF Reaches
  <1>3. CASE Continues(s, id, matter)
    <2>1. /\ Reaches(m, n, {}, {}, Big) /\ Reaches(m, n, {id}, {path}, Big)
          /\ n.prompt.kind = m.prompt.kind /\ ~ n.prompt.awaiting
      BY NotifySaveIncompleteReaches
    <2> HIDE DEF n
    <2>2. Reaches(s, n, {}, {}, Big) /\ Reaches(s, n, {id}, {path}, Big)
      BY <1>1, <2>1, ReachesThrough
    <2>3. id \notin DOMAIN s.tab \ DOMAIN n.tab BY <2>2 DEF Reaches
    <2>4. s.prompt.awaiting BY <1>3 DEF Continues
    <2>5. SaveAsBounds(s, n, id, path, matter, io, Big)
      BY <2>1, <2>2, <2>3, <2>4 DEF SaveAsBounds
    <2> QED BY <1>3, <2>5 DEF n
  <1>4. CASE ~ Continues(s, id, matter)
    <2>1. SaveAsBounds(s, m, id, path, matter, io, Big)
      BY <1>1, <1>2 DEF SaveAsBounds
    <2> QED BY <1>4, <2>1
  <1> QED BY <1>3, <1>4

\* A Save As result saves its own tab, and closes it only for its prompt.
LEMMA ApplySaveResultReaches ==
  ASSUME NEW s, Good(s), DocRoom(s), GenRoom(s), StampRoom(s),
         NEW id, NEW accepted \in BOOLEAN, NEW path,
         accepted => path \in Paths,
         NEW matter \in GenRef, NEW io, NEW Big, Empty \notin Big
  PROVE  SaveAsBounds(s, ApplySaveResult(s, id, accepted, path, matter, io),
                      id, path, matter, io, Big)
  <1> DEFINE saved == SaveToPath(s, id, path, FALSE, matter, io)
             m     == Settle(saved, id)
             n     == ApplySaveResult(s, id, accepted, path, matter, io)
             GaveUp(x) == IF Continues(s, id, matter) THEN NotifySaveIncomplete(x)
                          ELSE x
  <1>1. Reaches(s, s, {}, {}, Big) /\ Reaches(s, s, {id}, {path}, Big)
    BY SameReaches
  <1>2. CASE ~ accepted
    <2>1. n = GaveUp(s) BY <1>2 DEF ApplySaveResult
    <2>2. Kept(s, s) BY DEF Kept
    <2>3. SaveAsBounds(s, GaveUp(s), id, path, matter, io, Big)
      BY <1>1, <2>2, GaveUpReaches
    <2> QED BY <2>1, <2>3
  <1>3. CASE accepted /\ ~ HasTab(s, id)
    <2>1. n = s BY <1>3 DEF ApplySaveResult
    <2>2. SaveAsBounds(s, s, id, path, matter, io, Big)
      BY <1>1 DEF SaveAsBounds, Kept
    <2> QED BY <2>1, <2>2
  <1>4. CASE accepted /\ HasTab(s, id)
    <2>1. SaveBounds(s, saved, id, path, FALSE, io, Big) /\ path \in Paths
      BY <1>4, SaveToPathReaches
    <2>2. Good(saved) /\ saved.prompt = s.prompt
      <3>1. \A b : /\ Good(SaveToPath(s, id, path, b, matter, io))
                   /\ SaveToPath(s, id, path, b, matter, io).prompt = s.prompt
        BY <1>4, SaveToPathGood
      <3> QED BY <3>1
    <2>3. CASE SaveStatus(s, id, path, FALSE, io) = "success"
      <3>1. /\ Keeps(s, saved) /\ saved.gen = s.gen
            /\ saved.external = s.external /\ DOMAIN saved.tab = DOMAIN s.tab
        <4>1. \A b : SaveStatus(s, id, path, b, io) = "success" =>
                LET k == SaveToPath(s, id, path, b, matter, io)
                IN  /\ Keeps(s, k) /\ k.gen = s.gen
                    /\ k.external = s.external /\ DOMAIN k.tab = DOMAIN s.tab
          BY <2>1, SaveToPathKeeps
        <4> QED BY <2>3, <4>1
      <3>2. /\ Reaches(s, saved, {id}, {path}, Big)
            /\ Written(s, saved, id, path)
            /\ s.spell = "review" => Kept(s, saved)
        BY <2>1, <2>3 DEF SaveBounds
      <3>3. n = IF Continues(s, id, matter) THEN PerformClose(m) ELSE m
        BY <1>4, <2>3 DEF ApplySaveResult
      <3> HIDE DEF saved, n
      <3>4. /\ Good(m) /\ Keeps(saved, m) /\ m.prompt = s.prompt
        BY <2>2, SettleGood
      <3>5. /\ Reaches(saved, m, {id}, {path}, Big)
            /\ m.tab = saved.tab /\ m.disk = saved.disk
            /\ m.external \in {saved.external, NoExternal}
            /\ Kept(saved, m)
        BY <2>2, SettleReaches DEF Good
      <3> HIDE DEF m
      <3>6. /\ Reaches(s, m, {id}, {path}, Big) /\ Written(s, m, id, path)
            /\ s.spell = "review" => Kept(s, m)
        <4>1. Reaches(s, m, {id}, {path}, Big)
          BY <3>2, <3>5, ReachesThrough
        <4> QED BY <3>2, <3>5, <4>1 DEF Written, Kept
      <3>7. CASE Continues(s, id, matter)
        <4> DEFINE c == PerformClose(m)
        <4>1. DocRoom(m) /\ GenRoom(m) BY <3>1, <3>4, KeepsRoom
        <4>2. m.prompt.tab = id /\ s.prompt.awaiting BY <3>4, <3>7 DEF Continues
        <4>3. Reaches(m, c, {id}, {path}, Big) /\ Reaches(m, c, {id}, {}, Big)
          BY <3>4, <4>1, <4>2, PerformCloseReaches
        <4>4. m.prompt.kind = "window" =>
                /\ Reaches(m, c, {}, {path}, Big)
                /\ m.large = NoLarge /\ m.external = NoExternal =>
                     c.prompt.kind = "window"
                     \/ "AcceptClose" \in ToSet(c.requests)
          BY <3>4, <4>1, PerformCloseReaches
        <4> HIDE DEF c
        <4>5. Reaches(s, c, {id}, {path}, Big) BY <3>6, <4>3, ReachesThrough
        <4>6. Written(s, c, id, path)
          BY <2>1, <3>6, <4>3 DEF Written, Reaches
        <4>7. id \in DOMAIN s.tab \ DOMAIN c.tab => s.prompt.kind # "window"
          BY <3>1, <3>4, <3>5, <4>4 DEF Reaches
        <4>8. s.prompt.kind = "window" /\ s.external = NoExternal =>
                c.prompt.kind = "window" \/ "AcceptClose" \in ToSet(c.requests)
          <5>1. s.prompt.kind = "window" => m.large = NoLarge
            BY <3>4 DEF Good, NoOverlap, NoPrompt
          <5> QED BY <3>1, <3>4, <3>5, <4>4, <5>1
        <4>9. SaveAsBounds(s, c, id, path, matter, io, Big)
          BY <2>3, <3>7, <4>2, <4>5, <4>6, <4>7, <4>8 DEF SaveAsBounds
        <4> QED BY <3>3, <3>7, <4>9 DEF c, n
      <3>8. CASE ~ Continues(s, id, matter)
        <4>1. SaveAsBounds(s, m, id, path, matter, io, Big)
          BY <2>3, <3>1, <3>4, <3>5, <3>6 DEF SaveAsBounds
        <4> QED BY <3>3, <3>8, <4>1 DEF n
      <3> QED BY <3>7, <3>8
    <2>4. CASE SaveStatus(s, id, path, FALSE, io) # "success"
      <3>1. Reaches(s, saved, {}, {}, Big) /\ (s.spell = "review" => Kept(s, saved))
        BY <2>1, <2>4 DEF SaveBounds
      <3>2. n = IF saved.external # NoExternal THEN saved ELSE GaveUp(saved)
        BY <1>4, <2>4 DEF ApplySaveResult
      <3> HIDE DEF saved, n
      <3>3. SaveAsBounds(s, GaveUp(saved), id, path, matter, io, Big)
        BY <2>2, <3>1, GaveUpReaches
      <3>4. SaveAsBounds(s, saved, id, path, matter, io, Big)
        <4>1. Reaches(s, saved, {id}, {path}, Big) BY <3>1, ReachesMore
        <4>2. id \notin DOMAIN s.tab \ DOMAIN saved.tab BY <3>1 DEF Reaches
        <4> QED BY <2>2, <3>1, <4>1, <4>2 DEF SaveAsBounds
      <3> QED BY <3>2, <3>3, <3>4 DEF n
    <2> QED BY <2>3, <2>4
  <1> QED BY <1>2, <1>3, <1>4
-----------------------------------------------------------------------------
(* Opening *)

\* The document being edited comes to hold nothing of Big in docsN.
BringsNothing(s, docsN, Big) ==
  s.editing \in DOMAIN s.docs =>
    \A text \in Big :
      text \in {docsN[s.editing].text, docsN[s.editing].saved} =>
        text \in {s.docs[s.editing].text, s.docs[s.editing].saved}

\* The buffers are docsN, and a paste is pending or not.
WithBuffers(s, docsN, b) == [s EXCEPT !.docs = docsN, !.paste = b]

\* A buffer is replaced.
LEMMA BufferReaches ==
  ASSUME NEW s, IsState(s), NEW docsN, NEW b, DOMAIN docsN = DOMAIN s.docs,
         \A id \in DOMAIN s.docs \ {s.editing} : docsN[id] = s.docs[id],
         NEW W, NEW Big, BringsNothing(s, docsN, Big)
  PROVE  LET n == WithBuffers(s, docsN, b)
         IN  /\ Reaches(s, n, {s.editing}, W, Big)
             /\ n.docs = docsN /\ n.tab = s.tab /\ n.disk = s.disk
             /\ n.prompt = s.prompt /\ n.opening = s.opening /\ n.paste = b
             /\ n.editing = s.editing /\ n.requests = s.requests
  <1> DEFINE n == WithBuffers(s, docsN, b)
  <1>1. /\ n.docs = docsN /\ n.tab = s.tab /\ n.disk = s.disk
        /\ n.prompt = s.prompt /\ n.opening = s.opening /\ n.paste = b
        /\ n.editing = s.editing /\ n.requests = s.requests
        /\ n.dialogs = s.dialogs /\ n.spell = s.spell
    BY DEF IsState, States, WithBuffers
  <1> HIDE DEF n
  <1>2. Carried(s, n, Big)
    <2> SUFFICES ASSUME NEW d \in DOMAIN n.docs, NEW text \in Big,
                        text \in {n.docs[d].text, n.docs[d].saved}
                 PROVE  /\ d \in DOMAIN s.docs
                        /\ text \in {s.docs[d].text, s.docs[d].saved}
      BY DEF Carried
    <2>1. CASE d = s.editing BY <1>1, <2>1 DEF BringsNothing
    <2>2. CASE d # s.editing BY <1>1, <2>2
    <2> QED BY <2>1, <2>2
  <1>3. Reaches(s, n, {s.editing}, W, Big)
    BY <1>1, <1>2 DEF Reaches, Stamped, Named
  <1> QED BY <1>1, <1>3 DEF n

\* The document being edited is loaded anew.
LEMMA LoadInitialBufferReaches ==
  ASSUME NEW s, IsState(s), NEW text, NEW W, NEW Big, text \notin Big
  PROVE  LET n == LoadInitialBuffer(s, text)
         IN  /\ Reaches(s, n, {s.editing}, W, Big)
             /\ n.prompt = s.prompt /\ n.opening = s.opening
             /\ n.tab = s.tab
  <1> DEFINE docsN == [s.docs EXCEPT ![s.editing] = AtSavePoint(text)]
             n     == WithBuffers(s, docsN, FALSE)
  <1>1. LoadInitialBuffer(s, text) = n BY DEF LoadInitialBuffer, WithBuffers
  <1>2. /\ DOMAIN docsN = DOMAIN s.docs
        /\ \A id \in DOMAIN s.docs \ {s.editing} : docsN[id] = s.docs[id]
        /\ s.editing \in DOMAIN s.docs => docsN[s.editing] = AtSavePoint(text)
    OBVIOUS
  <1>3. \A t \in Big : t \notin {AtSavePoint(text).text, AtSavePoint(text).saved}
    BY DEF AtSavePoint
  <1>4. BringsNothing(s, docsN, Big) BY <1>2, <1>3 DEF BringsNothing
  <1> HIDE DEF docsN
  <1>5. \A b : LET k == WithBuffers(s, docsN, b)
               IN  /\ Reaches(s, k, {s.editing}, W, Big)
                   /\ k.prompt = s.prompt /\ k.opening = s.opening
                   /\ k.tab = s.tab
    BY <1>2, <1>4, BufferReaches
  <1> QED BY <1>1, <1>5

\* What happens to a document that was not there reaches nothing.
LEMMA NewcomerReaches ==
  ASSUME NEW s, NEW n, NEW id, id \notin DOMAIN s.docs, id \notin DOMAIN s.tab,
         NEW W, NEW Big, Reaches(s, n, {id}, W, Big)
  PROVE  Reaches(s, n, {}, W, Big)
  BY DEF Reaches

\* A new tab with a document of its own.
LEMMA NewTabRecordReaches ==
  ASSUME NEW s, Good(s), NEW id \in DocIds \ LiveDocs(s), NEW record \in Tab,
         record.path # NoPath => BoundTo(s, record.path) = {},
         record.path # NoPath => record.stamp # NoStamp,
         NEW W, NEW Big, Empty \notin Big
  PROVE  LET n == Activate(AppendTab(CreateDocument(s, id), id, record), id)
         IN  /\ Reaches(s, n, {}, W, Big) /\ Good(n)
             /\ n.prompt = s.prompt
             /\ s.spell # "review" => n.editing = id
  <1> DEFINE m == CreateDocument(s, id)
             a == AppendTab(m, id, record)
             n == Activate(a, id)
  <1>1. id \notin DOMAIN s.docs /\ id \notin DOMAIN s.tab
    BY DEF LiveDocs, Good, TabsHaveDocuments
  <1>2. Good(m) /\ id \in DOMAIN m.docs /\ m.tab = s.tab
    BY CreateDocumentGood
  <1>3. Reaches(s, m, {}, W, Big) /\ m.prompt = s.prompt
    BY <1>1, CreateReaches DEF Good
  <1>4. record.path # NoPath => BoundTo(m, record.path) = {}
    BY <1>2 DEF BoundTo
  <1> HIDE DEF m
  <1>5. Good(a) BY <1>1, <1>2, <1>4, AppendTabGood
  <1>6. /\ Reaches(m, a, {}, W, Big) /\ a.prompt = m.prompt
        /\ a.docs = m.docs /\ a.spell = m.spell
    BY <1>1, <1>2, AppendTabReaches DEF Good
  <1> HIDE DEF a
  <1>7. Good(n) BY <1>5, ActivateGood
  <1>8. /\ OnlyShown(a, n)
        /\ a.spell # "review" /\ id \in DOMAIN a.docs => n.editing = id
    BY <1>5, ActivateShows DEF Good
  <1> HIDE DEF n
  <1>9. Reaches(a, n, {}, W, Big) BY <1>8, ShownReaches
  <1>10. Reaches(s, a, {}, W, Big) BY <1>3, <1>6, ReachesThrough
  <1>11. Reaches(s, n, {}, W, Big) BY <1>9, <1>10, ReachesThrough
  <1>12. a.spell = s.spell BY <1>10 DEF Reaches
  <1>13. n.prompt = s.prompt BY <1>3, <1>6, <1>8 DEF OnlyShown
  <1> QED BY <1>2, <1>6, <1>7, <1>8, <1>11, <1>12, <1>13 DEF n, a, m

\* An opened file gets a document of its own.
LEMMA LoadOpenedDocumentReaches ==
  ASSUME NEW s, Good(s), s.spell # "review", NEW id \in DocIds \ LiveDocs(s),
         NEW path \in Paths, BoundTo(s, path) = {}, s.disk[path].exists,
         NEW W, NEW Big, Empty \notin Big, s.disk[path].text \notin Big
  PROVE  LET n == LoadOpenedDocument(s, id, path)
         IN  Reaches(s, n, {}, W, Big) /\ n.prompt = s.prompt
  <1> DEFINE record == [path |-> path, stamp |-> s.disk[path].stamp]
             text   == s.disk[path].text
             a == Activate(AppendTab(CreateDocument(s, id), id, record), id)
             n == LoadInitialBuffer(a, text)
  <1>1. s.disk[path] \in File
    BY DEF Good, IsState, States, Disk, Absent
  <1>2. record \in Tab /\ record.path = path /\ record.stamp # NoStamp
    <2>1. s.disk[path].stamp \in Stamps BY <1>1 DEF File
    <2>2. s.disk[path].stamp # NoStamp
      BY <2>1, FileConstants DEF Stamps, NoStamp
    <2> QED BY <2>1, <2>2 DEF Tab, PathRef
  <1>3. LoadOpenedDocument(s, id, path) = n BY DEF LoadOpenedDocument
  <1>4. id \notin DOMAIN s.docs /\ id \notin DOMAIN s.tab
    BY DEF LiveDocs, Good, TabsHaveDocuments
  <1> HIDE DEF record, text
  <1>5. /\ Reaches(s, a, {}, W, Big) /\ Good(a)
        /\ a.prompt = s.prompt /\ a.editing = id
    BY <1>2, NewTabRecordReaches
  <1> HIDE DEF a
  <1>6. text \notin Big BY DEF text
  <1>7. Reaches(a, n, {id}, W, Big) /\ n.prompt = a.prompt
    BY <1>5, <1>6, LoadInitialBufferReaches DEF Good
  <1> HIDE DEF n
  <1>8. Reaches(s, a, {id}, W, Big) BY <1>5, ReachesMore
  <1>9. Reaches(s, n, {id}, W, Big) BY <1>7, <1>8, ReachesThrough
  <1>10. Reaches(s, n, {}, W, Big) BY <1>4, <1>9, NewcomerReaches
  <1> QED BY <1>3, <1>5, <1>7, <1>10

\* The list is done, or what is left of it is noted.
LEMMA ShowLastReaches ==
  ASSUME NEW s, Good(s), NEW last \in TabRef, NEW X, NEW W, NEW Big
  PROVE  LET n == ShowLast(s, last)
         IN  Reaches(s, n, X, W, Big) /\ n.prompt = s.prompt
  <1> DEFINE m == IF last # NoDoc /\ last # s.active THEN Activate(s, last)
                  ELSE s
             n == [m EXCEPT !.opening = NoOpening]
  <1>1. last # NoDoc => last \in DocIds BY DEF TabRef
  <1>2. Good(m) BY <1>1, ActivateGood
  <1>3. OnlyShown(s, m)
    <2>1. OnlyShown(s, s) BY DEF OnlyShown, Kept
    <2> QED BY <2>1, ActivateShows DEF Good
  <1>4. Reaches(s, m, X, W, Big) /\ m.prompt = s.prompt
    BY <1>3, ShownReaches DEF OnlyShown
  <1>5. ShowLast(s, last) = n BY DEF ShowLast
  <1> HIDE DEF m
  <1>6. Reaches(m, n, X, W, Big) BY <1>2, CardsReach DEF Good
  <1>7. n.prompt = m.prompt BY <1>2 DEF Good, IsState, States
  <1> HIDE DEF n
  <1>8. Reaches(s, n, X, W, Big) BY <1>4, <1>6, ReachesThrough
  <1> QED BY <1>4, <1>5, <1>7, <1>8

\* What is left of the list is noted.
LEMMA OpeningReaches ==
  ASSUME NEW s, IsState(s), NEW o, NEW X, NEW W, NEW Big
  PROVE  LET n == [s EXCEPT !.opening = o]
         IN  Reaches(s, n, X, W, Big) /\ n.prompt = s.prompt
  <1> DEFINE n == [s EXCEPT !.opening = o]
  <1>1. Reaches(s, n, X, W, Big) BY CardsReach
  <1>2. n.prompt = s.prompt BY DEF IsState, States
  <1> QED BY <1>1, <1>2

\* The large-file card comes up.
LEMMA BeginLargeFilePromptReaches ==
  ASSUME NEW s, IsState(s), NEW path, NEW rest, NEW X, NEW W, NEW Big
  PROVE  LET n == BeginLargeFilePrompt(s, path, rest)
         IN  Reaches(s, n, X, W, Big) /\ n.prompt = s.prompt
  <1> DEFINE card == [path |-> path, rest |-> rest]
             n    == [s EXCEPT !.large = card]
  <1> HIDE DEF card
  <1>1. Reaches(s, n, X, W, Big) BY CardsReach
  <1>2. n.prompt = s.prompt BY DEF IsState, States
  <1>3. Reaches(s, s, X, W, Big) BY SameReaches
  <1>4. BeginLargeFilePrompt(s, path, rest) \in {s, n}
    BY DEF card, BeginLargeFilePrompt
  <1> HIDE DEF n
  <1> QED BY <1>1, <1>2, <1>3, <1>4

\* A file over the threshold is not read without the card.
LEMMA ReadIsBounded ==
  ASSUME NEW s, NEW path, NEW limit \in {"warning", "hard"}, NEW io,
         ReadStatus(s.disk, path, limit, io) = "success"
  PROVE  /\ s.disk[path].exists
         /\ s.disk[path].text \notin OverHard
         /\ limit = "warning" => s.disk[path].text \notin OverWarning
  BY FileConstants DEF ReadStatus, TooLarge

\* One turn of OpenPathList's loop only adds a tab.
LEMMA OpenNextPathReaches ==
  ASSUME NEW s, Good(s), DocRoom(s), s.opening # NoOpening,
         s.spell # "review", NEW io, NEW W,
         NEW Big \in SUBSET OverWarning, Empty \notin Big
  PROVE  LET n == OpenNextPath(s, io)
         IN  Reaches(s, n, {}, W, Big) /\ n.prompt = s.prompt
  <1> DEFINE path   == Normalize[Head(s.opening.rest)]
             rest   == Tail(s.opening.rest)
             status == ReadStatus(s.disk, path, "warning", io)
             id     == FreshDoc(s)
             bound  == CHOOSE t \in BoundTo(s, path) : TRUE
             After(n, last) == IF rest = << >> THEN ShowLast(n, last)
                               ELSE [n EXCEPT !.opening = [rest |-> rest,
                                                           last |-> last]]
  <1>1. s.opening.rest \in Seq(Names) /\ s.opening.rest # << >>
        /\ s.opening.last \in TabRef
    BY DEF Good, Pending, IsState, States, Opening
  <1>2. Head(s.opening.rest) \in Names /\ rest \in Seq(Names)
    BY <1>1, HeadTailProperties
  <1>3. path \in Paths BY <1>2, WorkspaceConstants
  <1> HIDE DEF rest, path
  <1>4. ASSUME NEW n, Good(n), NEW last \in TabRef
        PROVE  /\ Reaches(n, After(n, last), {}, W, Big)
               /\ After(n, last).prompt = n.prompt
    <2> DEFINE o == [rest |-> rest, last |-> last]
    <2>1. /\ Reaches(n, [n EXCEPT !.opening = o], {}, W, Big)
          /\ [n EXCEPT !.opening = o].prompt = n.prompt
      BY <1>4, OpeningReaches DEF Good
    <2>2. /\ Reaches(n, ShowLast(n, last), {}, W, Big)
          /\ ShowLast(n, last).prompt = n.prompt
      BY <1>4, ShowLastReaches
    <2> QED BY <2>1, <2>2
  <1> HIDE DEF After
  <1>5. CASE BoundTo(s, path) # {}
    <2>1. bound \in TabRef
      BY <1>5 DEF BoundTo, Good, IsState, TabRef
    <2> HIDE DEF bound
    <2>2. /\ Reaches(s, After(s, bound), {}, W, Big)
          /\ After(s, bound).prompt = s.prompt
      BY <1>4, <2>1
    <2>3. OpenNextPath(s, io) = After(s, bound)
      BY <1>5 DEF After, rest, path, bound, OpenNextPath
    <2> QED BY <2>2, <2>3
  <1>6. CASE BoundTo(s, path) = {}
    <2>1. status \in {"failed", "tooLarge", "success"} BY DEF ReadStatus
    <2>2. id \in DocIds \ LiveDocs(s) BY FreshIdentity
    <2>3. id \in TabRef BY <2>2 DEF TabRef
    <2> HIDE DEF id, status
    <2>4. CASE status = "tooLarge"
      <3> DEFINE m == ShowLast(s, s.opening.last)
                 n == BeginLargeFilePrompt(m, path, rest)
      <3>1. Good(m) BY <1>1, ShowLastGood
      <3>2. Reaches(s, m, {}, W, Big) /\ m.prompt = s.prompt
        BY <1>1, ShowLastReaches
      <3>3. OpenNextPath(s, io) = n
        BY <1>6, <2>4 DEF rest, path, status, OpenNextPath
      <3> HIDE DEF m
      <3>4. Reaches(m, n, {}, W, Big) /\ n.prompt = m.prompt
        BY <3>1, BeginLargeFilePromptReaches DEF Good
      <3> HIDE DEF n
      <3>5. Reaches(s, n, {}, W, Big) BY <3>2, <3>4, ReachesThrough
      <3> QED BY <3>2, <3>3, <3>4, <3>5
    <2>5. CASE status = "failed"
      <3>1. /\ Reaches(s, After(s, s.opening.last), {}, W, Big)
            /\ After(s, s.opening.last).prompt = s.prompt
        BY <1>1, <1>4
      <3>2. OpenNextPath(s, io) = After(s, s.opening.last)
        BY <1>6, <2>5 DEF After, rest, path, status, OpenNextPath
      <3> QED BY <3>1, <3>2
    <2>6. CASE status = "success"
      <3> DEFINE m == LoadOpenedDocument(s, id, path)
                 n == After(m, id)
      <3>1. s.disk[path].exists /\ s.disk[path].text \notin Big
        BY <2>6, ReadIsBounded DEF status
      <3>2. Good(m)
        BY <1>3, <1>6, <2>2, <3>1, LoadOpenedDocumentGood
      <3>3. Reaches(s, m, {}, W, Big) /\ m.prompt = s.prompt
        BY <1>3, <1>6, <2>2, <3>1, LoadOpenedDocumentReaches
      <3>4. OpenNextPath(s, io) = n
        BY <1>6, <2>6 DEF After, rest, path, id, status, OpenNextPath
      <3> HIDE DEF m
      <3>5. Reaches(m, n, {}, W, Big) /\ n.prompt = m.prompt
        BY <1>4, <2>3, <3>2
      <3> HIDE DEF n
      <3>6. Reaches(s, n, {}, W, Big) BY <3>3, <3>5, ReachesThrough
      <3> QED BY <3>3, <3>4, <3>5, <3>6
    <2> QED BY <2>1, <2>4, <2>5, <2>6
  <1> QED BY <1>5, <1>6

\* A list is begun, unless a decision is up.
LEMMA ApplyOpenPathsReaches ==
  ASSUME NEW s, IsState(s), NEW names, NEW X, NEW W, NEW Big
  PROVE  LET n == ApplyOpenPaths(s, names)
         IN  /\ Reaches(s, n, X, W, Big) /\ n.prompt = s.prompt
             /\ s.spell = "review" => n = s
  <1> DEFINE o == [rest |-> names, last |-> NoDoc]
             n == [s EXCEPT !.opening = o]
  <1> HIDE DEF o
  <1>1. Reaches(s, n, X, W, Big) /\ n.prompt = s.prompt BY OpeningReaches
  <1>2. Reaches(s, s, X, W, Big) BY SameReaches
  <1>3. ApplyOpenPaths(s, names) = IF DecisionActive(s) THEN s ELSE n
    BY DEF o, ApplyOpenPaths, OpenPathList
  <1>4. s.spell = "review" => DecisionActive(s)
    BY DEF DecisionActive, SpellcheckReviewActive
  <1> HIDE DEF n
  <1> QED BY <1>1, <1>2, <1>3, <1>4
-----------------------------------------------------------------------------
(* Requests from the user *)

\* New Tab.
LEMMA NewTabReaches ==
  ASSUME NEW s, Good(s), DocRoom(s), NEW W, NEW Big, Empty \notin Big
  PROVE  Reaches(s, NewTab(s), {}, W, Big)
  <1> DEFINE id == FreshDoc(s)
             n  == Activate(AppendTab(CreateDocument(s, id), id, Untitled), id)
  <1>1. id \in DocIds \ LiveDocs(s) BY FreshIdentity
  <1>2. Untitled \in Tab /\ Untitled.path = NoPath
    BY DEF Untitled, Tab, PathRef
  <1>3. NewTab(s) = IF DecisionActive(s) THEN s ELSE n BY DEF NewTab
  <1> HIDE DEF id
  <1>4. Reaches(s, n, {}, W, Big) BY <1>1, <1>2, NewTabRecordReaches
  <1>5. Reaches(s, s, {}, W, Big) BY SameReaches
  <1> HIDE DEF n
  <1> QED BY <1>3, <1>4, <1>5

\* A click on a tab, and Next and Previous Tab.
LEMMA ActivateTabReaches ==
  ASSUME NEW s, Good(s), NEW id, NEW X, NEW W, NEW Big
  PROVE  Reaches(s, ActivateTab(s, id), X, W, Big)
  <1>1. OnlyShown(s, Activate(s, id)) BY ActivateShows DEF Good
  <1>2. Reaches(s, Activate(s, id), X, W, Big) BY <1>1, ShownReaches
  <1>3. Reaches(s, s, X, W, Big) BY SameReaches
  <1> QED BY <1>2, <1>3 DEF ActivateTab

LEMMA CycleTabReaches ==
  ASSUME NEW s, Good(s), NEW delta, NEW X, NEW W, NEW Big
  PROVE  Reaches(s, CycleTab(s, delta), X, W, Big)
  BY ActivateTabReaches DEF CycleTab

\* Close Tab takes only a tab that is saved.
LEMMA CloseTabReaches ==
  ASSUME NEW s, Good(s), DocRoom(s), GenRoom(s), NEW id,
         NEW W, NEW Big, Empty \notin Big
  PROVE  LET n == CloseTab(s, id)
         IN  /\ Reaches(s, n, {id}, W, Big)
             /\ Modified(s, id) => Reaches(s, n, {}, W, Big)
  <1>1. Reaches(s, s, {}, W, Big) /\ Reaches(s, s, {id}, W, Big)
    BY SameReaches
  <1>2. CASE DecisionActive(s) \/ ~ HasTab(s, id) BY <1>1, <1>2 DEF CloseTab
  <1>3. CASE ~ (DecisionActive(s) \/ ~ HasTab(s, id))
    <2> DEFINE b == BeginPrompt(s, "tab", id)
               r == RemoveTab(s, id)
    <2>1. s.prompt = NoPrompt /\ id \in DOMAIN s.tab
      BY <1>3 DEF DecisionActive, HasTab
    <2>2. Reaches(s, b, {}, W, Big) /\ Reaches(s, b, {id}, W, Big)
      BY <2>1, BeginPromptReaches
    <2>3. Reaches(s, r, {id}, W, Big) BY <2>1, RemoveTabReaches
    <2>4. CloseTab(s, id) = IF Modified(s, id) THEN b ELSE r
      BY <1>3 DEF CloseTab
    <2> HIDE DEF b, r
    <2> QED BY <2>2, <2>3, <2>4
  <1> QED BY <1>2, <1>3

\* Open and Save As ask for a dialog.
LEMMA RequestDialogReaches ==
  ASSUME NEW s, Good(s), NEW X, NEW W, NEW Big
  PROVE  /\ Reaches(s, RequestOpen(s), X, W, Big)
         /\ Reaches(s, RequestSaveAs(s), X, W, Big)
  <1>1. IsState(s) BY DEF Good
  <1>2. Reaches(s, s, X, W, Big) BY SameReaches
  <1>3. Reaches(s, Queue(s, "ShowOpen"), X, W, Big) BY <1>1, QueueReaches
  <1>4. Reaches(s, QueueShowSaveAs(s), X, W, Big)
    BY <1>1, QueueShowSaveAsReaches
  <1> QED BY <1>2, <1>3, <1>4 DEF RequestOpen, RequestSaveAs

\* A save that replaces the very file its tab knows.
GuardedSave(s, n, id, path, Big) ==
  /\ id \in DOMAIN s.tab /\ s.tab[id].path = path
  /\ s.disk[path].exists /\ s.disk[path].stamp = s.tab[id].stamp
  /\ Reaches(s, n, {id}, {path}, Big)
  /\ Written(s, n, id, path)

\* Save writes what the active tab knows, or nothing.
LEMMA RequestSaveReaches ==
  ASSUME NEW s, Good(s), StampRoom(s), Stamped(s), NEW io, NEW Big
  PROVE  LET n == RequestSave(s, io)
         IN  \/ Reaches(s, n, {}, {}, Big)
             \/ \E path \in Paths : GuardedSave(s, n, s.active, path, Big)
  <1> DEFINE id    == s.active
             path  == s.tab[id].path
             saved == SaveToPath(s, id, path, FALSE, NoGen, io)
             n     == RequestSave(s, io)
  <1>1. NoGen \in GenRef BY DEF GenRef
  <1>2. IsState(s) BY DEF Good
  <1>3. Reaches(s, s, {}, {}, Big) BY SameReaches
  <1>4. Reaches(s, QueueShowSaveAs(s), {}, {}, Big)
    BY <1>2, QueueShowSaveAsReaches
  <1>5. n \in {s, QueueShowSaveAs(s)} \/ (n = saved /\ path # NoPath)
    BY DEF RequestSave
  <1>6. CASE n = saved /\ path # NoPath /\ HasTab(s, id)
    <2>1. path \in Paths
      BY <1>6 DEF HasTab, Good, IsState, States, Tab, PathRef
    <2>2. SaveBounds(s, saved, id, path, FALSE, io, Big)
      <3> HIDE DEF path
      <3>1. \A b : SaveBounds(s, SaveToPath(s, id, path, b, NoGen, io),
                              id, path, b, io, Big)
        BY <1>1, <2>1, SaveToPathReaches
      <3> QED BY <3>1
    <2> HIDE DEF saved, n
    <2>3. CASE SaveStatus(s, id, path, FALSE, io) = "success"
      <3>1. GuardedSave(s, saved, id, path, Big)
        BY <1>6, <2>2, <2>3 DEF SaveBounds, GuardedSave, HasTab
      <3> QED BY <1>6, <2>1, <3>1 DEF n
    <2>4. CASE SaveStatus(s, id, path, FALSE, io) # "success"
      BY <1>6, <2>2, <2>4 DEF SaveBounds, n
    <2> QED BY <2>3, <2>4
  <1>7. CASE n = saved /\ ~ HasTab(s, id)
    <2>1. saved = s BY <1>7 DEF SaveToPath, SaveStatus
    <2> QED BY <1>3, <1>7, <2>1
  <1> QED BY <1>3, <1>4, <1>5, <1>6, <1>7

\* A close of the window asks about the first unsaved tab.
LEMMA RequestCloseReaches ==
  ASSUME NEW s, Good(s), GenRoom(s), NEW X, NEW W, NEW Big
  PROVE  LET n == RequestClose(s)
         IN  /\ Reaches(s, n, X, W, Big)
             /\ DecisionActive(s) => n = s
             /\ s.prompt.awaiting \/ ~ n.prompt.awaiting
  <1> DEFINE walk == [s EXCEPT !.resolved = {}]
             id   == NextWindowCloseDirty(walk)
             b    == BeginPrompt(walk, "window", id)
             q    == Queue(walk, "AcceptClose")
  <1>1. Good(walk)
    BY DEF Good, IsState, States, StripIsTabs, TabsHaveDocuments, OneTab,
           NoOverlap, Pending
  <1>2. LiveGens(walk) = LiveGens(s) /\ walk.prompt = s.prompt
    BY DEF Good, IsState, States, LiveGens
  <1>3. Reaches(s, walk, X, W, Big) BY CardsReach DEF Good
  <1>4. Reaches(s, s, X, W, Big) BY SameReaches
  <1>5. RequestClose(s) = IF DecisionActive(s) THEN s
                          ELSE IF UnresolvedDirty(walk) # {} THEN b ELSE q
    BY DEF RequestClose
  <1> HIDE DEF walk
  <1>6. GenRoom(walk) BY <1>2 DEF GenRoom
  <1>7. UnresolvedDirty(walk) # {} =>
          Reaches(walk, b, X, W, Big) /\ (b.prompt = walk.prompt \/ ~ b.prompt.awaiting)
    <2> HAVE UnresolvedDirty(walk) # {}
    <2>1. id \in DOMAIN walk.tab BY <1>1, NextWindowCloseDirtyOpen
    <2> HIDE DEF id
    <2> QED BY <1>1, <1>6, <2>1, BeginPromptReaches
  <1>8. Reaches(walk, q, X, W, Big) /\ q.prompt = walk.prompt
    BY <1>1, QueueReaches DEF Good
  <1> HIDE DEF b, q
  <1>9. UnresolvedDirty(walk) # {} => Reaches(s, b, X, W, Big)
    BY <1>3, <1>7, ReachesThrough
  <1>10. Reaches(s, q, X, W, Big) BY <1>3, <1>8, ReachesThrough
  <1> QED BY <1>2, <1>4, <1>5, <1>7, <1>8, <1>9, <1>10
-----------------------------------------------------------------------------
(* Answers to the three decisions *)

\* An answer to the dirty-close card is about its own tab.
LEMMA ChooseReaches ==
  ASSUME NEW s, Good(s), DocRoom(s), GenRoom(s), StampRoom(s), Stamped(s),
         NEW choice \in {"cancel", "discard", "save"}, NEW io,
         NEW Big, Empty \notin Big
  PROVE  LET n == Choose(s, choice, io)
         IN  \/ Reaches(s, n, {s.prompt.tab}, {}, Big)
             \/ \E path \in Paths : GuardedSave(s, n, s.prompt.tab, path, Big)
  <1> DEFINE id      == s.prompt.tab
             path    == PathOf(s, id)
             saved   == SaveToPath(s, id, path, FALSE, s.gen, io)
             success == SaveStatus(s, id, path, FALSE, io) = "success"
             n       == Choose(s, choice, io)
  <1>1. CASE s.prompt = NoPrompt \/ s.external # NoExternal
    <2>1. n = s BY <1>1 DEF Choose
    <2> QED BY <2>1, SameReaches
  <1>2. CASE s.prompt # NoPrompt /\ s.external = NoExternal
    <2>1. id \in DOMAIN s.tab BY <1>2 DEF Good, Pending
    <2>2. path \in PathRef /\ path = s.tab[id].path
      BY <2>1 DEF PathOf, HasTab, Good, IsState, States, Tab
    <2>3. s.gen \in GenRef BY DEF Good, IsState, States
    <2>4. /\ Reaches(s, DismissPrompt(s), {id}, {}, Big)
          /\ Reaches(s, PerformClose(s), {id}, {}, Big)
          /\ Reaches(s, AwaitSaveAs(s), {id}, {}, Big)
      BY <1>2, DismissPromptReaches, PerformCloseReaches, AwaitSaveAsReaches
    <2>5. \/ n \in {DismissPrompt(s), PerformClose(s), AwaitSaveAs(s)}
          \/ path # NoPath /\ n = IF success THEN PerformClose(saved) ELSE saved
      BY <1>2 DEF Choose
    <2> HIDE DEF path, n
    <2>6. ASSUME path # NoPath,
                 n = IF success THEN PerformClose(saved) ELSE saved
          PROVE  \/ Reaches(s, n, {id}, {}, Big)
                 \/ \E p \in Paths : GuardedSave(s, n, id, p, Big)
      <3>1. path \in Paths BY <2>2, <2>6 DEF PathRef
      <3>2. Good(saved) /\ saved.prompt = s.prompt
        <4>1. \A b : /\ Good(SaveToPath(s, id, path, b, s.gen, io))
                     /\ SaveToPath(s, id, path, b, s.gen, io).prompt = s.prompt
          BY <2>3, <3>1, SaveToPathGood
        <4> QED BY <4>1
      <3>3. success => Keeps(s, saved) BY <2>3, <3>1, SaveToPathKeeps
      <3>4. SaveBounds(s, saved, id, path, FALSE, io, Big)
        <4>1. \A b : SaveBounds(s, SaveToPath(s, id, path, b, s.gen, io),
                                id, path, b, io, Big)
          BY <2>3, <3>1, SaveToPathReaches
        <4> QED BY <4>1
      <3> HIDE DEF saved
      <3>5. CASE success
        <4> DEFINE c == PerformClose(saved)
        <4>1. GuardedSave(s, saved, id, path, Big)
          BY <2>1, <2>2, <3>4, <3>5 DEF SaveBounds, GuardedSave
        <4>2. DocRoom(saved) /\ GenRoom(saved) BY <3>3, <3>5, KeepsRoom
        <4>3. Reaches(saved, c, {id}, {path}, Big) /\ Reaches(saved, c, {id}, {}, Big)
          BY <3>2, <4>2, PerformCloseReaches
        <4> HIDE DEF c
        <4>4. Reaches(s, c, {id}, {path}, Big)
          BY <4>1, <4>3, ReachesThrough DEF GuardedSave
        <4>5. c.disk[path] = saved.disk[path] BY <3>1, <4>3 DEF Reaches
        <4>6. GuardedSave(s, c, id, path, Big)
          BY <4>1, <4>4, <4>5 DEF GuardedSave, Written
        <4> QED BY <2>6, <3>1, <3>5, <4>6 DEF c
      <3>6. CASE ~ success
        <4>1. Reaches(s, saved, {}, {}, Big) BY <3>4, <3>6 DEF SaveBounds
        <4>2. Reaches(s, saved, {id}, {}, Big) BY <4>1, ReachesMore
        <4> QED BY <2>6, <3>6, <4>2
      <3> QED BY <3>5, <3>6
    <2> QED BY <2>4, <2>5, <2>6 DEF n
  <1> QED BY <1>1, <1>2

\* A confirmed large file gets a tab, unless it has one.
LEMMA OpenConfirmedReaches ==
  ASSUME NEW s, Good(s), DocRoom(s), s.spell # "review", NEW path \in Paths,
         NEW io, NEW X, NEW W, NEW Big \in SUBSET OverHard, Empty \notin Big
  PROVE  Reaches(s, OpenConfirmed(s, path, io), X, W, Big)
  <1> DEFINE bound == CHOOSE t \in BoundTo(s, path) : TRUE
             id    == FreshDoc(s)
             n     == LoadOpenedDocument(s, id, path)
  <1>1. CASE ReadStatus(s.disk, path, "hard", io) # "success"
    BY <1>1, SameReaches DEF OpenConfirmed
  <1>2. CASE ReadStatus(s.disk, path, "hard", io) = "success"
    <2>1. s.disk[path].exists /\ s.disk[path].text \notin Big
      BY <1>2, ReadIsBounded
    <2>2. CASE BoundTo(s, path) # {}
      <3>1. OnlyShown(s, Activate(s, bound)) BY ActivateShows DEF Good
      <3>2. Reaches(s, Activate(s, bound), X, W, Big) BY <3>1, ShownReaches
      <3> QED BY <1>2, <2>2, <3>2 DEF bound, OpenConfirmed
    <2>3. CASE BoundTo(s, path) = {}
      <3>1. id \in DocIds \ LiveDocs(s) BY FreshIdentity
      <3> HIDE DEF id
      <3>2. Reaches(s, n, {}, W, Big)
        BY <2>1, <2>3, <3>1, LoadOpenedDocumentReaches
      <3>3. Reaches(s, n, X, W, Big) BY <3>2, ReachesMore
      <3> QED BY <1>2, <2>3, <3>3 DEF n, id, OpenConfirmed
    <2> QED BY <2>2, <2>3
  <1> QED BY <1>1, <1>2

\* An answer to the large-file card only adds a tab.
LEMMA ChooseLargeFileReaches ==
  ASSUME NEW s, Good(s), DocRoom(s), s.spell # "review", NEW choice, NEW io,
         NEW X, NEW W, NEW Big \in SUBSET OverHard, Empty \notin Big
  PROVE  Reaches(s, ChooseLargeFile(s, choice, io), X, W, Big)
  <1> DEFINE closed == [s EXCEPT !.large = NoLarge]
             after  == IF choice = "open"
                       THEN OpenConfirmed(closed, s.large.path, io)
                       ELSE closed
             o      == [rest |-> s.large.rest, last |-> NoDoc]
             listed == [after EXCEPT !.opening = o]
  <1>1. CASE s.large = NoLarge \/ s.external # NoExternal
    BY <1>1, SameReaches DEF ChooseLargeFile
  <1>2. CASE s.large # NoLarge /\ s.external = NoExternal
    <2>1. NoLarge \in LargeOpen BY EmptySeq DEF NoLarge, LargeOpen, PathRef
    <2>2. Good(closed)
      BY <2>1 DEF Good, IsState, States, StripIsTabs, TabsHaveDocuments,
                  OneTab, NoOverlap, Pending
    <2>3. LiveDocs(closed) = LiveDocs(s) /\ closed.spell = s.spell
      BY DEF Good, IsState, States, LiveDocs
    <2>4. s.large.path \in Paths
      BY <1>2 DEF Good, Pending, IsState, States, LargeOpen
    <2>5. Reaches(s, closed, X, W, Big) BY CardsReach DEF Good
    <2> HIDE DEF closed
    <2>6. DocRoom(closed) BY <2>3 DEF DocRoom
    <2>7. Reaches(closed, closed, X, W, Big) BY SameReaches
    <2>8. Reaches(closed, after, X, W, Big) /\ Good(after)
      BY <2>2, <2>3, <2>4, <2>6, <2>7, OpenConfirmedReaches, OpenConfirmedGood
    <2> HIDE DEF after
    <2>9. Reaches(s, after, X, W, Big) BY <2>5, <2>8, ReachesThrough
    <2> HIDE DEF o
    <2>10. Reaches(after, listed, X, W, Big) BY <2>8, OpeningReaches DEF Good
    <2>11. ChooseLargeFile(s, choice, io) \in {after, listed}
      BY <1>2 DEF o, after, closed, ChooseLargeFile, OpenPathList
    <2> HIDE DEF listed
    <2>12. Reaches(s, listed, X, W, Big) BY <2>9, <2>10, ReachesThrough
    <2> QED BY <2>9, <2>11, <2>12
  <1> QED BY <1>1, <1>2

\* The close that ran into the conflict takes the tab of the conflict.
LEMMA ContinueDirtyCloseReaches ==
  ASSUME NEW s, Good(s), DocRoom(s), GenRoom(s), NEW pending,
         NEW X, pending.tab \in X, NEW W, NEW Big, Empty \notin Big
  PROVE  Reaches(s, ContinueDirtyClose(s, pending), X, W, Big)
  <1>1. CASE InitiatingPrompt(s, pending)
    <2>1. Reaches(s, PerformClose(s), {s.prompt.tab}, W, Big)
      BY PerformCloseReaches
    <2>2. s.prompt.tab = pending.tab BY <1>1 DEF InitiatingPrompt
    <2>3. Reaches(s, PerformClose(s), X, W, Big) BY <2>1, <2>2, ReachesMore
    <2> QED BY <1>1, <2>3 DEF ContinueDirtyClose
  <1>2. CASE ~ InitiatingPrompt(s, pending)
    BY <1>2, SameReaches DEF ContinueDirtyClose
  <1> QED BY <1>1, <1>2

\* Overwrite writes the file on the card.
LEMMA OverwriteReaches ==
  ASSUME NEW s, Good(s), DocRoom(s), GenRoom(s), StampRoom(s), NEW pending,
         pending.path \in Paths, NEW io, NEW Big, Empty \notin Big
  PROVE  Reaches(s, Overwrite(s, pending, io), {pending.tab}, {pending.path}, Big)
  <1> DEFINE saved   == SaveToPath(s, pending.tab, pending.path, TRUE, NoGen, io)
             success == SaveStatus(s, pending.tab, pending.path, TRUE, io)
                          = "success"
             closed  == [saved EXCEPT !.external = NoExternal]
             n       == ContinueDirtyClose(closed, pending)
             X       == {pending.tab}
             W       == {pending.path}
  <1>1. NoGen \in GenRef BY DEF GenRef
  <1>2. Good(saved) BY <1>1, SaveToPathGood
  <1>3. success => Keeps(s, saved) BY <1>1, SaveToPathKeeps
  <1>4. Reaches(s, saved, X, W, Big)
    <2>1. \A b : SaveBounds(s, SaveToPath(s, pending.tab, pending.path, b,
                                          NoGen, io),
                            pending.tab, pending.path, b, io, Big)
      BY <1>1, SaveToPathReaches
    <2> QED BY <2>1 DEF SaveBounds
  <1> HIDE DEF saved, success
  <1>5. Good(closed) /\ Keeps(saved, closed) BY <1>2, NoExternalGood
  <1>6. Reaches(saved, closed, X, W, Big) BY <1>2, CardsReach DEF Good
  <1> HIDE DEF closed
  <1>7. Reaches(s, closed, X, W, Big) BY <1>4, <1>6, ReachesThrough
  <1>8. success => Reaches(s, n, X, W, Big)
    <2> HAVE success
    <2>1. DocRoom(saved) /\ GenRoom(saved) BY <1>3, KeepsRoom
    <2>2. DocRoom(closed) /\ GenRoom(closed) BY <1>5, <2>1, KeepsRoom
    <2>3. Reaches(closed, n, X, W, Big)
      BY <1>5, <2>2, ContinueDirtyCloseReaches
    <2> QED BY <1>7, <2>3, ReachesThrough
  <1> QED BY <1>4, <1>8 DEF n, closed, saved, success, Overwrite

\* What a reload fills: the document that is shown for the card's tab.
LEMMA ReloadedReaches ==
  ASSUME NEW s, Good(s), NEW pending,
         pending.path \in Paths, pending.tab \in DOMAIN s.tab,
         s.disk[pending.path].exists,
         NEW X, pending.tab \in X, ShowTab(s, pending.tab).editing \in X,
         NEW W, NEW Big, s.disk[pending.path].text \notin Big
  PROVE  Reaches(s, Reloaded(s, pending), X, W, Big)
  <1> DEFINE file   == s.disk[pending.path]
             shown  == ShowTab(s, pending.tab)
             buffer == LoadInitialBuffer(shown, file.text)
             tabN   == [s.tab EXCEPT ![pending.tab].stamp = file.stamp]
             n      == [buffer EXCEPT !.tab      = tabN,
                                      !.external = NoExternal]
  <1>1. file \in File BY DEF Good, IsState, States, Disk, Absent
  <1>2. file.text \in Texts /\ file.stamp \in Stamps /\ file.text \notin Big
    BY <1>1 DEF File
  <1>3. file.stamp # NoStamp BY <1>2, FileConstants DEF Stamps, NoStamp
  <1> HIDE DEF file
  <1>4. Good(shown) BY ShowTabGood
  <1>5. OnlyShown(s, shown) BY ShowTabShows DEF Good
  <1>6. Reaches(s, shown, X, W, Big) BY <1>5, ShownReaches
  <1> HIDE DEF shown
  <1>7. /\ Reaches(shown, buffer, {shown.editing}, W, Big)
        /\ buffer.tab = s.tab
    BY <1>2, <1>4, <1>5, LoadInitialBufferReaches DEF Good, OnlyShown
  <1>8. Good(buffer) BY <1>2, <1>4, LoadInitialBufferGood
  <1>9. shown.editing \in X BY DEF shown
  <1> HIDE DEF buffer
  <1>10. Reaches(shown, buffer, X, W, Big) BY <1>7, <1>9, ReachesMore
  <1>11. Reaches(s, buffer, X, W, Big) BY <1>6, <1>10, ReachesThrough
  <1>12. /\ DOMAIN tabN = DOMAIN s.tab
         /\ \A t \in DOMAIN s.tab : /\ tabN[t].path = s.tab[t].path
                                    /\ tabN[t].stamp \in {s.tab[t].stamp, file.stamp}
    BY DEF Good, IsState, States, Tab
  <1> HIDE DEF tabN
  <1>13. /\ n.docs = buffer.docs /\ n.tab = tabN /\ n.disk = buffer.disk
         /\ n.dialogs = buffer.dialogs /\ n.spell = buffer.spell
         /\ n.prompt = buffer.prompt
    BY <1>8 DEF Good, IsState, States
  <1>14. Reloaded(s, pending) = n
    <2>1. [buffer EXCEPT !.tab[pending.tab].stamp = file.stamp,
                         !.external               = NoExternal] = n
      BY <1>7, <1>8 DEF tabN, Good, IsState, States
    <2> QED BY <2>1 DEF Reloaded, buffer, shown, file
  <1> HIDE DEF n
  <1>15. Reaches(buffer, n, X, W, Big)
    BY <1>3, <1>7, <1>12, <1>13 DEF Reaches, Carried, Stamped, Named
  <1>16. Reaches(s, n, X, W, Big) BY <1>11, <1>15, ReachesThrough
  <1> QED BY <1>14, <1>16

\* Reload on the conflict card.
LEMMA ReloadReaches ==
  ASSUME NEW s, Good(s), DocRoom(s), GenRoom(s), NEW pending,
         pending.path \in Paths, pending.tab \in DOMAIN s.tab, NEW io,
         NEW X, pending.tab \in X, ShowTab(s, pending.tab).editing \in X,
         NEW W, NEW Big \in SUBSET OverHard, Empty \notin Big
  PROVE  Reaches(s, Reload(s, pending, io), X, W, Big)
  <1>1. CASE ReadStatus(s.disk, pending.path, "hard", io) = "success"
    <2> DEFINE m == Reloaded(s, pending)
               n == ContinueDirtyClose(m, pending)
    <2>1. s.disk[pending.path].exists /\ s.disk[pending.path].text \notin Big
      BY <1>1, ReadIsBounded
    <2>2. Good(m) /\ DocRoom(m) /\ GenRoom(m) BY <2>1, ReloadedGood
    <2>3. Reaches(s, m, X, W, Big) BY <2>1, ReloadedReaches
    <2> HIDE DEF m
    <2>4. Reaches(m, n, X, W, Big) BY <2>2, ContinueDirtyCloseReaches
    <2> HIDE DEF n
    <2>5. Reaches(s, n, X, W, Big) BY <2>3, <2>4, ReachesThrough
    <2> QED BY <1>1, <2>5 DEF n, m, Reload, Reloaded
  <1>2. CASE ReadStatus(s.disk, pending.path, "hard", io) # "success"
    BY <1>2, SameReaches DEF Reload
  <1> QED BY <1>1, <1>2

\* An answer to the conflict card is about its tab and its file.
LEMMA ChooseExternalChangeReaches ==
  ASSUME NEW s, Good(s), DocRoom(s), GenRoom(s), StampRoom(s),
         NEW choice \in {"cancel", "saveAs", "overwrite", "reload"}, NEW io,
         NEW X, s.external.tab \in X,
         ShowTab(s, s.external.tab).editing \in X,
         NEW Big \in SUBSET OverHard, Empty \notin Big
  PROVE  Reaches(s, ChooseExternalChange(s, choice, io), X, {s.external.path}, Big)
  <1> DEFINE pending == s.external
             W       == {s.external.path}
             closed  == [s EXCEPT !.external = NoExternal]
             slotN   == [tab |-> pending.tab, gen |-> NoGen]
             slotted == [closed EXCEPT !.slot = slotN]
             manual  == Queue(slotted, "ShowSaveAs")
             notify  == NotifySaveIncomplete(closed)
             await   == AwaitSaveAs(closed)
             n       == ChooseExternalChange(s, choice, io)
  <1>1. Good(closed) /\ closed.prompt = s.prompt BY NoExternalGood
  <1>2. Reaches(s, closed, X, W, Big) BY CardsReach DEF Good
  <1>3. Reaches(s, s, X, W, Big) BY SameReaches
  <1>4. pending.tab \in TabRef
    BY DEF Good, IsState, States, ExternalChange
  <1>5. slotN \in SaveAsIntent BY <1>4 DEF SaveAsIntent, GenRef
  <1>6. CASE \/ pending = NoExternal \/ ~ HasTab(s, pending.tab)
             \/ s.tab[pending.tab].path # pending.path
    <2>1. n \in {s, closed} BY <1>6 DEF ChooseExternalChange
    <2> QED BY <1>2, <1>3, <2>1
  <1>7. CASE /\ pending # NoExternal /\ HasTab(s, pending.tab)
             /\ s.tab[pending.tab].path = pending.path
    <2>1. pending.path \in Paths /\ pending.tab \in DOMAIN s.tab
      BY <1>7 DEF Good, Pending, HasTab
    <2>2. \/ n \in {closed, manual, Overwrite(s, pending, io),
                    Reload(s, pending, io)}
          \/ InitiatingPrompt(s, pending) /\ n \in {notify, await}
      BY <1>7 DEF ChooseExternalChange
    <2> HIDE DEF closed, slotN, n
    <2>3. Reaches(closed, notify, X, W, Big) BY <1>1, NotifySaveIncompleteReaches
    <2>4. InitiatingPrompt(s, pending) => Reaches(closed, await, X, W, Big)
      BY <1>1, AwaitSaveAsReaches DEF InitiatingPrompt
    <2>5. Reaches(closed, slotted, X, W, Big) BY <1>1, CardsReach DEF Good
    <2>6. IsState(slotted) BY <1>1, <1>5 DEF Good, IsState, States
    <2> HIDE DEF slotted, notify, await
    <2>7. Reaches(slotted, manual, X, W, Big) BY <2>6, QueueReaches
    <2> HIDE DEF manual
    <2>8. Reaches(s, slotted, X, W, Big) BY <1>2, <2>5, ReachesThrough
    <2>9. Reaches(s, manual, X, W, Big) BY <2>7, <2>8, ReachesThrough
    <2>10. Reaches(s, notify, X, W, Big) BY <1>2, <2>3, ReachesThrough
    <2>11. InitiatingPrompt(s, pending) => Reaches(s, await, X, W, Big)
      BY <1>2, <2>4, ReachesThrough
    <2>12. Reaches(s, Overwrite(s, pending, io), X, W, Big)
      <3>1. Reaches(s, Overwrite(s, pending, io), {pending.tab},
                    {pending.path}, Big)
        BY <2>1, OverwriteReaches
      <3> QED BY <3>1, ReachesMore
    <2>13. Reaches(s, Reload(s, pending, io), X, W, Big)
      BY <2>1, ReloadReaches
    <2> QED BY <1>2, <2>2, <2>9, <2>10, <2>11, <2>12, <2>13 DEF n
  <1> QED BY <1>6, <1>7

\* The editor shows the tab of the card.
LEMMA ShownIsEdited ==
  ASSUME NEW s, IsState(s), s.spell = "closed", s.editing = s.active,
         NEW id \in DOMAIN s.tab, DOMAIN s.tab = DOMAIN s.docs
  PROVE  ShowTab(s, id).editing = id
  <1>1. Activate(s, id).editing = id BY ActivateShows
  <1> QED BY <1>1 DEF ShowTab, HasTab
-----------------------------------------------------------------------------
(* Edits *)

\* An edit, an undo or a paste that arrives leaves the other documents alone,
\* and brings in nothing but what is typed.
EditBounds(s, n, W, Big) ==
  /\ Reaches(s, n, {s.editing}, W, Big)
  /\ n.tab = s.tab /\ n.prompt = s.prompt /\ n.opening = s.opening
  /\ n.editing = s.editing /\ ~ n.paste
  /\ DOMAIN n.docs = DOMAIN s.docs
  /\ s.editing \in DOMAIN s.docs =>
       \/ ~ n.docs[s.editing].clean
       \/ n.docs[s.editing].text = s.docs[s.editing].saved

LEMMA EditTextReaches ==
  ASSUME NEW s, Good(s), NEW text, NEW W, NEW Big, text \notin Big
  PROVE  EditBounds(s, EditText(s, text), W, Big)
  <1> DEFINE docsN == [s.docs EXCEPT ![s.editing].text  = text,
                                     ![s.editing].clean = FALSE]
             n == EditText(s, text)
  <1>1. n = WithBuffers(s, docsN, FALSE)
    <2>1. "docs" \in DOMAIN s BY DEF Good, IsState, States
    <2> QED BY <2>1 DEF EditText, WithBuffers
  <1>2. /\ DOMAIN docsN = DOMAIN s.docs
        /\ \A id \in DOMAIN s.docs \ {s.editing} : docsN[id] = s.docs[id]
    OBVIOUS
  <1>3. s.editing \in DOMAIN s.docs =>
          /\ docsN[s.editing].text = text
          /\ docsN[s.editing].saved = s.docs[s.editing].saved
          /\ docsN[s.editing].clean = FALSE
    <2>1. s.docs \in [DOMAIN s.docs -> Document] BY DEF Good, IsState, States
    <2> QED BY <2>1 DEF Document
  <1> HIDE DEF docsN, n
  <1>4. BringsNothing(s, docsN, Big) BY <1>3 DEF BringsNothing
  <1>5. \A b : LET k == WithBuffers(s, docsN, b)
               IN  /\ Reaches(s, k, {s.editing}, W, Big)
                   /\ k.docs = docsN /\ k.prompt = s.prompt
                   /\ k.opening = s.opening /\ k.tab = s.tab
                   /\ k.paste = b /\ k.editing = s.editing
    <2>1. IsState(s) BY DEF Good
    <2> QED BY <1>2, <1>4, <2>1, BufferReaches
  <1>6. /\ Reaches(s, n, {s.editing}, W, Big)
        /\ n.docs = docsN /\ n.prompt = s.prompt /\ n.opening = s.opening
        /\ n.tab = s.tab /\ n.paste = FALSE /\ n.editing = s.editing
    BY <1>1, <1>5
  <1>7. EditBounds(s, n, W, Big) BY <1>2, <1>3, <1>6 DEF EditBounds
  <1> QED BY <1>7 DEF n

LEMMA UndoToSavePointReaches ==
  ASSUME NEW s, Good(s), NEW W, NEW Big
  PROVE  EditBounds(s, UndoToSavePoint(s), W, Big)
  <1> DEFINE to    == AtSavePoint(s.docs[s.editing].saved)
             docsN == [s.docs EXCEPT ![s.editing] = to]
             n == UndoToSavePoint(s)
  <1>1. n = WithBuffers(s, docsN, FALSE) BY DEF UndoToSavePoint, WithBuffers
  <1>2. /\ DOMAIN docsN = DOMAIN s.docs
        /\ \A id \in DOMAIN s.docs \ {s.editing} : docsN[id] = s.docs[id]
        /\ s.editing \in DOMAIN s.docs => docsN[s.editing] = to
    OBVIOUS
  <1>3. to.text = s.docs[s.editing].saved /\ to.saved = s.docs[s.editing].saved
    BY DEF AtSavePoint
  <1> HIDE DEF docsN, n, to
  <1>4. BringsNothing(s, docsN, Big) BY <1>2, <1>3 DEF BringsNothing
  <1>5. \A b : LET k == WithBuffers(s, docsN, b)
               IN  /\ Reaches(s, k, {s.editing}, W, Big)
                   /\ k.docs = docsN /\ k.prompt = s.prompt
                   /\ k.opening = s.opening /\ k.tab = s.tab
                   /\ k.paste = b /\ k.editing = s.editing
    <2>1. IsState(s) BY DEF Good
    <2> QED BY <1>2, <1>4, <2>1, BufferReaches
  <1>6. /\ Reaches(s, n, {s.editing}, W, Big)
        /\ n.docs = docsN /\ n.prompt = s.prompt /\ n.opening = s.opening
        /\ n.tab = s.tab /\ n.paste = FALSE /\ n.editing = s.editing
    BY <1>1, <1>5
  <1>7. EditBounds(s, n, W, Big) BY <1>2, <1>3, <1>6 DEF EditBounds
  <1> QED BY <1>7 DEF n
-----------------------------------------------------------------------------
(* File dialogs *)

\* Of the documents, the tabs and the files only X and W change.
Spares(s, n, X, W, Big) ==
  /\ \A p \in Paths \ W : n.disk[p] = s.disk[p]
  /\ \A id \in DOMAIN s.docs \ X :
       id \in DOMAIN n.docs /\ n.docs[id] = s.docs[id]
  /\ DOMAIN s.tab \ X \subseteq DOMAIN n.tab
  /\ Carried(s, n, Big)

\* The two facts about stamps and prompts are kept.
Steady(s, n) == (Stamped(s) => Stamped(n)) /\ (Named(s) => Named(n))

LEMMA ReachesSpares ==
  ASSUME NEW s, NEW n, NEW X, NEW W, NEW Big, Reaches(s, n, X, W, Big)
  PROVE  Spares(s, n, X, W, Big) /\ Steady(s, n) /\ n.spell = s.spell
  BY DEF Reaches, Spares, Steady

\* Nothing but a dialog, what waits for it and what is queued changes.
OnlyAsked(s, n) ==
  /\ n.docs = s.docs /\ n.tab = s.tab /\ n.disk = s.disk
  /\ n.spell = s.spell /\ n.editing = s.editing /\ n.paste = s.paste
  /\ n.opening = s.opening /\ n.external = s.external
  /\ n.prompt.kind = s.prompt.kind
  /\ s.prompt.awaiting \/ ~ n.prompt.awaiting
  /\ Named(s) => Named(n)

LEMMA AskedSpares ==
  ASSUME NEW s, NEW n, OnlyAsked(s, n), NEW X, NEW W, NEW Big
  PROVE  Spares(s, n, X, W, Big) /\ Steady(s, n) /\ Kept(s, n)
  BY DEF OnlyAsked, Spares, Steady, Stamped, Carried, Kept

\* A dialog begins, is abandoned, or is over.
LEMMA DialogOnlyAsked ==
  ASSUME NEW s, Good(s), NEW dialogsN, NEW slotN
  PROVE  /\ OnlyAsked(s, [s EXCEPT !.dialogs = dialogsN])
         /\ OnlyAsked(s, [s EXCEPT !.slot = slotN, !.dialogs = dialogsN])
         /\ OnlyAsked(s, [s EXCEPT !.requests = slotN])
  <1> DEFINE Same(n) == /\ n.docs = s.docs /\ n.tab = s.tab /\ n.disk = s.disk
                        /\ n.spell = s.spell /\ n.editing = s.editing
                        /\ n.paste = s.paste /\ n.opening = s.opening
                        /\ n.external = s.external /\ n.prompt = s.prompt
  <1>1. ASSUME NEW n, Same(n) PROVE OnlyAsked(s, n)
    BY <1>1 DEF OnlyAsked, Named
  <1>2. Same([s EXCEPT !.dialogs = dialogsN]) BY DEF Good, IsState, States
  <1>3. Same([s EXCEPT !.slot = slotN, !.dialogs = dialogsN])
    BY DEF Good, IsState, States
  <1>4. Same([s EXCEPT !.requests = slotN]) BY DEF Good, IsState, States
  <1> HIDE DEF Same
  <1> QED BY <1>1, <1>2, <1>3, <1>4

LEMMA OnlyAskedThrough ==
  ASSUME NEW s, NEW m, NEW n, OnlyAsked(s, m), OnlyAsked(m, n)
  PROVE  OnlyAsked(s, n)
  BY DEF OnlyAsked

LEMMA BeginDialogAsks ==
  ASSUME NEW s, Good(s)
  PROVE  OnlyAsked(s, BeginOpenDialog(s)) /\ OnlyAsked(s, BeginSaveAsDialog(s))
  <1> DEFINE d == [id |-> FreshDialog(s), kind |-> "open",
                   tab |-> NoDoc, gen |-> NoGen]
             e == [id |-> FreshDialog(s), kind |-> "saveAs",
                   tab |-> IF s.slot.tab # NoDoc THEN s.slot.tab ELSE s.active,
                   gen |-> s.slot.gen]
             f == s.dialogs \cup {d}
             g == s.dialogs \cup {e}
  <1>1. /\ BeginOpenDialog(s) = [s EXCEPT !.dialogs = f]
        /\ BeginSaveAsDialog(s) = [s EXCEPT !.slot = NoSlot, !.dialogs = g]
    BY DEF BeginOpenDialog, BeginSaveAsDialog, Good, IsState, States
  <1> HIDE DEF f, g
  <1>2. OnlyAsked(s, [s EXCEPT !.dialogs = f]) BY DialogOnlyAsked
  <1>3. \A v : OnlyAsked(s, [s EXCEPT !.slot = v, !.dialogs = g])
    BY DialogOnlyAsked
  <1>4. OnlyAsked(s, [s EXCEPT !.slot = NoSlot, !.dialogs = g]) BY <1>3
  <1> QED BY <1>1, <1>2, <1>4

LEMMA AbandonDialogAsks ==
  ASSUME NEW s, Good(s), NEW dialog
  PROVE  OnlyAsked(s, AbandonDialog(s, dialog))
  <1> DEFINE left == s.dialogs \ {dialog}
             gone == [s EXCEPT !.dialogs = left]
             n    == NotifySaveIncomplete(gone)
  <1>1. OnlyAsked(s, gone) BY DialogOnlyAsked
  <1>2. Good(gone) BY DialogGone
  <1>3. AbandonDialog(s, dialog) \in {gone, n} BY DEF AbandonDialog
  <1> HIDE DEF gone
  <1>4. OnlyAsked(gone, n)
    <2>1. /\ Reaches(gone, n, {}, {}, {})
          /\ n.prompt.kind = gone.prompt.kind /\ ~ n.prompt.awaiting
      BY <1>2, NotifySaveIncompleteReaches
    <2>2. /\ n.docs = gone.docs /\ n.tab = gone.tab /\ n.disk = gone.disk
          /\ n.spell = gone.spell /\ n.editing = gone.editing
          /\ n.paste = gone.paste /\ n.opening = gone.opening
          /\ n.external = gone.external
      BY <1>2 DEF NotifySaveIncomplete, Good, IsState, States
    <2> QED BY <2>1, <2>2 DEF OnlyAsked, Reaches
  <1> HIDE DEF n
  <1> QED BY <1>1, <1>3, <1>4, OnlyAskedThrough

\* The document's text is what the file at the path became.
Saves(s, n, id, path) ==
  /\ id \in DOMAIN s.tab
  /\ n.disk[path].exists /\ n.disk[path].text = s.docs[id].text
  /\ n.disk[path] # s.disk[path]

LEMMA WrittenSaves ==
  ASSUME NEW s, StampRoom(s), NEW n, NEW id, NEW path \in Paths,
         Written(s, n, id, path)
  PROVE  Saves(s, n, id, path)
  <1>1. FreshStamp(s) \notin LiveStamps(s) BY FreshIdentity
  <1>2. s.disk[path].exists => s.disk[path].stamp \in LiveStamps(s)
    BY DEF LiveStamps, DiskStamps
  <1>3. /\ n.disk[path].exists /\ n.disk[path].text = s.docs[id].text
        /\ n.disk[path].stamp = FreshStamp(s)
    BY DEF Written, FileOf
  <1>4. n.disk[path] # s.disk[path] BY <1>1, <1>2, <1>3
  <1> QED BY <1>3, <1>4 DEF Written, Saves

\* Where the tab is bound to the path, the tab knows the file there.
Knows(s, id, path) ==
  s.tab[id].path = path =>
    s.disk[path].exists /\ s.disk[path].stamp = s.tab[id].stamp

\* What the answer of a dialog does.
DialogBounds(s, n, d, Big) ==
  /\ n.dialogs = s.dialogs \ {d} /\ n.spell = s.spell
  /\ Steady(s, n)
  /\ \/ Spares(s, n, {}, {}, Big)
     \/ \E path \in Paths :
          /\ d.kind = "saveAs"
          /\ Spares(s, n, {d.tab}, {path}, Big)
          /\ Saves(s, n, d.tab, path)
          /\ Stamped(s) => Knows(s, d.tab, path)
  /\ d.tab \in DOMAIN s.tab \ DOMAIN n.tab =>
       Continues(s, d.tab, d.gen) /\ s.prompt.kind # "window"
  /\ ~ s.prompt.awaiting =>
       /\ ~ n.prompt.awaiting
       /\ s.spell = "review" => Kept(s, n)
  /\ s.prompt.kind = "window" /\ s.external = NoExternal =>
       n.prompt.kind = "window" \/ "AcceptClose" \in ToSet(n.requests)

\* The bounds hold also when only the dialog was taken away before.
LEMMA DialogBoundsThrough ==
  ASSUME NEW s, NEW m, NEW n, NEW d, NEW Big,
         OnlyAsked(s, m), m.prompt = s.prompt, m.gen = s.gen,
         n.dialogs = s.dialogs \ {d}, n.spell = m.spell, Steady(m, n),
         \/ Spares(m, n, {}, {}, Big)
         \/ \E path \in Paths :
              /\ d.kind = "saveAs"
              /\ Spares(m, n, {d.tab}, {path}, Big)
              /\ Saves(m, n, d.tab, path)
              /\ Stamped(m) => Knows(m, d.tab, path),
         d.tab \in DOMAIN m.tab \ DOMAIN n.tab =>
           Continues(m, d.tab, d.gen) /\ m.prompt.kind # "window",
         ~ m.prompt.awaiting =>
           /\ ~ n.prompt.awaiting
           /\ m.spell = "review" => Kept(m, n),
         m.prompt.kind = "window" /\ m.external = NoExternal =>
           n.prompt.kind = "window" \/ "AcceptClose" \in ToSet(n.requests)
  PROVE  DialogBounds(s, n, d, Big)
  <1>1. /\ m.docs = s.docs /\ m.tab = s.tab /\ m.disk = s.disk
        /\ m.spell = s.spell /\ m.external = s.external
        /\ m.editing = s.editing /\ m.paste = s.paste
        /\ m.opening = s.opening
    BY DEF OnlyAsked
  <1>2. \A X, W : Spares(m, n, X, W, Big) => Spares(s, n, X, W, Big)
    BY <1>1 DEF Spares, Carried
  <1>3. \A path : /\ Saves(m, n, d.tab, path) => Saves(s, n, d.tab, path)
                  /\ Knows(m, d.tab, path) => Knows(s, d.tab, path)
    BY <1>1 DEF Saves, Knows
  <1>4. Stamped(m) <=> Stamped(s) BY <1>1 DEF Stamped
  <1>5. Named(m) <=> Named(s) BY DEF Named
  <1>6. Kept(m, n) => Kept(s, n) BY <1>1 DEF Kept
  <1>7. Continues(m, d.tab, d.gen) => Continues(s, d.tab, d.gen)
    BY DEF Continues
  <1>8. \/ Spares(s, n, {}, {}, Big)
        \/ \E path \in Paths :
             /\ d.kind = "saveAs"
             /\ Spares(s, n, {d.tab}, {path}, Big)
             /\ Saves(s, n, d.tab, path)
             /\ Stamped(s) => Knows(s, d.tab, path)
    BY <1>2, <1>3, <1>4
  <1>9. Steady(s, n) BY <1>4, <1>5 DEF Steady
  <1> QED BY <1>1, <1>6, <1>7, <1>8, <1>9 DEF DialogBounds

\* HandleDialogResult keeps within that.
LEMMA HandleDialogResultBounds ==
  ASSUME NEW s, Good(s), DocRoom(s), GenRoom(s), StampRoom(s),
         NEW d \in s.dialogs, NEW accepted \in BOOLEAN,
         NEW names \in Seq(Names), names # << >>, NEW io,
         NEW Big, Empty \notin Big
  PROVE  DialogBounds(s, HandleDialogResult(s, d, accepted, names, io), d, Big)
  <1> DEFINE left == s.dialogs \ {d}
             gone == [s EXCEPT !.dialogs = left]
             path == Normalize[Head(names)]
             done == ApplySaveResult(gone, d.tab, accepted, path, d.gen, io)
             list == ApplyOpenPaths(gone, names)
             n    == HandleDialogResult(s, d, accepted, names, io)
  <1>1. Good(gone) /\ Keeps(s, gone) /\ gone.prompt = s.prompt BY DialogGone
  <1>2. gone.disk = s.disk /\ gone.tab = s.tab BY DialogGone
  <1>3. d.gen \in GenRef BY DEF Good, IsState, States, Dialog
  <1>4. Head(names) \in Names BY HeadTailProperties
  <1>5. path \in Paths BY <1>4, WorkspaceConstants
  <1>6. OnlyAsked(s, gone) BY DialogOnlyAsked
  <1>7. gone.gen = s.gen /\ gone.dialogs = left BY DEF Good, IsState, States
  <1>8. \/ n \in {gone, list}
        \/ n = done /\ d.kind = "saveAs" /\ HasTab(gone, d.tab)
    <2>1. d.kind \in {"open", "saveAs"} BY DEF Good, IsState, States, Dialog
    <2> QED BY <2>1 DEF HandleDialogResult
  <1> HIDE DEF gone, path
  <1>9. DocRoom(gone) /\ GenRoom(gone) BY <1>1, KeepsRoom
  <1>10. StampRoom(gone) BY <1>2 DEF StampRoom, LiveStamps
  <1>11. /\ Reaches(gone, gone, {}, {}, Big)
         /\ Reaches(gone, list, {}, {}, Big) /\ list.prompt = gone.prompt
         /\ gone.spell = "review" => list = gone
    BY <1>1, SameReaches, ApplyOpenPathsReaches DEF Good
  <1>12. CASE n \in {gone, list}
    <2>1. /\ Reaches(gone, n, {}, {}, Big) /\ n.prompt = gone.prompt
          /\ gone.spell = "review" => n = gone
      BY <1>11, <1>12
    <2> HIDE DEF n
    <2>2. n.dialogs = s.dialogs \ {d} BY <1>7, <2>1 DEF left, Reaches
    <2>3. /\ Spares(gone, n, {}, {}, Big) /\ Steady(gone, n)
          /\ n.spell = gone.spell
      BY <2>1, ReachesSpares
    <2>4. d.tab \notin DOMAIN gone.tab \ DOMAIN n.tab BY <2>3 DEF Spares
    <2>5. gone.spell = "review" => Kept(gone, n) BY <2>1 DEF Kept
    <2>6. DialogBounds(s, n, d, Big)
      BY <1>1, <1>6, <1>7, <2>1, <2>2, <2>3, <2>4, <2>5, DialogBoundsThrough
    <2> QED BY <2>6 DEF n
  <1>13. CASE n = done /\ d.kind = "saveAs" /\ HasTab(gone, d.tab)
    <2>1. SaveAsBounds(gone, done, d.tab, path, d.gen, io, Big)
      BY <1>1, <1>3, <1>5, <1>9, <1>10, ApplySaveResultReaches
    <2> HIDE DEF done, n
    <2>2. Reaches(gone, done, {d.tab}, {path}, Big) BY <2>1 DEF SaveAsBounds
    <2>3. done.dialogs = s.dialogs \ {d} BY <1>7, <2>2 DEF left, Reaches
    <2>4. /\ Spares(gone, done, {d.tab}, {path}, Big) /\ Steady(gone, done)
          /\ done.spell = gone.spell
      BY <2>2, ReachesSpares
    <2>5. \/ Spares(gone, done, {}, {}, Big)
          \/ /\ Saves(gone, done, d.tab, path)
             /\ Stamped(gone) => Knows(gone, d.tab, path)
      <3>1. CASE Reaches(gone, done, {}, {}, Big) BY <3>1, ReachesSpares
      <3>2. CASE /\ SaveStatus(gone, d.tab, path, FALSE, io) = "success"
                 /\ Written(gone, done, d.tab, path)
        <4>1. Saves(gone, done, d.tab, path)
          BY <1>5, <1>10, <3>2, WrittenSaves
        <4>2. Stamped(gone) => Knows(gone, d.tab, path)
          <5> SUFFICES ASSUME Stamped(gone), gone.tab[d.tab].path = path
                       PROVE  /\ gone.disk[path].exists
                              /\ gone.disk[path].stamp = gone.tab[d.tab].stamp
            BY DEF Knows
          <5>1. gone.tab[d.tab].stamp # NoStamp
            BY <1>5, <1>13, WorkspaceConstants DEF Stamped, HasTab
          <5>2. WriteStatus(gone.disk, path, gone.tab[d.tab].stamp, io)
                  = "success"
            BY <1>13, <3>2 DEF SaveStatus
          <5> QED BY <5>1, <5>2 DEF WriteStatus, DestinationMatches
        <4> QED BY <4>1, <4>2
      <3> QED BY <2>1, <3>1, <3>2 DEF SaveAsBounds
    <2>6. \/ Spares(gone, done, {}, {}, Big)
          \/ \E p \in Paths :
               /\ d.kind = "saveAs"
               /\ Spares(gone, done, {d.tab}, {p}, Big)
               /\ Saves(gone, done, d.tab, p)
               /\ Stamped(gone) => Knows(gone, d.tab, p)
      BY <1>5, <1>13, <2>4, <2>5
    <2>7. DialogBounds(s, done, d, Big)
      BY <1>1, <1>6, <1>7, <2>1, <2>3, <2>4, <2>6, DialogBoundsThrough
      DEF SaveAsBounds
    <2> QED BY <1>13, <2>7 DEF n
  <1> QED BY <1>8, <1>12, <1>13
-----------------------------------------------------------------------------
(* The invariant of the actions *)

\* What the actions rely on, for any features. A review begins with no list
\* half opened and no paste pending, and nothing awaits a Save As under it.
StepInv ==
  /\ IndInv
  /\ Stamped(S) /\ Named(S)
  /\ turn = "start" =>
       spell = "closed" /\ \A id \in DOMAIN docs : docs[id].clean
  /\ spell = "review" => opening = NoOpening /\ ~ paste
  /\ spell # "closed" => ~ prompt.awaiting

\* Contents that no edit brings in: Warn is over the threshold, and of it Hard
\* is over the limit.
Sizes(Warn, Hard) ==
  /\ Warn \in SUBSET OverWarning /\ Hard \in SUBSET (OverHard \cap Warn)
  /\ Empty \notin Warn /\ Typed \cap Warn = {}

\* The step's bound, for what the cards on screen let it do.
Account(Warn, Hard) ==
  \/ Spares(S, S', {}, {}, Warn)
  \/ /\ Spares(S, S', {editing}, {}, Warn)
     /\ DOMAIN tab \subseteq DOMAIN tab' /\ DOMAIN docs' = DOMAIN docs
     /\ editing \in DOMAIN docs =>
          \/ ~ docs'[editing].clean
          \/ docs'[editing].text = docs[editing].saved
     /\ turn = "inputs" => Card # "external"
  \/ /\ turn = "inputs" /\ Card # "external"
     /\ \E id \in DOMAIN docs :
          docs[id].clean /\ Spares(S, S', {id}, {}, Warn)
  \/ /\ turn = "inputs" /\ Card # "external"
     /\ \E id \in DOMAIN tab, path \in Paths :
          /\ tab[id].path = path
          /\ disk[path].exists /\ disk[path].stamp = tab[id].stamp
          /\ Spares(S, S', {id}, {path}, Warn) /\ Saves(S, S', id, path)
  \/ /\ turn = "inputs" /\ Card = "unsaved"
     /\ Spares(S, S', {prompt.tab}, {}, Warn)
  \/ /\ turn = "inputs" /\ Card = "large"
     /\ Spares(S, S', {}, {}, Hard)
  \/ /\ turn = "inputs" /\ Card = "external"
     /\ Spares(S, S', {external.tab, ShowTab(S, external.tab).editing},
               {external.path}, Hard)
  \/ /\ turn = "results"
     /\ \E d \in dialogs : DialogBounds(S, S', d, Warn)
  \/ OtherProgram /\ docs' = docs /\ tab' = tab
  \/ /\ turn = "start" /\ disk' = disk
     /\ \A id \in DOMAIN docs : docs[id].clean
     /\ \A id \in DOMAIN docs' :
          docs'[id].text \notin OverHard /\ docs'[id].saved \notin OverHard

\* What is shown of every action.
Accounted(Warn, Hard) ==
  /\ StepInv' /\ Account(Warn, Hard) /\ LeavesTheReviewed
  /\ external = NoExternal => GoesOnWalking

LEMMA InState ==
  /\ S.docs = docs /\ S.tab = tab /\ S.disk = disk /\ S.dialogs = dialogs
  /\ S.spell = spell /\ S.prompt = prompt /\ S.external = external
  /\ S.editing = editing /\ S.paste = paste /\ S.opening = opening
  /\ S.requests = requests /\ S.large = large /\ S.active = active
  /\ S.gen = gen
  BY DEF S

\* A bound on what a handler returns is a bound on the step that becomes it.
LEMMA BecomeBounds ==
  ASSUME NEW n, Become(n)
  PROVE  /\ \A X, W, Big : Spares(S, n, X, W, Big) => Spares(S, S', X, W, Big)
         /\ Steady(S, n) => Steady(S, S')
         /\ \A id, path : Saves(S, n, id, path) => Saves(S, S', id, path)
         /\ \A d, Big : DialogBounds(S, n, d, Big) => DialogBounds(S, S', d, Big)
         /\ Kept(S, n) => Kept(S, S')
  <1>1. /\ S'.docs = n.docs /\ S'.tab = n.tab /\ S'.disk = n.disk
        /\ S'.dialogs = n.dialogs /\ S'.spell = n.spell
        /\ S'.prompt = n.prompt /\ S'.editing = n.editing
        /\ S'.paste = n.paste /\ S'.opening = n.opening
        /\ S'.requests = n.requests
    BY DEF Become, S
  <1>2. \A X, W, Big : Spares(S, n, X, W, Big) => Spares(S, S', X, W, Big)
    BY <1>1 DEF Spares, Carried
  <1>3. Steady(S, n) => Steady(S, S') BY <1>1 DEF Steady, Stamped, Named
  <1>4. \A id, path : Saves(S, n, id, path) => Saves(S, S', id, path)
    BY <1>1 DEF Saves
  <1>5. Kept(S, n) => Kept(S, S') BY <1>1 DEF Kept
  <1>6. ASSUME NEW d, NEW Big, DialogBounds(S, n, d, Big)
        PROVE  DialogBounds(S, S', d, Big)
    <2>1. /\ S'.dialogs = S.dialogs \ {d} /\ S'.spell = S.spell
          /\ Steady(S, S')
      BY <1>1, <1>3, <1>6 DEF DialogBounds
    <2>2. \/ Spares(S, S', {}, {}, Big)
          \/ \E path \in Paths :
               /\ d.kind = "saveAs"
               /\ Spares(S, S', {d.tab}, {path}, Big)
               /\ Saves(S, S', d.tab, path)
               /\ Stamped(S) => Knows(S, d.tab, path)
      BY <1>2, <1>4, <1>6 DEF DialogBounds
    <2>3. /\ d.tab \in DOMAIN S.tab \ DOMAIN S'.tab =>
               Continues(S, d.tab, d.gen) /\ S.prompt.kind # "window"
          /\ S.prompt.kind = "window" /\ S.external = NoExternal =>
               \/ S'.prompt.kind = "window"
               \/ "AcceptClose" \in ToSet(S'.requests)
      BY <1>1, <1>6 DEF DialogBounds
    <2>4. ~ S.prompt.awaiting =>
            /\ ~ S'.prompt.awaiting
            /\ S.spell = "review" => Kept(S, S')
      BY <1>1, <1>5, <1>6 DEF DialogBounds
    <2> QED BY <2>1, <2>2, <2>3, <2>4 DEF DialogBounds
  <1> QED BY <1>2, <1>3, <1>4, <1>5, <1>6

\* A step after startup keeps the invariant when it is steady and what it
\* leaves on screen does.
LEMMA SteadyStep ==
  ASSUME StepInv, IndInv', turn # "start", turn' # "start",
         NEW n, Become(n), Steady(S, n),
         n.spell = "review" => n.opening = NoOpening /\ ~ n.paste,
         n.spell # "closed" => ~ n.prompt.awaiting
  PROVE  StepInv'
  <1>1. Stamped(S)' /\ Named(S)'
    BY BecomeBounds DEF Steady, StepInv
  <1> QED BY <1>1 DEF StepInv, Become

\* With no spelling card a handler's bound is enough.
LEMMA ReachingStep ==
  ASSUME StepInv, IndInv', turn # "start", turn' # "start",
         spell = "closed", NEW n, Become(n), NEW X, NEW W, NEW Big,
         Reaches(S, n, X, W, Big)
  PROVE  StepInv' /\ Spares(S, S', X, W, Big) /\ LeavesTheReviewed
  <1>1. Spares(S, n, X, W, Big) /\ Steady(S, n) /\ n.spell = "closed"
    BY InState, ReachesSpares
  <1>2. StepInv' BY <1>1, SteadyStep
  <1>3. Spares(S, S', X, W, Big) BY <1>1, BecomeBounds
  <1> QED BY <1>2, <1>3 DEF LeavesTheReviewed

\* A step of the loop alone.
LEMMA IdleStep ==
  ASSUME StepInv, IndInv', turn' # "start" \/ turn = "start",
         UNCHANGED <<editorVars, disk, workspaceVars>>, NEW Warn, NEW Hard
  PROVE  Accounted(Warn, Hard)
  <1>1. /\ docs' = docs /\ editing' = editing /\ paste' = paste
        /\ spell' = spell /\ disk' = disk /\ tab' = tab /\ prompt' = prompt
        /\ opening' = opening /\ S' = S
    BY DEF editorVars, workspaceVars, S
  <1>2. Spares(S, S', {}, {}, Warn) BY <1>1 DEF Spares, Carried
  <1>3. StepInv' BY <1>1 DEF StepInv
  <1>4. LeavesTheReviewed /\ GoesOnWalking
    BY <1>1 DEF LeavesTheReviewed, GoesOnWalking
  <1> QED BY <1>2, <1>3, <1>4 DEF Accounted, Account
\* What an input or a result finds.
LEMMA StepFinds ==
  ASSUME StepInv, Input \/ Result
  PROVE  /\ Good(S) /\ Stamped(S) /\ Named(S)
         /\ DocRoom(S) /\ GenRoom(S) /\ StampRoom(S)
         /\ turn # "start" /\ opening = NoOpening
         /\ Input => turn = "inputs"
         /\ Result => turn = "results"
  BY RoomParts DEF StepInv, IndInv, Input, Result, Ready, Between

\* What the topmost card tells.
LEMMA CardTells ==
  /\ Card = "spelling" <=> spell # "closed"
  /\ Card = "external" => external # NoExternal
  /\ Card = "large" => external = NoExternal /\ large # NoLarge
  /\ Card = "unsaved" => external = NoExternal /\ prompt # NoPrompt
  /\ Card = "none" => /\ external = NoExternal /\ large = NoLarge
                      /\ prompt = NoPrompt
  /\ Card \in {"spelling", "external", "large", "unsaved", "none"}
  BY DEF Card

LEMMA TurnStays ==
  ASSUME NEW n, NEW lost, Step(n, lost)
  PROVE  Become(n) /\ turn' = turn
  BY DEF Step

\* An input with no card on screen spares everything.
LEMMA PlainInput ==
  ASSUME StepInv, IndInv', Input, Card = "none", NEW n, Step(n, {}),
         NEW Warn, NEW Hard, Reaches(S, n, {}, {}, Warn)
  PROVE  Accounted(Warn, Hard)
  <1>1. turn # "start" BY StepFinds
  <1>2. spell = "closed" /\ prompt = NoPrompt BY CardTells
  <1>3. Become(n) /\ turn' = turn BY TurnStays
  <1>4. StepInv' /\ Spares(S, S', {}, {}, Warn) /\ LeavesTheReviewed
    BY <1>1, <1>2, <1>3, ReachingStep
  <1>5. GoesOnWalking BY <1>2 DEF GoesOnWalking, NoPrompt
  <1> QED BY <1>4, <1>5 DEF Accounted, Account

\* New Tab, a click on a tab, Next and Previous Tab.
LEMMA TabActionsAccounted ==
  ASSUME StepInv, IndInv', TabActions, NEW Warn, NEW Hard, Sizes(Warn, Hard)
  PROVE  Accounted(Warn, Hard)
  <1>1. Input /\ Card = "none" BY DEF TabActions
  <1>2. Good(S) /\ DocRoom(S) BY <1>1, StepFinds
  <1>3. Empty \notin Warn BY DEF Sizes
  <1>4. CASE Step(NewTab(S), {})
    BY <1>1, <1>2, <1>3, <1>4, NewTabReaches, PlainInput
  <1>5. ASSUME NEW id, Step(ActivateTab(S, id), {})
        PROVE  Accounted(Warn, Hard)
    BY <1>1, <1>2, <1>5, ActivateTabReaches, PlainInput
  <1>6. ASSUME NEW delta, Step(CycleTab(S, delta), {})
        PROVE  Accounted(Warn, Hard)
    BY <1>1, <1>2, <1>6, CycleTabReaches, PlainInput
  <1> QED BY <1>4, <1>5, <1>6 DEF TabActions

\* Ctrl+W and the close boxes close only what is saved.
LEMMA CloseAccounted ==
  ASSUME StepInv, IndInv', Close, NEW Warn, NEW Hard, Sizes(Warn, Hard)
  PROVE  Accounted(Warn, Hard)
  <1>1. Input /\ Card = "none" BY DEF Close
  <1>2. /\ Good(S) /\ DocRoom(S) /\ GenRoom(S)
        /\ turn # "start" /\ turn = "inputs"
    BY <1>1, StepFinds
  <1>3. Empty \notin Warn BY DEF Sizes
  <1>4. PICK id \in DOMAIN tab : Step(CloseTab(S, id), {}) BY DEF Close
  <1> DEFINE n == CloseTab(S, id)
  <1>5. /\ Reaches(S, n, {id}, {}, Warn)
        /\ Modified(S, id) => Reaches(S, n, {}, {}, Warn)
    BY <1>2, <1>3, CloseTabReaches
  <1>6. Become(n) /\ turn' = turn BY <1>4, TurnStays
  <1> HIDE DEF n
  <1>7. CASE Modified(S, id)
    BY <1>1, <1>4, <1>5, <1>7, PlainInput DEF n
  <1>8. CASE ~ Modified(S, id)
    <2>1. spell = "closed" /\ prompt = NoPrompt BY <1>1, CardTells
    <2>2. StepInv' /\ Spares(S, S', {id}, {}, Warn) /\ LeavesTheReviewed
      BY <1>2, <1>5, <1>6, <2>1, ReachingStep
    <2>3. GoesOnWalking BY <2>1 DEF GoesOnWalking, NoPrompt
    <2>4. id \in DOMAIN docs /\ docs[id].clean
      BY <1>2, <1>8, InState DEF Good, TabsHaveDocuments, Modified
    <2> QED BY <1>1, <1>2, <2>2, <2>3, <2>4 DEF Accounted, Account
  <1> QED BY <1>7, <1>8

\* Save replaces only the file its tab knows, and only with that tab's text.
LEMMA GuardedStep ==
  ASSUME StepInv, IndInv', Input, spell = "closed", Card # "external",
         NEW n, NEW lost, Step(n, lost), NEW id, NEW Warn, NEW Hard,
         \E path \in Paths : GuardedSave(S, n, id, path, Warn)
  PROVE  StepInv' /\ Account(Warn, Hard) /\ LeavesTheReviewed
  <1>1. turn # "start" /\ turn = "inputs" /\ StampRoom(S) BY StepFinds
  <1>2. Become(n) /\ turn' = turn BY TurnStays
  <1>3. PICK path \in Paths : GuardedSave(S, n, id, path, Warn) OBVIOUS
  <1>4. /\ id \in DOMAIN tab /\ tab[id].path = path
        /\ disk[path].exists /\ disk[path].stamp = tab[id].stamp
        /\ Reaches(S, n, {id}, {path}, Warn) /\ Written(S, n, id, path)
    BY <1>3, InState DEF GuardedSave
  <1>5. StepInv' /\ Spares(S, S', {id}, {path}, Warn) /\ LeavesTheReviewed
    BY <1>1, <1>2, <1>4, ReachingStep
  <1>6. Saves(S, S', id, path)
    BY <1>1, <1>2, <1>4, WrittenSaves, BecomeBounds
  <1> QED BY <1>1, <1>4, <1>5, <1>6 DEF Account

\* Open, Save As and Save.
LEMMA FileActionsAccounted ==
  ASSUME StepInv, IndInv', FileActions, NEW Warn, NEW Hard, Sizes(Warn, Hard)
  PROVE  Accounted(Warn, Hard)
  <1>1. Input /\ Card = "none" BY DEF FileActions
  <1>2. Good(S) /\ StampRoom(S) /\ Stamped(S) BY <1>1, StepFinds
  <1>3. CASE Step(RequestOpen(S), {}) \/ Step(RequestSaveAs(S), {})
    BY <1>1, <1>2, <1>3, RequestDialogReaches, PlainInput
  <1>4. ASSUME NEW io \in Faults, Step(RequestSave(S, io), {})
        PROVE  Accounted(Warn, Hard)
    <2> DEFINE n == RequestSave(S, io)
    <2>1. \/ Reaches(S, n, {}, {}, Warn)
          \/ \E path \in Paths : GuardedSave(S, n, S.active, path, Warn)
      BY <1>2, RequestSaveReaches
    <2>2. Step(n, {}) BY <1>4
    <2> HIDE DEF n
    <2>3. CASE Reaches(S, n, {}, {}, Warn) BY <1>1, <2>2, <2>3, PlainInput
    <2>4. CASE \E path \in Paths : GuardedSave(S, n, S.active, path, Warn)
      <3>1. spell = "closed" /\ prompt = NoPrompt BY <1>1, CardTells
      <3>2. StepInv' /\ Account(Warn, Hard) /\ LeavesTheReviewed
        BY <1>1, <2>2, <2>4, <3>1, GuardedStep
      <3>3. GoesOnWalking BY <3>1 DEF GoesOnWalking, NoPrompt
      <3> QED BY <3>2, <3>3 DEF Accounted
    <2> QED BY <2>1, <2>3, <2>4
  <1> QED BY <1>3, <1>4 DEF FileActions

\* A Recent entry.
LEMMA OpenRecentAccounted ==
  ASSUME StepInv, IndInv', OpenRecent, NEW Warn, NEW Hard
  PROVE  Accounted(Warn, Hard)
  <1>1. Input /\ Card = "none" BY DEF OpenRecent
  <1>2. IsState(S) BY <1>1, StepFinds DEF Good
  <1>3. PICK name \in Names : Step(ApplyOpenPaths(S, <<name>>), {})
    BY DEF OpenRecent
  <1> QED BY <1>1, <1>2, <1>3, ApplyOpenPathsReaches, PlainInput

\* Typing, undo, and a paste that arrives.
LEMMA EditStep ==
  ASSUME StepInv, IndInv', turn # "start", NEW n, Step(n, {}),
         NEW Warn, NEW Hard, EditBounds(S, n, {}, Warn),
         turn = "inputs" => Card # "external",
         spell = "review" => turn = "inputs"
  PROVE  Accounted(Warn, Hard)
  <1>1. Become(n) /\ turn' = turn BY TurnStays
  <1>2. /\ Reaches(S, n, {editing}, {}, Warn)
        /\ n.tab = tab /\ n.prompt = prompt /\ n.opening = opening
        /\ n.editing = editing /\ ~ n.paste /\ DOMAIN n.docs = DOMAIN docs
        /\ editing \in DOMAIN docs =>
             \/ ~ n.docs[editing].clean
             \/ n.docs[editing].text = docs[editing].saved
    BY InState DEF EditBounds
  <1>3. /\ Spares(S, n, {editing}, {}, Warn) /\ Steady(S, n)
        /\ n.spell = spell
    BY <1>2, ReachesSpares, InState
  <1>4. StepInv' BY <1>1, <1>2, <1>3, SteadyStep DEF StepInv
  <1>5. Spares(S, S', {editing}, {}, Warn) BY <1>1, <1>3, BecomeBounds
  <1>6. /\ tab' = tab /\ prompt' = prompt /\ editing' = editing
        /\ DOMAIN docs' = DOMAIN docs /\ docs' = n.docs
    BY <1>1, <1>2 DEF Become
  <1>7. Account(Warn, Hard) BY <1>2, <1>5, <1>6 DEF Account
  <1>8. \A id \in DOMAIN docs \ {editing} : docs'[id] = docs[id]
    BY <1>3, <1>6, InState DEF Spares
  <1>9. LeavesTheReviewed BY <1>6, <1>8 DEF LeavesTheReviewed
  <1> QED BY <1>4, <1>6, <1>7, <1>9 DEF Accounted, GoesOnWalking

LEMMA PlainInputAccounted ==
  ASSUME StepInv, IndInv', QuitAction \/ Edit \/ Undo \/ Paste,
         NEW Warn, NEW Hard, Sizes(Warn, Hard)
  PROVE  Accounted(Warn, Hard)
  <1>1. Input /\ Card = "none" BY DEF QuitAction, Edit, Undo, Paste
  <1>2. Good(S) /\ GenRoom(S) /\ turn # "start" BY <1>1, StepFinds
  <1>3. spell = "closed" BY <1>1, CardTells
  <1>4. CASE QuitAction
    <2>1. Reaches(S, RequestClose(S), {}, {}, Warn)
      BY <1>2, RequestCloseReaches
    <2> QED BY <1>1, <1>4, <2>1, PlainInput DEF QuitAction
  <1>5. CASE Edit
    <2>1. PICK text \in Typed : Step(EditText(S, text), {})
      BY <1>5 DEF Edit
    <2>2. text \notin Warn BY DEF Sizes
    <2>3. EditBounds(S, EditText(S, text), {}, Warn)
      BY <1>2, <2>2, EditTextReaches
    <2> QED BY <1>1, <1>2, <1>3, <2>1, <2>3, EditStep
  <1>6. CASE Undo
    <2>1. EditBounds(S, UndoToSavePoint(S), {}, Warn)
      BY <1>2, UndoToSavePointReaches
    <2> QED BY <1>1, <1>2, <1>3, <1>6, <2>1, EditStep DEF Undo
  <1>7. CASE Paste
    <2> DEFINE n == RequestClipboardPaste(S)
    <2>1. Reaches(S, n, {}, {}, Warn)
      <3>1. /\ n.docs = S.docs /\ n.tab = S.tab /\ n.disk = S.disk
            /\ n.dialogs = S.dialogs /\ n.spell = S.spell
            /\ n.prompt = S.prompt
        BY <1>2 DEF RequestClipboardPaste, Good, IsState, States
      <3> QED BY <3>1, SameReaches DEF Named
    <2>2. Step(n, {}) BY <1>7 DEF Paste
    <2> HIDE DEF n
    <2> QED BY <1>1, <2>1, <2>2, PlainInput
  <1> QED BY <1>4, <1>5, <1>6, <1>7

\* The clipboard answers; it does not during a review.
LEMMA PasteResultAccounted ==
  ASSUME StepInv, IndInv', PasteResult, NEW Warn, NEW Hard, Sizes(Warn, Hard)
  PROVE  Accounted(Warn, Hard)
  <1>1. Result /\ paste BY DEF PasteResult
  <1>2. Good(S) /\ turn = "results" BY <1>1, StepFinds
  <1>3. spell # "review" BY <1>1 DEF StepInv
  <1>4. PICK text \in Typed : Step(HandleClipboardResult(S, text), {})
    BY DEF PasteResult
  <1>5. HandleClipboardResult(S, text) = EditText(S, text)
    BY <1>1, InState DEF HandleClipboardResult
  <1>6. text \notin Warn BY DEF Sizes
  <1>7. EditBounds(S, EditText(S, text), {}, Warn)
    BY <1>2, <1>6, EditTextReaches
  <1> QED BY <1>2, <1>3, <1>4, <1>5, <1>7, EditStep

\* Answers to the dirty-close card.
LEMMA AnswerUnsavedAccounted ==
  ASSUME StepInv, IndInv', AnswerUnsaved, NEW Warn, NEW Hard,
         Sizes(Warn, Hard)
  PROVE  Accounted(Warn, Hard)
  <1>1. Input /\ Card = "unsaved" BY DEF AnswerUnsaved
  <1>2. /\ Good(S) /\ DocRoom(S) /\ GenRoom(S) /\ StampRoom(S) /\ Stamped(S)
        /\ turn # "start" /\ turn = "inputs"
    BY <1>1, StepFinds
  <1>3. spell = "closed" BY <1>1, CardTells
  <1>4. PICK choice, io, lost : /\ choice \in {"cancel", "discard", "save"}
                                /\ Step(Choose(S, choice, io), lost)
    BY DEF AnswerUnsaved
  <1> DEFINE n == Choose(S, choice, io)
  <1>5. Empty \notin Warn BY DEF Sizes
  <1>6. \/ Reaches(S, n, {prompt.tab}, {}, Warn)
        \/ \E path \in Paths : GuardedSave(S, n, prompt.tab, path, Warn)
    BY <1>2, <1>4, <1>5, ChooseReaches, InState
  <1>7. Step(n, lost) /\ Become(n) /\ turn' = turn BY <1>4, TurnStays
  <1> HIDE DEF n
  <1>8. StepInv' /\ Account(Warn, Hard) /\ LeavesTheReviewed
    <2>1. CASE Reaches(S, n, {prompt.tab}, {}, Warn)
      <3>1. /\ StepInv' /\ Spares(S, S', {prompt.tab}, {}, Warn)
            /\ LeavesTheReviewed
        BY <1>2, <1>3, <1>7, <2>1, ReachingStep
      <3> QED BY <1>1, <1>2, <3>1 DEF Account
    <2>2. CASE \E path \in Paths : GuardedSave(S, n, prompt.tab, path, Warn)
      BY <1>1, <1>3, <1>7, <2>2, GuardedStep
    <2> QED BY <1>6, <2>1, <2>2
  <1>9. GoesOnWalking BY <1>1, <1>2 DEF GoesOnWalking
  <1> QED BY <1>8, <1>9 DEF Accounted

\* Answers to the large-file card, which never covers a walk.
LEMMA AnswerLargeFileAccounted ==
  ASSUME StepInv, IndInv', AnswerLargeFile, NEW Warn, NEW Hard,
         Sizes(Warn, Hard)
  PROVE  Accounted(Warn, Hard)
  <1>1. Input /\ Card = "large" BY DEF AnswerLargeFile
  <1>2. /\ Good(S) /\ DocRoom(S) /\ turn # "start" /\ turn = "inputs"
    BY <1>1, StepFinds
  <1>3. spell = "closed" /\ large # NoLarge BY <1>1, CardTells
  <1>4. PICK choice, io : Step(ChooseLargeFile(S, choice, io), {})
    BY DEF AnswerLargeFile
  <1> DEFINE n == ChooseLargeFile(S, choice, io)
  <1>5. Hard \in SUBSET OverHard /\ Empty \notin Hard BY DEF Sizes
  <1>6. Reaches(S, n, {}, {}, Hard)
    BY <1>2, <1>3, <1>5, InState, ChooseLargeFileReaches
  <1>7. Become(n) /\ turn' = turn BY <1>4, TurnStays
  <1> HIDE DEF n
  <1>8. StepInv' /\ Spares(S, S', {}, {}, Hard) /\ LeavesTheReviewed
    BY <1>2, <1>3, <1>6, <1>7, ReachingStep
  <1>9. prompt = NoPrompt BY <1>2, <1>3, InState DEF Good, NoOverlap
  <1>10. GoesOnWalking BY <1>9 DEF GoesOnWalking, NoPrompt
  <1> QED BY <1>1, <1>2, <1>8, <1>10 DEF Accounted, Account

\* Answers to the conflict card.
LEMMA AnswerExternalChangeAccounted ==
  ASSUME StepInv, IndInv', AnswerExternalChange, NEW Warn, NEW Hard,
         Sizes(Warn, Hard)
  PROVE  Accounted(Warn, Hard)
  <1>1. Input /\ Card = "external" BY DEF AnswerExternalChange
  <1>2. /\ Good(S) /\ DocRoom(S) /\ GenRoom(S) /\ StampRoom(S)
        /\ turn # "start" /\ turn = "inputs"
    BY <1>1, StepFinds
  <1>3. spell = "closed" /\ external # NoExternal BY <1>1, CardTells
  <1>4. PICK choice, io :
          /\ choice \in {"cancel", "saveAs", "overwrite", "reload"}
          /\ Step(ChooseExternalChange(S, choice, io), {})
    BY DEF AnswerExternalChange
  <1> DEFINE n == ChooseExternalChange(S, choice, io)
             X == {external.tab, ShowTab(S, external.tab).editing}
             W == {external.path}
  <1>5. Hard \in SUBSET OverHard /\ Empty \notin Hard BY DEF Sizes
  <1>6. Reaches(S, n, X, W, Hard)
    BY <1>2, <1>4, <1>5, InState, ChooseExternalChangeReaches
  <1>7. Become(n) /\ turn' = turn BY <1>4, TurnStays
  <1> HIDE DEF n
  <1>8. StepInv' /\ Spares(S, S', X, W, Hard) /\ LeavesTheReviewed
    BY <1>2, <1>3, <1>6, <1>7, ReachingStep
  <1> QED BY <1>1, <1>2, <1>3, <1>8 DEF Accounted, Account

\* A portal answers a dialog.
LEMMA DialogResultAccounted ==
  ASSUME StepInv, IndInv', DialogResult, NEW Warn, NEW Hard,
         Sizes(Warn, Hard)
  PROVE  Accounted(Warn, Hard)
  <1>1. Result BY DEF DialogResult
  <1>2. /\ Good(S) /\ DocRoom(S) /\ GenRoom(S) /\ StampRoom(S)
        /\ turn # "start" /\ turn = "results"
    BY <1>1, StepFinds
  <1>3. PICK d \in dialogs, accepted \in BOOLEAN, names \in NameLists,
             io \in Faults :
          Step(HandleDialogResult(S, d, accepted, names, io), {})
    BY DEF DialogResult
  <1> DEFINE n == HandleDialogResult(S, d, accepted, names, io)
  <1>4. names \in Seq(Names) /\ names # << >> BY NameListIsSeq
  <1>5. d \in S.dialogs /\ Empty \notin Warn BY InState DEF Sizes
  <1>6. DialogBounds(S, n, d, Warn)
    BY <1>2, <1>4, <1>5, HandleDialogResultBounds
  <1>7. Become(n) /\ turn' = turn BY <1>3, TurnStays
  <1> HIDE DEF n
  <1>8. DialogBounds(S, S', d, Warn) BY <1>6, <1>7, BecomeBounds
  <1>9. /\ Steady(S, n) /\ n.spell = spell
        /\ ~ prompt.awaiting =>
             /\ ~ n.prompt.awaiting
             /\ spell = "review" => Kept(S, n)
        /\ prompt.kind = "window" /\ external = NoExternal =>
             n.prompt.kind = "window" \/ "AcceptClose" \in ToSet(n.requests)
    BY <1>6, InState DEF DialogBounds
  <1>10. spell = "review" =>
           /\ n.editing = editing /\ n.paste = paste /\ n.opening = opening
           /\ DOMAIN n.docs = DOMAIN docs
           /\ \A id \in DOMAIN docs : n.docs[id].text = docs[id].text
    BY <1>9, InState DEF Kept, StepInv
  <1>11. StepInv'
    BY <1>2, <1>7, <1>9, <1>10, SteadyStep DEF StepInv
  <1>12. LeavesTheReviewed
    BY <1>7, <1>10 DEF LeavesTheReviewed, Become
  <1>13. external = NoExternal => GoesOnWalking
    BY <1>7, <1>9 DEF GoesOnWalking, Become
  <1> QED BY <1>2, <1>8, <1>11, <1>12, <1>13 DEF Accounted, Account

\* The next file of a list is opened.
LEMMA OpenNextAccounted ==
  ASSUME StepInv, IndInv', OpenNext, NEW Warn, NEW Hard, Sizes(Warn, Hard)
  PROVE  Accounted(Warn, Hard)
  <1>1. /\ Good(S) /\ turn # "start" /\ DocRoom(S) /\ opening # NoOpening
    BY RoomParts DEF OpenNext, StepInv, IndInv
  <1>2. PICK io \in Faults : Step(OpenNextPath(S, io), {}) BY DEF OpenNext
  <1> DEFINE n == OpenNextPath(S, io)
  <1>3. spell # "review" BY <1>1 DEF StepInv
  <1>4. Warn \in SUBSET OverWarning /\ Empty \notin Warn BY DEF Sizes
  <1>5. Reaches(S, n, {}, {}, Warn) /\ n.prompt = prompt
    BY <1>1, <1>3, <1>4, InState, OpenNextPathReaches
  <1>6. Become(n) /\ turn' = turn BY <1>2, TurnStays
  <1> HIDE DEF n
  <1>7. Spares(S, n, {}, {}, Warn) /\ Steady(S, n) /\ n.spell = spell
    BY <1>5, InState, ReachesSpares
  <1>8. StepInv' BY <1>1, <1>3, <1>5, <1>6, <1>7, SteadyStep DEF StepInv
  <1>9. Spares(S, S', {}, {}, Warn) BY <1>6, <1>7, BecomeBounds
  <1>10. LeavesTheReviewed /\ GoesOnWalking
    BY <1>3, <1>5, <1>6 DEF LeavesTheReviewed, GoesOnWalking, Become
  <1> QED BY <1>8, <1>9, <1>10 DEF Accounted, Account

\* A step that changes the spelling card alone.
LEMMA SpellingStep ==
  ASSUME StepInv, IndInv', turn # "start", turn' # "start",
         NEW n, Become(n), n.docs = docs, n.tab = tab, n.disk = disk,
         n.editing = editing, n.prompt = prompt,
         n.spell = "review" => n.opening = NoOpening /\ ~ n.paste,
         n.spell # "closed" => ~ n.prompt.awaiting,
         NEW Warn, NEW Hard
  PROVE  Accounted(Warn, Hard)
  <1>1. Spares(S, n, {}, {}, Warn) /\ Steady(S, n)
    BY InState DEF Spares, Steady, Carried, Stamped, Named
  <1>2. StepInv' BY <1>1, SteadyStep
  <1>3. Spares(S, S', {}, {}, Warn) BY <1>1, BecomeBounds
  <1>4. LeavesTheReviewed /\ GoesOnWalking
    BY DEF LeavesTheReviewed, GoesOnWalking, Become
  <1> QED BY <1>2, <1>3, <1>4 DEF Accounted, Account

LEMMA SpellingFields ==
  ASSUME Good(S)
  PROVE  /\ \A n \in {OpenSpellcheck(S), StartSpellcheckSession(S),
                      CloseSpellcheck(S)} :
              /\ n.docs = docs /\ n.tab = tab /\ n.disk = disk
              /\ n.editing = editing /\ n.prompt = prompt
              /\ n.opening = opening
         /\ OpenSpellcheck(S).spell = "loading"
         /\ StartSpellcheckSession(S).spell = "review"
         /\ ~ StartSpellcheckSession(S).paste
         /\ CloseSpellcheck(S).spell = "closed"
  <1> DEFINE Same(n) == /\ n.docs = S.docs /\ n.tab = S.tab /\ n.disk = S.disk
                        /\ n.editing = S.editing /\ n.prompt = S.prompt
                        /\ n.opening = S.opening
  <1>1. IsState(S) BY DEF Good
  <1>2. Same(OpenSpellcheck(S)) /\ OpenSpellcheck(S).spell = "loading"
    BY <1>1 DEF OpenSpellcheck, IsState, States
  <1>3. /\ Same(StartSpellcheckSession(S))
        /\ StartSpellcheckSession(S).spell = "review"
        /\ ~ StartSpellcheckSession(S).paste
    BY <1>1 DEF StartSpellcheckSession, IsState, States
  <1>4. Same(CloseSpellcheck(S)) /\ CloseSpellcheck(S).spell = "closed"
    BY <1>1 DEF CloseSpellcheck, IsState, States
  <1> QED BY <1>2, <1>3, <1>4, InState

\* The card opens, gets its session, and closes or replaces a word.
LEMMA SpellingAccounted ==
  ASSUME StepInv, IndInv', SpellcheckResult \/ OpenSpelling \/ AnswerSpelling,
         NEW Warn, NEW Hard, Sizes(Warn, Hard)
  PROVE  Accounted(Warn, Hard)
  <1>1. Input \/ Result BY DEF SpellcheckResult, OpenSpelling, AnswerSpelling
  <1>2. /\ Good(S) /\ turn # "start" /\ opening = NoOpening
        /\ Input => turn = "inputs"
    BY <1>1, StepFinds
  <1>3. CASE SpellcheckResult
    <2>1. spell = "loading" /\ Step(StartSpellcheckSession(S), {})
      BY <1>3 DEF SpellcheckResult
    <2>2. ~ prompt.awaiting BY <2>1 DEF StepInv
    <2> QED BY <1>2, <2>1, <2>2, SpellingFields, SpellingStep, TurnStays
  <1>4. CASE OpenSpelling
    <2>1. Card = "none" /\ Step(OpenSpellcheck(S), {})
      BY <1>4 DEF OpenSpelling
    <2>2. ~ prompt.awaiting BY <2>1, CardTells DEF NoPrompt
    <2> QED BY <1>2, <2>1, <2>2, SpellingFields, SpellingStep, TurnStays
  <1>5. CASE AnswerSpelling /\ Step(CloseSpellcheck(S), {})
    BY <1>2, <1>5, SpellingFields, SpellingStep, TurnStays
  <1>6. CASE AnswerSpelling /\ \E text \in Typed : Step(EditText(S, text), {})
    <2>1. PICK text \in Typed : Step(EditText(S, text), {}) BY <1>6
    <2>2. text \notin Warn BY DEF Sizes
    <2>3. EditBounds(S, EditText(S, text), {}, Warn)
      BY <1>2, <2>2, EditTextReaches
    <2>4. Input /\ Card = "spelling" BY <1>6 DEF AnswerSpelling
    <2> QED BY <1>2, <2>1, <2>3, <2>4, EditStep
  <1> QED BY <1>3, <1>4, <1>5, <1>6 DEF AnswerSpelling

\* A step that only begins, abandons or takes a request.
LEMMA AskingStep ==
  ASSUME StepInv, IndInv', turn # "start", turn' # "start",
         NEW n, Become(n), OnlyAsked(S, n), NEW Warn, NEW Hard
  PROVE  Accounted(Warn, Hard)
  <1>1. Spares(S, n, {}, {}, Warn) /\ Steady(S, n) BY AskedSpares
  <1>2. /\ n.docs = docs /\ n.spell = spell /\ n.editing = editing
        /\ n.paste = paste /\ n.opening = opening
        /\ n.prompt.kind = prompt.kind
        /\ prompt.awaiting \/ ~ n.prompt.awaiting
    BY InState DEF OnlyAsked
  <1>3. StepInv' BY <1>1, <1>2, SteadyStep DEF StepInv
  <1>4. Spares(S, S', {}, {}, Warn) BY <1>1, BecomeBounds
  <1>5. LeavesTheReviewed /\ GoesOnWalking
    BY <1>2 DEF LeavesTheReviewed, GoesOnWalking, Become
  <1> QED BY <1>3, <1>4, <1>5 DEF Accounted, Account

\* A dialog request is taken.
LEMMA TakeDialogRequestAccounted ==
  ASSUME StepInv, IndInv', TakeDialogRequest, NEW Warn, NEW Hard
  PROVE  Accounted(Warn, Hard)
  <1> DEFINE popped == [S EXCEPT !.requests = Tail(@)]
             begun  == IF Head(requests) = "ShowOpen"
                       THEN BeginOpenDialog(popped)
                       ELSE BeginSaveAsDialog(popped)
  <1>1. /\ Good(S) /\ turn # "start" /\ DialogRoom(S) /\ requests # << >>
    BY DEF TakeDialogRequest, StepInv, IndInv
  <1>2. Good(popped) BY <1>1, RequestTaken
  <1>3. DialogRoom(popped) BY <1>1 DEF DialogRoom, LiveDialogs, S
  <1>4. OnlyAsked(S, popped) BY <1>1, DialogOnlyAsked
  <1>5. \/ Step(begun, {})
        \/ \E d \in begun.dialogs \ dialogs : Step(AbandonDialog(begun, d), {})
    BY DEF TakeDialogRequest
  <1> HIDE DEF popped
  <1>6. Good(begun)
    BY <1>2, <1>3, BeginOpenDialogGood, BeginSaveAsDialogGood
  <1>7. OnlyAsked(popped, begun) BY <1>2, BeginDialogAsks
  <1> HIDE DEF begun
  <1>8. OnlyAsked(S, begun) BY <1>4, <1>7, OnlyAskedThrough
  <1>9. \A d : OnlyAsked(S, AbandonDialog(begun, d))
    BY <1>6, <1>8, AbandonDialogAsks, OnlyAskedThrough
  <1>10. CASE Step(begun, {}) BY <1>1, <1>8, <1>10, TurnStays, AskingStep
  <1>11. ASSUME NEW d, Step(AbandonDialog(begun, d), {})
         PROVE  Accounted(Warn, Hard)
    <2>1. Become(AbandonDialog(begun, d)) /\ turn' = turn
      BY <1>11, TurnStays
    <2> QED BY <1>1, <1>9, <2>1, AskingStep
  <1> QED BY <1>5, <1>10, <1>11

\* The accepted close is taken.
LEMMA AcceptCloseAccounted ==
  ASSUME StepInv, IndInv', AcceptClose, NEW Warn, NEW Hard
  PROVE  Accounted(Warn, Hard)
  <1> DEFINE popped == [S EXCEPT !.requests = Tail(@)]
  <1>1. /\ Good(S) /\ turn # "start" /\ turn' = turn /\ Become(popped)
    BY DEF AcceptClose, StepInv, IndInv
  <1>2. OnlyAsked(S, popped) BY <1>1, DialogOnlyAsked
  <1> HIDE DEF popped
  <1> QED BY <1>1, <1>2, AskingStep

\* The turn ends; an accepted close takes the spelling card down.
LEMMA EndTurnAccounted ==
  ASSUME StepInv, IndInv', EndTurn, NEW Warn, NEW Hard
  PROVE  Accounted(Warn, Hard)
  <1>1. /\ Good(S) /\ turn # "start" /\ turn' # "start"
    BY DEF EndTurn, StepInv, IndInv
  <1>2. CASE Become(CloseSpellcheck(S))
    BY <1>1, <1>2, SpellingFields, SpellingStep
  <1>3. CASE Become(S)
    BY <1>1, <1>3, InState, SpellingStep DEF StepInv
  <1> QED BY <1>2, <1>3 DEF EndTurn

\* The compositor asks to close. During a decision nothing happens.
LEMMA WindowCloseAccounted ==
  ASSUME StepInv, IndInv', WindowClose, NEW Warn, NEW Hard
  PROVE  Accounted(Warn, Hard)
  <1> DEFINE n      == RequestClose(S)
             leaves == [n EXCEPT !.requests = << >>, !.spell = "closed",
                                 !.scope = NoDoc]
  <1>1. Input BY DEF WindowClose
  <1>2. /\ Good(S) /\ GenRoom(S) /\ turn # "start" /\ opening = NoOpening
        /\ requests = << >> /\ turn = "inputs"
    BY <1>1, StepFinds DEF Input
  <1>3. /\ Reaches(S, n, {}, {}, Warn)
        /\ DecisionActive(S) => n = S
        /\ prompt.awaiting \/ ~ n.prompt.awaiting
    BY <1>2, RequestCloseReaches, InState
  <1>4. Spares(S, n, {}, {}, Warn) /\ Steady(S, n) /\ n.spell = spell
    BY <1>3, ReachesSpares, InState
  <1>5. IF "AcceptClose" \in ToSet(n.requests)
        THEN Become(leaves) /\ turn' = "left"
        ELSE Become(n) /\ turn' = turn
    BY DEF WindowClose, Step
  <1>6. /\ spell = "review" => n = S
        /\ prompt.kind = "window" => n = S
    BY <1>3, InState DEF DecisionActive, SpellcheckReviewActive, NoPrompt
  <1>7. n = S => "AcceptClose" \notin ToSet(n.requests)
    BY <1>2, InState DEF ToSet
  <1>8. Good(n) BY <1>2, RequestCloseGood, InState
  <1> HIDE DEF n
  <1>9. /\ leaves.docs = n.docs /\ leaves.tab = n.tab /\ leaves.disk = n.disk
        /\ leaves.prompt = n.prompt /\ leaves.spell = "closed"
    BY <1>8 DEF Good, IsState, States
  <1> HIDE DEF leaves
  <1>10. CASE "AcceptClose" \in ToSet(n.requests)
    <2>1. Spares(S, leaves, {}, {}, Warn) /\ Steady(S, leaves)
      BY <1>4, <1>9 DEF Spares, Steady, Carried, Stamped, Named
    <2>2. Become(leaves) /\ turn' = "left" BY <1>5, <1>10
    <2>3. StepInv' BY <1>2, <1>9, <2>1, <2>2, SteadyStep
    <2>4. Spares(S, S', {}, {}, Warn) BY <2>1, <2>2, BecomeBounds
    <2>5. LeavesTheReviewed /\ GoesOnWalking
      BY <1>6, <1>7, <1>10 DEF LeavesTheReviewed, GoesOnWalking
    <2> QED BY <2>3, <2>4, <2>5 DEF Accounted, Account
  <1>11. CASE "AcceptClose" \notin ToSet(n.requests)
    <2>1. Become(n) /\ turn' = turn BY <1>5, <1>11
    <2>2. StepInv'
      BY <1>2, <1>3, <1>4, <1>6, <2>1, InState, SteadyStep DEF StepInv
    <2>3. Spares(S, S', {}, {}, Warn) BY <1>4, <2>1, BecomeBounds
    <2>4. n = S => docs' = docs /\ editing' = editing /\ prompt' = prompt
      BY <2>1, InState DEF Become
    <2>5. LeavesTheReviewed /\ GoesOnWalking
      BY <1>6, <2>4 DEF LeavesTheReviewed, GoesOnWalking
    <2> QED BY <2>2, <2>3, <2>5 DEF Accounted, Account
  <1> QED BY <1>10, <1>11

\* Another program writes.
LEMMA OtherProgramAccounted ==
  ASSUME StepInv, IndInv', OtherProgram, NEW Warn, NEW Hard
  PROVE  Accounted(Warn, Hard)
  <1>1. /\ docs' = docs /\ editing' = editing /\ paste' = paste
        /\ spell' = spell /\ tab' = tab /\ prompt' = prompt
        /\ opening' = opening /\ turn' = turn /\ turn # "start"
    BY DEF OtherProgram, editorVars, workspaceVars
  <1>2. Stamped(S)' /\ Named(S)' BY <1>1, InState DEF StepInv, Stamped, Named, S
  <1>3. StepInv' BY <1>1, <1>2 DEF StepInv
  <1>4. LeavesTheReviewed /\ GoesOnWalking
    BY <1>1 DEF LeavesTheReviewed, GoesOnWalking
  <1> QED BY <1>1, <1>3, <1>4 DEF Accounted, Account

\* The files of the command line replace the initial tab. Only startup is
\* content with the hard limit and no card.
LEMMA StartWithFilesAccounted ==
  ASSUME StepInv, IndInv', StartWithFiles, NEW Warn, NEW Hard
  PROVE  Accounted(Warn, Hard)
  <1>1. /\ turn = "start" /\ Good(S) /\ spell = "closed"
        /\ prompt = NoPrompt /\ \A id \in DOMAIN docs : docs[id].clean
    BY DEF StartWithFiles, StepInv, IndInv
  <1>2. PICK n \in 1 .. MaxTabs :
          \E paths \in [1 .. n -> Paths], last \in 1 .. n :
            IF StartupReadable(S, paths)
            THEN /\ Become(LoadStartupFiles(S, paths, last))
                 /\ turn' = "results"
            ELSE Become(S) /\ turn' = "left"
    BY DEF StartWithFiles
  <1>3. PICK paths \in [1 .. n -> Paths], last \in 1 .. n :
            IF StartupReadable(S, paths)
            THEN /\ Become(LoadStartupFiles(S, paths, last))
                 /\ turn' = "results"
            ELSE Become(S) /\ turn' = "left"
    BY <1>2
  <1>4. CASE ~ StartupReadable(S, paths)
    <2>1. UNCHANGED <<editorVars, disk, workspaceVars>>
      BY <1>3, <1>4 DEF Become, S, editorVars, workspaceVars
    <2> QED BY <1>1, <2>1, IdleStep
  <1>5. CASE StartupReadable(S, paths)
    <2> DEFINE k == LoadStartupFiles(S, paths, last)
               docsN == [id \in DOMAIN paths |->
                           AtSavePoint(S.disk[paths[id]].text)]
               tabN  == [id \in DOMAIN paths |->
                           [path |-> paths[id],
                            stamp |-> S.disk[paths[id]].stamp]]
    <2>1. /\ k.docs = docsN /\ k.tab = tabN /\ k.disk = disk
          /\ k.spell = "closed" /\ k.prompt = prompt
      BY <1>1, InState DEF LoadStartupFiles, Good, IsState, States
    <2>2. \A id \in DOMAIN paths :
            /\ S.disk[paths[id]].exists
            /\ S.disk[paths[id]].text \notin OverHard
      BY <1>5, ReadIsBounded DEF StartupReadable
    <2>3. Become(k) /\ turn' = "results" BY <1>3, <1>5
    <2>4. \A id \in DOMAIN k.tab : k.tab[id].stamp # NoStamp
      <3>1. \A p \in Paths : S.disk[p].exists => S.disk[p].stamp # NoStamp
        <4>1. S.disk \in Disk BY <1>1 DEF Good, IsState, States
        <4>2. \A f \in File \cup {Absent} : f.exists => f \in File
          BY DEF Absent
        <4>3. \A f \in File : f.stamp \in Stamps BY DEF File
        <4>4. \A t \in Stamps : t # NoStamp
          BY FileConstants DEF Stamps, NoStamp
        <4> QED BY <4>1, <4>2, <4>3, <4>4 DEF Disk
      <3> QED BY <2>1, <2>2, <3>1
    <2>5. \A id \in DOMAIN k.docs :
            k.docs[id].text \notin OverHard /\ k.docs[id].saved \notin OverHard
      BY <2>1, <2>2 DEF AtSavePoint
    <2> HIDE DEF k
    <2>6. Steady(S, k)
      BY <2>1, <2>4, InState DEF Steady, Stamped, Named
    <2>7. Stamped(S)' /\ Named(S)' BY <2>3, <2>6, BecomeBounds DEF Steady, StepInv
    <2>8. StepInv' BY <1>1, <2>1, <2>3, <2>7 DEF StepInv, Become
    <2>9. docs' = k.docs /\ disk' = disk /\ prompt' = prompt
      BY <2>1, <2>3 DEF Become
    <2>10. Account(Warn, Hard) BY <1>1, <2>5, <2>9 DEF Account
    <2>11. LeavesTheReviewed /\ GoesOnWalking
      BY <1>1, <2>9 DEF LeavesTheReviewed, GoesOnWalking
    <2> QED BY <2>8, <2>10, <2>11 DEF Accounted
  <1> QED BY <1>4, <1>5

LEMMA InitSteps == Init => StepInv
  <1> SUFFICES ASSUME Init PROVE StepInv
    OBVIOUS
  <1>1. IndInv BY InitGood
  <1>2. Stamped(S) /\ Named(S)
    BY InState DEF Init, Stamped, Named, Untitled
  <1>3. /\ spell = "closed" /\ \A id \in DOMAIN docs : docs[id].clean
    BY DEF Init, AtSavePoint
  <1> QED BY <1>1, <1>2, <1>3 DEF StepInv

\* Every step keeps the invariant and its bound.
LEMMA NextAccounted ==
  ASSUME StepInv, [Next]_vars, NEW Warn, NEW Hard, Sizes(Warn, Hard)
  PROVE  Accounted(Warn, Hard)
  <1>1. IndInv' BY NextGood DEF StepInv
  <1>2. CASE UNCHANGED vars
    BY <1>1, <1>2, IdleStep DEF vars
  <1>3. CASE StartInteractive \/ EndResults
    <2>1. UNCHANGED <<editorVars, disk, workspaceVars>> /\ turn' # "start"
      BY <1>3 DEF StartInteractive, EndResults
    <2> QED BY <1>1, <2>1, IdleStep
  <1>4. CASE StartWithFiles BY <1>1, <1>4, StartWithFilesAccounted
  <1>5. CASE DialogResult BY <1>1, <1>5, DialogResultAccounted
  <1>6. CASE OpenNext BY <1>1, <1>6, OpenNextAccounted
  <1>7. CASE PasteResult BY <1>1, <1>7, PasteResultAccounted
  <1>8. CASE SpellcheckResult \/ OpenSpelling \/ AnswerSpelling
    BY <1>1, <1>8, SpellingAccounted
  <1>9. CASE TakeDialogRequest BY <1>1, <1>9, TakeDialogRequestAccounted
  <1>10. CASE AcceptClose BY <1>1, <1>10, AcceptCloseAccounted
  <1>11. CASE WindowClose BY <1>1, <1>11, WindowCloseAccounted
  <1>12. CASE QuitAction \/ Edit \/ Undo \/ Paste
    BY <1>1, <1>12, PlainInputAccounted
  <1>13. CASE TabActions BY <1>1, <1>13, TabActionsAccounted
  <1>14. CASE Close BY <1>1, <1>14, CloseAccounted
  <1>15. CASE FileActions BY <1>1, <1>15, FileActionsAccounted
  <1>16. CASE OpenRecent BY <1>1, <1>16, OpenRecentAccounted
  <1>17. CASE AnswerUnsaved BY <1>1, <1>17, AnswerUnsavedAccounted
  <1>18. CASE AnswerLargeFile BY <1>1, <1>18, AnswerLargeFileAccounted
  <1>19. CASE AnswerExternalChange
    BY <1>1, <1>19, AnswerExternalChangeAccounted
  <1>20. CASE EndTurn BY <1>1, <1>20, EndTurnAccounted
  <1>21. CASE OtherProgram BY <1>1, <1>21, OtherProgramAccounted
  <1>22. CASE Terminated BY <1>2, <1>22 DEF Terminated
  <1> QED
    BY <1>2, <1>3, <1>4, <1>5, <1>6, <1>7, <1>8, <1>9, <1>10, <1>11, <1>12,
       <1>13, <1>14, <1>15, <1>16, <1>17, <1>18, <1>19, <1>20, <1>21, <1>22
    DEF Next
-----------------------------------------------------------------------------
(* What the bounds say *)

LEMMA NoSizes == Sizes({}, {})
  BY DEF Sizes

LEMMA StepsInvariant == Spec => []StepInv
  <1>1. StepInv /\ [Next]_vars => StepInv'
    BY NoSizes, NextAccounted DEF Accounted
  <1> QED BY <1>1, InitSteps, PTL DEF Spec

\* DocumentWorkspace::SaveToPath replaces a file only when the tab that saves
\* is bound to that very file and has the stamp it has now, or a Save As dialog
\* named it from elsewhere, or the conflict card showed it; for any features,
\* any faults and any number of files, tabs and dialogs.
THEOREM ReplacesNothingBlindly == Spec => NoBlindReplace
  <1>1. ASSUME StepInv, Account({}, {}) PROVE ReplacesKnowingly
    <2> SUFFICES ASSUME ~ OtherProgram, NEW p \in Paths,
                        disk[p].exists, disk'[p] # disk[p]
                 PROVE  \/ \E id \in DOMAIN tab :
                             tab[id].path = p /\ tab[id].stamp = disk[p].stamp
                        \/ \E d \in dialogs \ dialogs' :
                             d.kind = "saveAs" /\ tab[d.tab].path # p
                        \/ Card = "external" /\ external.path = p
      BY DEF ReplacesKnowingly
    <2>1. \A X, W, Big : Spares(S, S', X, W, Big) => p \in W
      BY InState DEF Spares, S
    <2>2. ASSUME NEW d \in dialogs, DialogBounds(S, S', d, {})
          PROVE  \/ \E id \in DOMAIN tab :
                      tab[id].path = p /\ tab[id].stamp = disk[p].stamp
                 \/ \E e \in dialogs \ dialogs' :
                      e.kind = "saveAs" /\ tab[e.tab].path # p
      <3>1. dialogs' = dialogs \ {d} BY <2>2 DEF DialogBounds, S
      <3>2. PICK path \in Paths :
              /\ d.kind = "saveAs"
              /\ Spares(S, S', {d.tab}, {path}, {})
              /\ Saves(S, S', d.tab, path)
              /\ Stamped(S) => Knows(S, d.tab, path)
        BY <2>1, <2>2 DEF DialogBounds
      <3>3. p = path BY <2>1, <3>2
      <3>4. /\ d.tab \in DOMAIN tab
            /\ tab[d.tab].path = p => tab[d.tab].stamp = disk[p].stamp
        BY <1>1, <3>2, <3>3, InState DEF Saves, Knows, StepInv
      <3> QED BY <3>1, <3>2, <3>4
    <2> QED BY <1>1, <2>1, <2>2 DEF Account
  <1>2. StepInv /\ [Next]_vars => [ReplacesKnowingly]_vars
    BY <1>1, NoSizes, NextAccounted DEF Accounted
  <1> QED BY <1>2, StepsInvariant, PTL DEF Spec, NoBlindReplace

\* HandleDialogResult closes a tab only for the Save As that the dirty-close
\* prompt on screen awaits: same tab, same generation; for any features.
THEOREM ResultsCloseThePrompted == Spec => ResultClosesOnlyThePromptedTab
  <1>1. ASSUME StepInv, Account({}, {}) PROVE ClosesThePrompted
    <2> SUFFICES ASSUME turn = "results", NEW id \in DOMAIN tab \ DOMAIN tab'
                 PROVE  /\ prompt.kind = "tab" /\ prompt.tab = id
                        /\ prompt.awaiting
                        /\ \E d \in dialogs \ dialogs' : d.gen = gen /\ d.tab = id
      BY DEF ClosesThePrompted
    <2>1. \A X, W, Big : Spares(S, S', X, W, Big) => id \in X
      BY DEF Spares, S
    <2>2. PICK d \in dialogs : DialogBounds(S, S', d, {})
      BY <1>1, <2>1 DEF Account
    <2>3. dialogs' = dialogs \ {d} /\ id = d.tab
      BY <2>1, <2>2 DEF DialogBounds, S
    <2>4. d.tab \in DOMAIN S.tab \ DOMAIN S'.tab BY <2>3 DEF S
    <2>5. Continues(S, id, d.gen) /\ prompt.kind # "window"
      BY <2>2, <2>3, <2>4, InState DEF DialogBounds
    <2>6. prompt.awaiting /\ prompt.tab = id /\ d.gen = gen
      BY <2>5, InState DEF Continues
    <2>7. prompt.kind = "tab"
      <3>1. prompt \in Prompt
        BY <1>1, InState DEF StepInv, IndInv, Good, IsState, States
      <3>2. prompt.kind # "none"
        BY <1>1, <2>6, InState DEF StepInv, Named, NoPrompt
      <3> QED BY <2>5, <3>1, <3>2 DEF Prompt
    <2> QED BY <2>3, <2>6, <2>7
  <1>2. StepInv /\ [Next]_vars => [ClosesThePrompted]_vars
    BY <1>1, NoSizes, NextAccounted DEF Accounted
  <1> QED
    BY <1>2, StepsInvariant, PTL DEF Spec, ResultClosesOnlyThePromptedTab

\* While BeginSpellcheckReview owns a document, neither a portal, nor the
\* clipboard, nor the queue of requests, nor a close of the window changes a
\* text, the set of documents or the one that is edited; for any features.
THEOREM ReviewsOwnTheBuffer == Spec => ReviewOwnsTheBuffer
  <1>1. StepInv /\ [Next]_vars => [LeavesTheReviewed]_vars
    BY NoSizes, NextAccounted DEF Accounted
  <1> QED BY <1>1, StepsInvariant, PTL DEF Spec, ReviewOwnsTheBuffer

\* No document holds, or could undo to, contents over the hard limit.
HardInv ==
  \A id \in DOMAIN docs :
    docs[id].text \notin OverHard /\ docs[id].saved \notin OverHard

\* Contents come in that were not there only at startup, and those over the
\* threshold only through the two cards that say so.
LEMMA AccountCarries ==
  ASSUME NEW Warn, NEW Hard \in SUBSET Warn, Account(Warn, Hard),
         turn # "start"
  PROVE  /\ Carried(S, S', Hard)
         /\ Card \notin {"large", "external"} \/ turn # "inputs" =>
              Carried(S, S', Warn)
  <1>1. \A X, W, Big : Spares(S, S', X, W, Big) => Carried(S, S', Big)
    BY DEF Spares
  <1>2. Carried(S, S', Warn) => Carried(S, S', Hard) BY DEF Carried
  <1>3. docs' = docs => Carried(S, S', Warn) BY DEF Carried, S
  <1>4. \A d : DialogBounds(S, S', d, Warn) => Carried(S, S', Warn)
    BY <1>1 DEF DialogBounds
  <1> QED BY <1>1, <1>2, <1>3, <1>4 DEF Account

\* Where typing and the empty document stay below the threshold, what is over
\* the hard limit never becomes a document, and what is over the threshold
\* only after Open on the large-file card or Reload on the conflict card: the
\* file is measured by the very read that loads it.
THEOREM LargeFilesStayGuarded ==
  ASSUME Typed \cap OverWarning = {}, Empty \notin OverWarning
  PROVE  Spec => LargeFilesAreGuarded
  <1>1. Sizes(OverWarning, OverHard) /\ OverHard \in SUBSET OverWarning
    BY FileConstants DEF Sizes
  <1>2. Init => HardInv BY <1>1 DEF Init, HardInv, AtSavePoint
  <1>3. ASSUME StepInv, HardInv, [Next]_vars PROVE HardInv'
    <2>1. Account(OverWarning, OverHard)
      BY <1>1, <1>3, NextAccounted DEF Accounted
    <2>2. CASE turn # "start"
      <3>1. Carried(S, S', OverHard) BY <1>1, <2>1, <2>2, AccountCarries
      <3> QED BY <1>3, <3>1 DEF Carried, HardInv, S
    <2>3. CASE turn = "start"
      <3>1. \A X, W, Big : Spares(S, S', X, W, Big) => Carried(S, S', Big)
        BY DEF Spares
      <3>2. \/ Carried(S, S', OverWarning)
            \/ docs' = docs
            \/ HardInv'
        BY <2>1, <2>3, <3>1 DEF Account, HardInv
      <3> QED BY <1>1, <1>3, <3>2 DEF Carried, HardInv, S
    <2> QED BY <2>2, <2>3
  <1>4. ASSUME StepInv, [Next]_vars PROVE [LoadsLargeOnlyIfConfirmed]_vars
    <2>1. Account(OverWarning, OverHard)
      BY <1>1, <1>4, NextAccounted DEF Accounted
    <2>2. CASE turn = "start" \/ Card \in {"large", "external"}
      BY <2>2 DEF LoadsLargeOnlyIfConfirmed
    <2>3. CASE turn # "start" /\ Card \notin {"large", "external"}
      <3>1. Carried(S, S', OverWarning)
        BY <1>1, <2>1, <2>3, AccountCarries
      <3> QED BY <3>1 DEF Carried, LoadsLargeOnlyIfConfirmed, S
    <2> QED BY <2>2, <2>3
  <1>5. HardInv => HardLimitHolds BY DEF HardInv, HardLimitHolds
  <1> QED
    BY <1>2, <1>3, <1>4, <1>5, StepsInvariant, PTL
    DEF Spec, LargeFilesAreGuarded, LargeContentsAreConfirmed
-----------------------------------------------------------------------------
(* Where the spelling card is closed, the tab on screen is the edited one *)

\* An answer to the conflict card reaches the document of its tab alone.
LEMMA ConflictAnswerReach ==
  ASSUME SessionInv, external # NoExternal
  PROVE  {external.tab, ShowTab(S, external.tab).editing} = {external.tab}
  <1>1. /\ Good(S) /\ Aligned(S) /\ Current(S) /\ S.spell = "closed"
        /\ S.external = external
    BY Found DEF Sound
  <1>2. /\ IsState(S) /\ S.editing = S.active /\ DOMAIN S.tab = DOMAIN S.docs
        /\ external.tab \in DOMAIN S.tab
    BY <1>1 DEF Aligned, Current, Good
  <1>3. ShowTab(S, external.tab).editing = external.tab
    BY <1>1, <1>2, ShownIsEdited
  <1> QED BY <1>3

\* With no spelling review to pin a document, modified contents leave the
\* application only when the same step writes them to a file, or on an answer
\* to the dirty-close or the conflict card that names their document.
THEOREM EditsNeedConsent ==
  ASSUME "spelling" \notin Features
  PROVE  Spec => EditsVanishOnlyByConsent
  <1>1. ASSUME SessionInv, Account({}, {}) PROVE SparesEdits
    <2> SUFFICES ASSUME NEW id \in DOMAIN docs, ~ docs[id].clean,
                        \/ id \notin DOMAIN docs'
                        \/ /\ docs'[id].clean
                           /\ docs'[id].text \notin
                                {docs[id].text, docs[id].saved}
                 PROVE  \/ Stores(docs[id].text)
                        \/ Card = "unsaved" /\ prompt.tab = id
                        \/ Card = "external" /\ external.tab = id
      BY DEF SparesEdits
    <2>1. \A X, W, Big : Spares(S, S', X, W, Big) => id \in X
      BY DEF Spares, S
    <2>2. \A path \in Paths : Saves(S, S', id, path) => Stores(docs[id].text)
      BY DEF Saves, Stores, S
    <2>3. \A d, Big : DialogBounds(S, S', d, Big) => Stores(docs[id].text)
      BY <2>1, <2>2 DEF DialogBounds
    <2>4. CASE Card = "external" /\ turn = "inputs"
      <3>1. external # NoExternal BY <2>4, CardTells
      <3>2. {external.tab, ShowTab(S, external.tab).editing} = {external.tab}
        BY <1>1, <3>1, ConflictAnswerReach
      <3> QED BY <1>1, <2>1, <2>4, <3>2 DEF Account
    <2>5. CASE ~ (Card = "external" /\ turn = "inputs")
      BY <1>1, <2>1, <2>2, <2>3, <2>5 DEF Account
    <2> QED BY <2>4, <2>5
  <1>2. StepInv /\ SessionInv /\ [Next]_vars => [SparesEdits]_vars
    BY <1>1, NoSizes, NextAccounted DEF Accounted
  <1> QED
    BY <1>2, StepsInvariant, SessionInvariant, PTL
    DEF Spec, EditsVanishOnlyByConsent

\* An answer to the conflict card, Reload included, changes the document of
\* the tab the card was captured for and no other; and no file is replaced
\* blindly.
THEOREM WritesStayWanted ==
  ASSUME "spelling" \notin Features
  PROVE  Spec => WritesAreWanted
  <1>1. ASSUME SessionInv, Account({}, {}) PROVE SparesOtherTabs
    <2> SUFFICES ASSUME Card = "external", turn = "inputs",
                        NEW id \in DOMAIN docs, id # external.tab
                 PROVE  docs'[id] = docs[id]
      BY DEF SparesOtherTabs
    <2>1. \A X, W, Big : Spares(S, S', X, W, Big) /\ id \notin X =>
            docs'[id] = docs[id]
      BY DEF Spares, S
    <2>2. external # NoExternal BY CardTells
    <2>3. {external.tab, ShowTab(S, external.tab).editing} = {external.tab}
      BY <1>1, <2>2, ConflictAnswerReach
    <2> QED BY <1>1, <2>1, <2>3 DEF Account
  <1>2. StepInv /\ SessionInv /\ [Next]_vars => [SparesOtherTabs]_vars
    BY <1>1, NoSizes, NextAccounted DEF Accounted
  <1>3. Spec => ConflictAnswerStaysInItsTab
    BY <1>2, StepsInvariant, SessionInvariant, PTL
    DEF Spec, ConflictAnswerStaysInItsTab
  <1> QED BY <1>3, ReplacesNothingBlindly DEF WritesAreWanted

\* When in addition no other program writes, edits vanish only with consent,
\* delayed results close only the tab whose prompt awaits them, and a walk
\* over the modified tabs ends in the accepted close or in an answer: no save,
\* no dialog and no request in between makes it fizzle out.
THEOREM ClosesFollowPrompts ==
  ASSUME "spelling" \notin Features, Quiet
  PROVE  Spec => ClosesFollowThePrompt
  <1>1. SessionInv => external = NoExternal
    BY Found DEF Sound, Calm
  <1>2. StepInv /\ SessionInv /\ [Next]_vars => [GoesOnWalking]_vars
    BY <1>1, NoSizes, NextAccounted DEF Accounted
  <1>3. Spec => WalkEndsInCloseOrCancel
    BY <1>2, StepsInvariant, SessionInvariant, PTL
    DEF Spec, WalkEndsInCloseOrCancel
  <1> QED
    BY <1>3, EditsNeedConsent, ResultsCloseThePrompted
    DEF ClosesFollowThePrompt
=============================================================================
