------------------------- MODULE DocumentWorkspace -------------------------
(***************************************************************************)
(* DocumentWorkspace: tabs, file dialogs, saves, and the three decisions   *)
(* (dirty close, large file, external change) that can own the workspace.  *)
(*                                                                         *)
(* Every handler is an operator from the state so far to the state when    *)
(* it returns. The record s has the fields of EditorDocuments and          *)
(*   disk      the file system (DocumentFiles)                             *)
(*   strip     the tabs in strip order, by document id                     *)
(*   tab       each tab's bound path (NoPath: untitled) and stamp          *)
(*   active    activeId                                                    *)
(*   prompt    UnsavedChangesPrompt: which close is pending, for which     *)
(*             tab, and whether it waits for a Save As dialog              *)
(*   gen       activePromptGeneration                                      *)
(*   resolved  windowCloseResolved                                         *)
(*   slot      pendingSaveAsTab and pendingSaveAsPromptGeneration          *)
(*   large     pendingLargeOpen                                            *)
(*   external  pendingExternalChange                                       *)
(*   requests  queued shell requests; RefreshTabs and PromptBegan only     *)
(*             repaint chrome and are left out                             *)
(*   dialogs   activeDialogs                                               *)
(*   opening   what is left of the OpenPathList call in progress           *)
(* Identities (document, prompt generation, dialog, stamp) come from       *)
(* counters that never repeat a live value. Only equality is used, so the  *)
(* model reuses a value once nothing refers to it.                         *)
(***************************************************************************)
EXTENDS EditorDocuments, Sequences, SequencesExt

CONSTANTS NoPath,      \* the path of an untitled tab
          Names,       \* paths as dialogs and menus spell them
          Normalize,   \* NormalizePath: the normalized path of each name
          MaxGens,     \* prompt generations referred to at once
          MaxDialogs   \* file dialogs in flight at once

ASSUME WorkspaceConstants ==
  /\ NoPath \notin Paths
  /\ Normalize \in [Names -> Paths]
  /\ MaxGens \in Nat \ {0}
  /\ MaxDialogs \in Nat \ {0}

Gens  == 1 .. MaxGens
NoGen == 0

NoPrompt   == [kind |-> "none", tab |-> NoDoc, awaiting |-> FALSE]
NoSlot     == [tab |-> NoDoc, gen |-> NoGen]
NoLarge    == [path |-> NoPath, rest |-> << >>]
NoExternal == [tab |-> NoDoc, path |-> NoPath, gen |-> NoGen]
NoOpening  == [rest |-> << >>, last |-> NoDoc]

Untitled == [path |-> NoPath, stamp |-> NoStamp]

\* The states the handlers work on: which documents are retained and which
\* tabs are open varies.
TabRef         == DocIds \cup {NoDoc}
GenRef         == Gens \cup {NoGen}
PathRef        == Paths \cup {NoPath}
Tab            == [path : PathRef, stamp : Stamps \cup {NoStamp}]
Prompt         == [kind : {"none", "tab", "window"}, tab : TabRef,
                   awaiting : BOOLEAN]
SaveAsIntent   == [tab : TabRef, gen : GenRef]
LargeOpen      == [path : PathRef, rest : Seq(Names)]
ExternalChange == [tab : TabRef, path : PathRef, gen : GenRef]
Opening        == [rest : Seq(Names), last : TabRef]
Request        == {"ShowOpen", "ShowSaveAs", "AcceptClose"}
Dialog         == [id : 1 .. MaxDialogs, kind : {"open", "saveAs"},
                   tab : TabRef, gen : GenRef]

States(ids, open) ==
  [docs : [ids -> Document], editing : DocIds, paste : BOOLEAN,
   spell : {"closed", "loading", "review"}, scope : TabRef, fault : BOOLEAN,
   disk : Disk, strip : Seq(DocIds), tab : [open -> Tab], active : DocIds,
   prompt : Prompt, gen : GenRef, resolved : SUBSET DocIds,
   slot : SaveAsIntent, large : LargeOpen, external : ExternalChange,
   requests : Seq(Request), dialogs : SUBSET Dialog, opening : Opening]

IsState(s) ==
  /\ DOMAIN s.docs \subseteq DocIds /\ DOMAIN s.tab \subseteq DocIds
  /\ s \in States(DOMAIN s.docs, DOMAIN s.tab)
-----------------------------------------------------------------------------
(* Fresh identities *)

LiveDocs(s) ==
  DOMAIN s.docs \cup s.resolved \cup {d.tab : d \in s.dialogs}
    \cup {s.slot.tab, s.external.tab, s.prompt.tab, s.scope, s.opening.last}

LiveGens(s) ==
  {d.gen : d \in s.dialogs} \cup {s.gen, s.slot.gen, s.external.gen}

LiveStamps(s) ==
  DiskStamps(s.disk) \cup {s.tab[id].stamp : id \in DOMAIN s.tab}

LiveDialogs(s) == {d.id : d \in s.dialogs}

FreshDoc(s)    == CHOOSE d \in DocIds : d \notin LiveDocs(s)
FreshGen(s)    == CHOOSE g \in Gens : g \notin LiveGens(s)
FreshStamp(s)  == CHOOSE t \in Stamps : t \notin LiveStamps(s)
FreshDialog(s) == CHOOSE d \in 1 .. MaxDialogs : d \notin LiveDialogs(s)

\* Bounds: the identities a handler may create are to be had.
Room(s) == /\ DocIds \ LiveDocs(s) # {}
           /\ Gens \ LiveGens(s) # {}
           /\ Stamps \ LiveStamps(s) # {}

DialogRoom(s) == (1 .. MaxDialogs) \ LiveDialogs(s) # {}
-----------------------------------------------------------------------------
(* Tabs *)

HasTab(s, id) == id \in DOMAIN s.tab

IndexOf(s, id) == CHOOSE i \in DOMAIN s.strip : s.strip[i] = id

\* PathOf falls back to the active tab when the tab is gone.
PathOf(s, id) == s.tab[IF HasTab(s, id) THEN id ELSE s.active].path

\* The tabs FindIndexByPath could find.
BoundTo(s, path) == {id \in DOMAIN s.tab : s.tab[id].path = path}

Bug_DecisionIgnoresPrompt(s) ==
  s.large # NoLarge \/ s.external # NoExternal \/ SpellcheckReviewActive(s)

Bug_DecisionIgnoresReview(s) ==
  s.prompt # NoPrompt \/ s.large # NoLarge \/ s.external # NoExternal

DecisionActive(s) ==
  \/ s.prompt # NoPrompt
  \/ s.large # NoLarge
  \/ s.external # NoExternal
  \/ SpellcheckReviewActive(s)

Queue(s, request) == [s EXCEPT !.requests = Append(@, request)]

Activate(s, id) == [ActivateDocument(s, id) EXCEPT !.active = id]

Bug_ShowTabInStripOnly(s, id) ==
  IF s.active # id /\ HasTab(s, id) THEN [s EXCEPT !.active = id] ELSE s

\* A decision brings the tab it names to the front.
ShowTab(s, id) ==
  IF s.active # id /\ HasTab(s, id) THEN Activate(s, id) ELSE s

AppendTab(s, id, record) ==
  [s EXCEPT !.strip = Append(@, id),
            !.tab   = [t \in DOMAIN s.tab \cup {id} |->
                         IF t = id THEN record ELSE s.tab[t]]]

ForgetTab(s, id) ==
  [s EXCEPT !.strip = RemoveAt(@, IndexOf(s, id)),
            !.tab   = [t \in DOMAIN s.tab \ {id} |-> s.tab[t]]]

Bug_RemoveTabClosesFirst(s, id) ==
  LET i    == IndexOf(s, id)
      next == s.strip[IF i < Len(s.strip) THEN i + 1 ELSE i - 1]
      left == ForgetTab(CloseDocument(s, id), id)
  IN  IF Len(s.strip) = 1 THEN s
      ELSE IF id = s.active THEN Activate(left, next) ELSE left

\* Closing the last tab leaves a fresh untitled one. Otherwise the right
\* neighbour (else the left one) of a closed active tab becomes active.
RemoveTab(s, id) ==
  LET fresh    == FreshDoc(s)
      created  == Activate(CreateDocument(s, fresh), fresh)
      i        == IndexOf(s, id)
      next     == s.strip[IF i < Len(s.strip) THEN i + 1 ELSE i - 1]
      left     == ForgetTab(CloseDocument(
                    IF id = s.active THEN Activate(s, next) ELSE s, id), id)
  IN  IF Len(s.strip) = 1
      THEN AppendTab(ForgetTab(CloseDocument(created, id), id), fresh, Untitled)
      ELSE [left EXCEPT !.active = left.editing]
-----------------------------------------------------------------------------
(* The dirty-close prompt *)

Bug_BeginPromptInBackground(s, kind, id) ==
  IF s.large # NoLarge \/ s.external # NoExternal \/ s.prompt # NoPrompt THEN s
  ELSE [s EXCEPT !.prompt = [kind |-> kind, tab |-> id, awaiting |-> FALSE],
                 !.gen    = FreshGen(s)]

BeginPrompt(s, kind, id) ==
  IF s.large # NoLarge \/ s.external # NoExternal \/ s.prompt # NoPrompt THEN s
  ELSE ShowTab([s EXCEPT !.prompt = [kind |-> kind, tab |-> id,
                                     awaiting |-> FALSE],
                         !.gen    = FreshGen(s)], id)

ClearDirtyCloseState(s) == [s EXCEPT !.resolved = {}, !.gen = NoGen]

QueueShowSaveAs(s) ==
  Queue([s EXCEPT !.slot =
           [tab |-> IF s.prompt # NoPrompt THEN s.prompt.tab ELSE s.active,
            gen |-> IF s.prompt.awaiting THEN s.gen ELSE NoGen]], "ShowSaveAs")

UnresolvedDirty(s) ==
  {i \in DOMAIN s.strip : /\ s.strip[i] \notin s.resolved
                          /\ Modified(s, s.strip[i])}

NextWindowCloseDirty(s) ==
  s.strip[CHOOSE i \in UnresolvedDirty(s) :
            \A j \in UnresolvedDirty(s) : i <= j]

AdvanceOrAcceptWindowClose(s) ==
  IF UnresolvedDirty(s) # {}
  THEN BeginPrompt([s EXCEPT !.gen = NoGen], "window", NextWindowCloseDirty(s))
  ELSE Queue(ClearDirtyCloseState(s), "AcceptClose")

\* The prompt is answered and cleared: the close it asked about goes ahead.
\* A discarded buffer stays dirty, so the walk remembers not to ask again.
PerformClose(s) ==
  LET id     == s.prompt.tab
      closed == [s EXCEPT !.prompt = NoPrompt]
      asked  == [closed EXCEPT !.resolved =
                   @ \cup (IF HasDocument(s, id) /\ Modified(s, id)
                           THEN {id} ELSE {})]
  IN  IF s.prompt.kind = "window" THEN AdvanceOrAcceptWindowClose(asked)
      ELSE IF HasTab(s, id) THEN RemoveTab(ClearDirtyCloseState(closed), id)
      ELSE ClearDirtyCloseState(closed)

DismissPrompt(s) == ClearDirtyCloseState([s EXCEPT !.prompt = NoPrompt])

\* UnsavedChangesPrompt::Choose(Save) without a path, then NeedSaveAs.
AwaitSaveAs(s) == QueueShowSaveAs([s EXCEPT !.prompt.awaiting = TRUE])

Bug_SaveIncompleteDismisses(s) == DismissPrompt(s)

NotifySaveIncomplete(s) == [s EXCEPT !.prompt.awaiting = FALSE]
-----------------------------------------------------------------------------
(* Saving *)

BeginExternalChange(s, id, path, gen) ==
  IF s.external # NoExternal THEN s
  ELSE ShowTab([s EXCEPT !.external = [tab |-> id, path |-> path,
                                       gen |-> gen]], id)

Bug_SaveUnguarded(s, id, path, unconditional, io) ==
  IF ~ HasTab(s, id) \/ BoundTo(s, path) \ {id} # {} THEN "refused"
  ELSE WriteStatus(s.disk, path, NoStamp, io)

\* Only a save to the bound path is guarded by the tab's stamp.
SaveStatus(s, id, path, unconditional, io) ==
  IF ~ HasTab(s, id) \/ BoundTo(s, path) \ {id} # {} THEN "refused"
  ELSE WriteStatus(s.disk, path,
         IF ~ unconditional /\ s.tab[id].path = path
         THEN s.tab[id].stamp ELSE NoStamp, io)

\* The bytes reach the disk, and the tab is bound to what was written.
Stored(s, id, path) ==
  LET stamp == FreshStamp(s)
  IN  [MarkSaved(s, id) EXCEPT
         !.disk[path] = FileOf(s.docs[id].text, stamp),
         !.tab[id]    = [path |-> path, stamp |-> stamp]]

SaveToPath(s, id, path, unconditional, gen, io) ==
  CASE SaveStatus(s, id, path, unconditional, io) = "success" ->
         Stored(s, id, path)
    [] SaveStatus(s, id, path, unconditional, io) = "changed" ->
         BeginExternalChange(s, id, path, gen)
    [] OTHER -> s

Bug_ContinuesByTab(s, id, gen) == s.prompt.awaiting /\ s.prompt.tab = id

\* A Save As result answers the very prompt on screen.
Continues(s, id, gen) ==
  /\ gen # NoGen /\ gen = s.gen
  /\ s.prompt.awaiting /\ s.prompt.tab = id

Bug_SettleNothing(s, id) == s

\* A successful Save As supersedes a conflict card its tab left behind.
Settle(s, id) ==
  IF s.external.tab = id THEN [s EXCEPT !.external = NoExternal] ELSE s

ApplySaveResult(s, id, accepted, path, gen, io) ==
  LET saved   == SaveToPath(s, id, path, FALSE, gen, io)
      success == SaveStatus(s, id, path, FALSE, io) = "success"
      GaveUp(n) == IF Continues(s, id, gen) THEN NotifySaveIncomplete(n) ELSE n
  IN  IF ~ accepted THEN GaveUp(s)
      ELSE IF ~ HasTab(s, id) THEN s
      ELSE IF success
           THEN IF Continues(s, id, gen) THEN PerformClose(Settle(saved, id))
                ELSE Settle(saved, id)
      ELSE IF saved.external # NoExternal THEN saved
      ELSE GaveUp(saved)
-----------------------------------------------------------------------------
(* Opening *)

LoadOpenedDocument(s, id, path) ==
  LoadInitialBuffer(
    Activate(AppendTab(CreateDocument(s, id), id,
               [path |-> path, stamp |-> s.disk[path].stamp]), id),
    s.disk[path].text)

Bug_LargePromptKeepsPath(s, path, rest) ==
  IF DecisionActive(s) THEN s
  ELSE [s EXCEPT !.large = [path |-> path, rest |-> <<path>> \o rest]]

BeginLargeFilePrompt(s, path, rest) ==
  IF DecisionActive(s) THEN s
  ELSE [s EXCEPT !.large = [path |-> path, rest |-> rest]]

\* OpenPathList reads its files one after the other while other programs may
\* write them: the call is begun here and OpenNextPath is one turn of its
\* loop. Nothing else of the application runs until the list is done.
OpenPathList(s, names) == [s EXCEPT !.opening = [rest |-> names, last |-> NoDoc]]

ShowLast(s, last) ==
  [(IF last # NoDoc /\ last # s.active THEN Activate(s, last) ELSE s)
     EXCEPT !.opening = NoOpening]

OpenNextPath(s, io) ==
  LET path      == Normalize[Head(s.opening.rest)]
      rest      == Tail(s.opening.rest)
      status    == ReadStatus(s.disk, path, "warning", io)
      id        == FreshDoc(s)
      Next(n, last) == IF rest = << >> THEN ShowLast(n, last)
                       ELSE [n EXCEPT !.opening = [rest |-> rest,
                                                   last |-> last]]
  IN  IF BoundTo(s, path) # {}
      THEN Next(s, CHOOSE t \in BoundTo(s, path) : TRUE)
      ELSE CASE status = "tooLarge" ->
                  BeginLargeFilePrompt(ShowLast(s, s.opening.last), path, rest)
             [] status = "failed"   -> Next(s, s.opening.last)
             [] status = "success"  -> Next(LoadOpenedDocument(s, id, path), id)

ApplyOpenPaths(s, names) ==
  IF DecisionActive(s) THEN s ELSE OpenPathList(s, names)

\* Process startup: paths are the distinct arguments in order, last is the one
\* named last. Every file is read before a tab is touched; document ids are
\* handed out in order from the initial document's.
StartupReadable(s, paths) ==
  \A i \in DOMAIN paths : ReadStatus(s.disk, paths[i], "hard", "ok") = "success"

LoadStartupFiles(s, paths, last) ==
  [s EXCEPT
     !.docs    = [id \in DOMAIN paths |-> AtSavePoint(s.disk[paths[id]].text)],
     !.strip   = [id \in DOMAIN paths |-> id],
     !.tab     = [id \in DOMAIN paths |->
                    [path |-> paths[id], stamp |-> s.disk[paths[id]].stamp]],
     !.active  = last,
     !.editing = last]
-----------------------------------------------------------------------------
(* Requests from the user *)

NewTab(s) ==
  LET id == FreshDoc(s)
  IN  IF DecisionActive(s) THEN s
      ELSE Activate(AppendTab(CreateDocument(s, id), id, Untitled), id)

ActivateTab(s, id) ==
  IF DecisionActive(s) \/ id = s.active \/ ~ HasTab(s, id) THEN s
  ELSE Activate(s, id)

CycleTab(s, delta) ==
  ActivateTab(s, s.strip[((IndexOf(s, s.active) - 1 + delta) % Len(s.strip)) + 1])

Bug_CloseTabAsksActive(s, id) ==
  IF DecisionActive(s) \/ ~ HasTab(s, id) THEN s
  ELSE IF Modified(s, s.active) THEN BeginPrompt(s, "tab", id)
  ELSE RemoveTab(s, id)

CloseTab(s, id) ==
  IF DecisionActive(s) \/ ~ HasTab(s, id) THEN s
  ELSE IF Modified(s, id) THEN BeginPrompt(s, "tab", id)
  ELSE RemoveTab(s, id)

RequestOpen(s) == IF DecisionActive(s) THEN s ELSE Queue(s, "ShowOpen")

RequestSave(s, io) ==
  LET path == s.tab[s.active].path
  IN  IF DecisionActive(s) THEN s
      ELSE IF path = NoPath THEN QueueShowSaveAs(s)
      ELSE SaveToPath(s, s.active, path, FALSE, NoGen, io)

RequestSaveAs(s) == IF DecisionActive(s) THEN s ELSE QueueShowSaveAs(s)

Bug_RequestCloseChecksActive(s) ==
  IF DecisionActive(s) THEN s
  ELSE IF Modified(s, s.active) THEN BeginPrompt(s, "window", s.active)
  ELSE Queue(s, "AcceptClose")

RequestClose(s) ==
  LET walk == [s EXCEPT !.resolved = {}]
  IN  IF DecisionActive(s) THEN s
      ELSE IF UnresolvedDirty(walk) # {}
      THEN BeginPrompt(walk, "window", NextWindowCloseDirty(walk))
      ELSE Queue(walk, "AcceptClose")
-----------------------------------------------------------------------------
(* Answers to the three decisions *)

\* A save that fails or finds a conflict leaves the dirty-close card up.
Choose(s, choice, io) ==
  LET id    == s.prompt.tab
      path  == PathOf(s, id)
      saved == SaveToPath(s, id, path, FALSE, s.gen, io)
  IN  IF s.prompt = NoPrompt \/ s.external # NoExternal THEN s
      ELSE CASE choice = "cancel"  -> DismissPrompt(s)
             [] choice = "discard" -> PerformClose(s)
             [] choice = "save" /\ path = NoPath -> AwaitSaveAs(s)
             [] choice = "save" /\ path # NoPath ->
                  IF SaveStatus(s, id, path, FALSE, io) = "success"
                  THEN PerformClose(saved) ELSE saved

Bug_OpenConfirmedAnew(s, path, io) ==
  IF ReadStatus(s.disk, path, "hard", io) # "success" THEN s
  ELSE LoadOpenedDocument(s, FreshDoc(s), path)

\* Open on the card retries under the hard limit; meanwhile a delayed Save As
\* may have bound the path to a tab.
OpenConfirmed(s, path, io) ==
  IF ReadStatus(s.disk, path, "hard", io) # "success" THEN s
  ELSE IF BoundTo(s, path) # {}
  THEN Activate(s, CHOOSE t \in BoundTo(s, path) : TRUE)
  ELSE LoadOpenedDocument(s, FreshDoc(s), path)

ChooseLargeFile(s, choice, io) ==
  LET closed == [s EXCEPT !.large = NoLarge]
      after  == IF choice = "open" THEN OpenConfirmed(closed, s.large.path, io)
                ELSE closed
  IN  IF s.large = NoLarge \/ s.external # NoExternal THEN s
      ELSE IF s.large.rest = << >> THEN after
      ELSE OpenPathList(after, s.large.rest)

\* The conflict came from the close prompt that is still on screen.
InitiatingPrompt(s, pending) ==
  /\ pending.gen # NoGen /\ pending.gen = s.gen
  /\ s.prompt # NoPrompt /\ s.prompt.tab = pending.tab

ContinueDirtyClose(s, pending) ==
  IF InitiatingPrompt(s, pending) THEN PerformClose(s) ELSE s

Overwrite(s, pending, io) ==
  LET saved == SaveToPath(s, pending.tab, pending.path, TRUE, NoGen, io)
  IN  IF SaveStatus(s, pending.tab, pending.path, TRUE, io) = "success"
      THEN ContinueDirtyClose([saved EXCEPT !.external = NoExternal], pending)
      ELSE saved

\* LoadInitialBuffer fills whatever document the editor is on.
Reload(s, pending, io) ==
  LET shown  == ShowTab(s, pending.tab)
      loaded == [LoadInitialBuffer(shown, s.disk[pending.path].text) EXCEPT
                   !.tab[pending.tab].stamp = s.disk[pending.path].stamp,
                   !.external               = NoExternal]
  IN  IF ReadStatus(s.disk, pending.path, "hard", io) = "success"
      THEN ContinueDirtyClose(loaded, pending) ELSE s

ChooseExternalChange(s, choice, io) ==
  LET pending == s.external
      closed  == [s EXCEPT !.external = NoExternal]
  IN  IF pending = NoExternal THEN s
      ELSE IF ~ HasTab(s, pending.tab) \/ s.tab[pending.tab].path # pending.path
      THEN closed
      ELSE CASE choice = "cancel" ->
                  IF s.prompt.awaiting /\ InitiatingPrompt(s, pending)
                  THEN NotifySaveIncomplete(closed) ELSE closed
             [] choice = "saveAs" ->
                  IF InitiatingPrompt(s, pending) THEN AwaitSaveAs(closed)
                  ELSE Queue([closed EXCEPT !.slot = [tab |-> pending.tab,
                                                      gen |-> NoGen]],
                             "ShowSaveAs")
             [] choice = "overwrite" -> Overwrite(s, pending, io)
             [] choice = "reload"    -> Reload(s, pending, io)
-----------------------------------------------------------------------------
(* File dialogs *)

BeginOpenDialog(s) ==
  [s EXCEPT !.dialogs = @ \cup {[id |-> FreshDialog(s), kind |-> "open",
                                 tab |-> NoDoc, gen |-> NoGen]}]

\* Takes the intent out of the slot, or the active tab when it is empty.
BeginSaveAsDialog(s) ==
  [s EXCEPT !.slot    = NoSlot,
            !.dialogs = @ \cup
              {[id |-> FreshDialog(s), kind |-> "saveAs",
                tab |-> IF s.slot.tab # NoDoc THEN s.slot.tab ELSE s.active,
                gen |-> s.slot.gen]}]

\* The portal could not show the dialog.
AbandonDialog(s, dialog) ==
  LET gone == [s EXCEPT !.dialogs = @ \ {dialog}]
  IN  IF /\ dialog.kind = "saveAs"
         /\ dialog.gen # NoGen /\ dialog.gen = s.gen /\ s.prompt.awaiting
      THEN NotifySaveIncomplete(gone) ELSE gone

HandleDialogResult(s, dialog, accepted, names, io) ==
  LET gone == [s EXCEPT !.dialogs = @ \ {dialog}]
  IN  IF dialog.kind = "open"
      THEN IF accepted THEN ApplyOpenPaths(gone, names) ELSE gone
      ELSE IF ~ HasTab(gone, dialog.tab) THEN gone
      ELSE ApplySaveResult(gone, dialog.tab, accepted, Normalize[Head(names)],
                           dialog.gen, io)
=============================================================================
