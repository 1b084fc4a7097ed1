---------------------------- MODULE Application ----------------------------
(***************************************************************************)
(* The editor as one process: RunWaylandApplication's loop delivers the    *)
(* results of portals, the clipboard and the spelling worker, then the     *)
(* batch of inputs; ApplicationUi lets only the topmost card answer;       *)
(* DocumentWorkspace and ApplicationEditor do the work. Other programs     *)
(* write the files at any moment.                                          *)
(*                                                                         *)
(* One action is one call the loop makes into ApplicationUi, with every    *)
(* change the handlers below it make.                                      *)
(***************************************************************************)
EXTENDS DocumentWorkspace

CONSTANTS MaxTabs,    \* bound: open tabs
          Typed,      \* bound: the contents an edit may arrive at
          Foreign,    \* bound: the contents other programs write
          Disks,      \* bound: the file systems the process starts on
          MaxList,    \* bound: names in one Open answer
          Faults,     \* what the operating system may do to a file call
          Features    \* the activities an instance explores

ASSUME ApplicationConstants ==
  /\ MaxTabs \in Nat \ {0}
  /\ MaxTabs < MaxDocs
  /\ MaxList \in Nat \ {0}
  /\ Typed \subseteq Texts /\ Foreign \subseteq Texts
  /\ Disks \subseteq Disk
  /\ "ok" \in Faults /\ Faults \subseteq {"ok", "fails", "blind"}
  /\ Features \subseteq {"startup", "recent", "open", "new", "tabs", "close",
                           "undo", "paste", "spelling", "writers"}

VARIABLES
  \* ApplicationEditor and the spelling card
  docs, editing, paste, spell, scope, fault,
  \* the file system
  disk,
  \* DocumentWorkspace
  strip, tab, active, prompt, gen, resolved, slot, large, external,
  requests, dialogs, opening,
  \* the loop: where it is in a turn, and quitAccepted
  turn, quit,
  \* history: the modified contents the user agreed to lose in this walk
  forgone

workspaceVars == <<strip, tab, active, prompt, gen, resolved, slot, large,
                   external, requests, dialogs, opening>>
editorVars    == <<docs, editing, paste, spell, scope, fault>>
vars          == <<editorVars, disk, workspaceVars, turn, quit, forgone>>

S == [docs |-> docs, editing |-> editing, paste |-> paste, spell |-> spell,
      scope |-> scope, fault |-> fault, disk |-> disk, strip |-> strip,
      tab |-> tab, active |-> active, prompt |-> prompt, gen |-> gen,
      resolved |-> resolved, slot |-> slot, large |-> large,
      external |-> external, requests |-> requests, dialogs |-> dialogs,
      opening |-> opening]

\* The handlers leave the application in state n.
Become(n) ==
  /\ docs' = n.docs /\ editing' = n.editing /\ paste' = n.paste
  /\ spell' = n.spell /\ scope' = n.scope /\ fault' = n.fault
  /\ disk' = n.disk
  /\ strip' = n.strip /\ tab' = n.tab /\ active' = n.active
  /\ prompt' = n.prompt /\ gen' = n.gen /\ resolved' = n.resolved
  /\ slot' = n.slot /\ large' = n.large /\ external' = n.external
  /\ requests' = n.requests /\ dialogs' = n.dialogs /\ opening' = n.opening

Accepting(n) == quit \/ "AcceptClose" \in ToSet(n.requests)

\* A step inside the turn; lost is what the user gives up by it.
Step(n, lost) ==
  /\ Become(n)
  /\ forgone' = IF n.prompt # NoPrompt \/ Accepting(n)
                THEN forgone \cup lost ELSE {}
  /\ UNCHANGED <<turn, quit>>

\* The loop is between two calls: no list of files is half opened, nothing
\* was thrown.
Between == opening = NoOpening /\ ~ fault

\* Bounds: there is room for what a handler may create.
Ready == Between /\ Room(S)

\* An input is handled once the requests of the one before were taken.
Input == turn = "inputs" /\ requests = << >> /\ Ready /\ DialogRoom(S)

Result == turn = "results" /\ Ready

\* The topmost card, the only one that sees keys and clicks. (A file-error
\* card above them only delays the answer.)
Card == CASE spell # "closed"         -> "spelling"
          [] spell = "closed" /\ external # NoExternal -> "external"
          [] spell = "closed" /\ external = NoExternal /\ large # NoLarge
               -> "large"
          [] spell = "closed" /\ external = NoExternal /\ large = NoLarge
             /\ prompt # NoPrompt -> "unsaved"
          [] OTHER -> "none"

NameLists == UNION {[1 .. n -> Names] : n \in 1 .. MaxList}
-----------------------------------------------------------------------------
Init ==
  /\ docs = [id \in {1} |-> AtSavePoint(Empty)] /\ editing = 1 /\ paste = FALSE
  /\ spell = "closed" /\ scope = NoDoc /\ fault = FALSE
  /\ disk \in Disks
  /\ \A a, b \in Paths : /\ a # b
                         /\ disk[a].exists /\ disk[b].exists
                         => disk[a].stamp # disk[b].stamp
  /\ strip = <<1>> /\ tab = [id \in {1} |-> Untitled] /\ active = 1
  /\ prompt = NoPrompt /\ gen = NoGen /\ resolved = {} /\ slot = NoSlot
  /\ large = NoLarge /\ external = NoExternal
  /\ requests = << >> /\ dialogs = {} /\ opening = NoOpening
  /\ turn = "start" /\ quit = FALSE /\ forgone = {}

StartInteractive ==
  /\ turn = "start"
  /\ turn' = "results"
  /\ UNCHANGED <<editorVars, disk, workspaceVars, quit, forgone>>

\* Paths on the command line: the distinct ones in order, and the last one.
StartWithFiles ==
  /\ turn = "start" /\ "startup" \in Features
  /\ \E n \in 1 .. MaxTabs : \E paths \in [1 .. n -> Paths], last \in 1 .. n :
       /\ \A i, j \in 1 .. n : i # j => paths[i] # paths[j]
       /\ IF StartupReadable(S, paths)
          THEN Become(LoadStartupFiles(S, paths, last)) /\ turn' = "results"
          ELSE Become(S) /\ turn' = "left"
  /\ UNCHANGED <<quit, forgone>>
-----------------------------------------------------------------------------
(* The first half of a turn: results *)

DialogResult ==
  /\ Result
  /\ \E d \in dialogs, accepted \in BOOLEAN, names \in NameLists,
        io \in Faults :
       /\ d.kind = "saveAs" => Len(names) = 1
       /\ d.kind = "open"   => io = "ok"
       /\ ~ accepted => io = "ok"
       /\ d.kind = "open" /\ accepted => Len(strip) + Len(names) <= MaxTabs
       /\ Step(HandleDialogResult(S, d, accepted, names, io), {})

OpenNext ==
  /\ opening # NoOpening /\ Room(S)
  /\ \E io \in Faults : Step(OpenNextPath(S, io), {})

PasteResult ==
  /\ Result /\ requests = << >> /\ paste
  /\ \E text \in Typed : Step(HandleClipboardResult(S, text), {})

\* Dictionary discovery is answered with at least one dictionary.
SpellcheckResult ==
  /\ Result /\ requests = << >> /\ spell = "loading" /\ scope # NoDoc
  /\ Step(StartSpellcheckSession(S), {})

EndResults ==
  /\ turn = "results" /\ Between
  /\ turn' = "inputs"
  /\ UNCHANGED <<editorVars, disk, workspaceVars, quit, forgone>>
-----------------------------------------------------------------------------
(* The second half: requests the handlers queued, then inputs *)

\* A dialog request becomes a portal dialog, or is abandoned when the portal
\* cannot start it.
TakeDialogRequest ==
  /\ turn = "inputs" /\ Between /\ DialogRoom(S) /\ requests # << >>
  /\ Head(requests) # "AcceptClose"
  /\ LET popped == [S EXCEPT !.requests = Tail(@)]
         begun  == IF Head(requests) = "ShowOpen" THEN BeginOpenDialog(popped)
                   ELSE BeginSaveAsDialog(popped)
     IN  \/ Step(begun, {})
         \/ \E d \in begun.dialogs \ dialogs : Step(AbandonDialog(begun, d), {})

AcceptClose ==
  /\ turn = "inputs" /\ Between /\ requests # << >>
  /\ Head(requests) = "AcceptClose"
  /\ Become([S EXCEPT !.requests = Tail(@)])
  /\ quit' = TRUE
  /\ UNCHANGED <<turn, forgone>>

\* The compositor asks the window to close; an accepted close leaves at once.
WindowClose ==
  /\ Input /\ ~ quit
  /\ LET n == RequestClose(S)
     IN  IF "AcceptClose" \in ToSet(n.requests)
         THEN /\ Become([n EXCEPT !.requests = << >>, !.spell = "closed",
                                  !.scope = NoDoc])
              /\ quit' = TRUE /\ turn' = "left" /\ UNCHANGED forgone
         ELSE Step(n, {})

QuitAction ==
  /\ Input /\ Card = "none"
  /\ Step(RequestClose(S), {})

Edit ==
  /\ Input /\ Card = "none"
  /\ \E text \in Typed : Step(EditText(S, text), {})

Undo ==
  /\ Input /\ Card = "none" /\ "undo" \in Features
  /\ Modified(S, editing)
  /\ Step(UndoToSavePoint(S), {})

Paste ==
  /\ Input /\ Card = "none" /\ "paste" \in Features
  /\ Step(RequestClipboardPaste(S), {})

TabActions ==
  /\ Input /\ Card = "none"
  /\ \/ "new" \in Features /\ Len(strip) < MaxTabs /\ Step(NewTab(S), {})
     \/ "tabs" \in Features /\ \E id \in DOMAIN tab : Step(ActivateTab(S, id), {})
     \/ "tabs" \in Features /\ \E delta \in {-1, 1} : Step(CycleTab(S, delta), {})

\* Ctrl+W, File > Close Tab, or the close box of any tab.
Close ==
  /\ Input /\ Card = "none" /\ "close" \in Features
  /\ \E id \in DOMAIN tab : Step(CloseTab(S, id), {})

FileActions ==
  /\ Input /\ Card = "none"
  /\ \/ "open" \in Features /\ Step(RequestOpen(S), {})
     \/ Step(RequestSaveAs(S), {})
     \/ \E io \in Faults : Step(RequestSave(S, io), {})

\* A Recent entry, opened without a dialog.
OpenRecent ==
  /\ Input /\ Card = "none" /\ "recent" \in Features /\ Len(strip) < MaxTabs
  /\ \E name \in Names : Step(ApplyOpenPaths(S, <<name>>), {})

AnswerUnsaved ==
  /\ Input /\ Card = "unsaved"
  /\ \/ Step(Choose(S, "cancel", "ok"), {})
     \/ Step(Choose(S, "discard", "ok"), {<<prompt.tab, docs[prompt.tab].text>>})
     \/ \E io \in Faults : Step(Choose(S, "save", io), {})

AnswerLargeFile ==
  /\ Input /\ Card = "large"
  /\ Len(strip) + 1 + Len(large.rest) <= MaxTabs
  /\ \/ Step(ChooseLargeFile(S, "cancel", "ok"), {})
     \/ \E io \in Faults : Step(ChooseLargeFile(S, "open", io), {})

AnswerExternalChange ==
  /\ Input /\ Card = "external"
  /\ \/ Step(ChooseExternalChange(S, "cancel", "ok"), {})
     \/ Step(ChooseExternalChange(S, "saveAs", "ok"), {})
     \/ \E io \in Faults, choice \in {"overwrite", "reload"} :
          Step(ChooseExternalChange(S, choice, io), {})

OpenSpelling ==
  /\ Input /\ Card = "none" /\ "spelling" \in Features
  /\ Step(OpenSpellcheck(S), {})

\* Replace in the reviewed document, or close the card.
AnswerSpelling ==
  /\ Input /\ Card = "spelling"
  /\ \/ Step(CloseSpellcheck(S), {})
     \/ spell = "review" /\ \E text \in Typed : Step(EditText(S, text), {})

Bug_EndTurnForgetsQuit ==
  /\ turn = "inputs" /\ requests = << >> /\ Between
  /\ Become(S) /\ turn' = "results"
  /\ UNCHANGED <<quit, forgone>>

\* The batch is done. PrepareForExit closes the spelling card.
EndTurn ==
  /\ turn = "inputs" /\ requests = << >> /\ Between
  /\ IF quit THEN Become(CloseSpellcheck(S)) ELSE Become(S)
  /\ turn' = IF quit THEN "left" ELSE "results"
  /\ UNCHANGED <<quit, forgone>>
-----------------------------------------------------------------------------
\* Any other program replaces, rewrites or removes a file.
OtherProgram ==
  /\ "writers" \in Features /\ turn \notin {"start", "left"} /\ Room(S)
  /\ \E p \in Paths :
       \/ disk[p].exists /\ disk' = [disk EXCEPT ![p] = Absent]
       \/ \E text \in Foreign :
            disk' = [disk EXCEPT ![p] = FileOf(text, FreshStamp(S))]
  /\ UNCHANGED <<editorVars, workspaceVars, turn, quit, forgone>>

\* The process is over: it left the loop, or an exception reached main.
Over == turn = "left" \/ fault

Terminated == Over /\ UNCHANGED vars

Next ==
  \/ StartInteractive \/ StartWithFiles
  \/ DialogResult \/ OpenNext \/ PasteResult \/ SpellcheckResult \/ EndResults
  \/ TakeDialogRequest \/ AcceptClose \/ WindowClose \/ QuitAction
  \/ Edit \/ Undo \/ Paste \/ TabActions \/ Close \/ FileActions \/ OpenRecent
  \/ AnswerUnsaved \/ AnswerLargeFile \/ AnswerExternalChange
  \/ OpenSpelling \/ AnswerSpelling
  \/ EndTurn \/ OtherProgram \/ Terminated

Spec == Init /\ [][Next]_vars

\* The loop always goes on. TakeInputs returns a finite batch, so however
\* busy the user is the turn comes to its end: strong fairness of EndTurn.
\* No fairness of users, portals, the clipboard, the worker or the writers.
Fairness ==
  /\ WF_vars(EndResults) /\ WF_vars(OpenNext)
  /\ WF_vars(TakeDialogRequest) /\ WF_vars(AcceptClose)
  /\ SF_vars(EndTurn)

FairSpec == Spec /\ Fairness
-----------------------------------------------------------------------------
(* Properties *)

\* The state is one the handlers are defined on.
TypeOK ==
  /\ IsState(S)
  /\ turn \in {"start", "results", "inputs", "left"}
  /\ quit \in BOOLEAN
  /\ forgone \subseteq DocIds \X Texts

\* The strip shows every retained document once, and the active tab and the
\* document being edited are among them: nothing leaks, nothing dangles.
TabsAreDocuments ==
  /\ ToSet(strip) = DOMAIN docs /\ IsInjective(strip)
  /\ DOMAIN tab = DOMAIN docs
  /\ active \in DOMAIN docs /\ editing \in DOMAIN docs

\* No handler ever closes the active document or names one that is gone
\* (ApplicationEditor would throw and the process would end).
NoEditorMisuse == ~ fault

\* What the workspace calls the active tab is what the user is typing into.
ActiveIsEdited == active = editing

\* "Save As must not create a second binding": one tab per normalized path,
\* however opens, recents, large-file answers and delayed saves interleave.
OneTabPerPath ==
  \A a, b \in DOMAIN tab :
    tab[a].path = tab[b].path /\ tab[a].path # NoPath => a = b

\* A tab whose stamp is the file's knows that file: its save point holds the
\* file's bytes. So a guarded save replaces only what the user has seen, and
\* a tab that looks clean is the file.
StampVouchesForSavePoint ==
  \A id \in DOMAIN tab \cap DOMAIN docs :
    /\ tab[id].path # NoPath
    /\ DestinationMatches(disk, tab[id].path, tab[id].stamp)
    => docs[id].saved = disk[tab[id].path].text

\* The external-change card names a tab that is still there and still bound
\* to the path the card shows, and shows a conflict that still exists: the
\* file is not the one that tab knows, although delayed Save As results may
\* save, rebind or close tabs under the card.
ConflictIsCurrent ==
  external # NoExternal =>
    /\ external.tab \in DOMAIN tab
    /\ tab[external.tab].path = external.path
    /\ disk[external.path].exists =>
         disk[external.path].stamp # tab[external.tab].stamp

\* "The large-file decision does not overlap a dirty-close prompt."
DecisionsDoNotOverlap == ~ (large # NoLarge /\ prompt # NoPrompt)

\* While no conflict card covers it, the dirty-close card names the active
\* tab ("keep it active for path, save, and subtitle").
PromptNamesActive ==
  prompt # NoPrompt /\ external = NoExternal => active = prompt.tab

\* An accepted close is not lost among the requests, results, half opened
\* lists and further inputs around it: the process leaves.
AcceptedCloseLeaves == "AcceptClose" \in ToSet(requests) ~> turn = "left"

\* When the window close is accepted, every modified document is one whose
\* very contents the user chose to discard in this walk.
AcceptedCloseWasAgreed ==
  "AcceptClose" \in ToSet(requests) =>
    \A id \in DOMAIN docs :
      docs[id].clean \/ <<id, docs[id].text>> \in forgone

\* The same when the process has left: nothing was typed into a modified
\* document after the close was accepted.  The loop does not keep it: it delivers
\* the rest of the batch that quit came in, and no run states it.
AcceptedCloseLosesNothing ==
  turn = "left" /\ quit =>
    \A id \in DOMAIN docs :
      docs[id].clean \/ <<id, docs[id].text>> \in forgone

Stores(text) ==
  \E p \in Paths : /\ disk'[p] # disk[p]
                    /\ disk'[p].exists /\ disk'[p].text = text

\* Modified contents that go are written by the step or its card named them.
SparesEdits ==
  \A id \in DOMAIN docs :
    /\ ~ docs[id].clean
    /\ \/ id \notin DOMAIN docs'
       \/ docs'[id].clean /\ docs'[id].text \notin {docs[id].text, docs[id].saved}
    => \/ Stores(docs[id].text)
       \/ Card = "unsaved" /\ prompt.tab = id
       \/ Card = "external" /\ external.tab = id

\* Unsaved contents vanish from a document (it is closed, or another file is
\* loaded over it) only when they are written in the same step or the card
\* on top, naming that document, was answered.
EditsVanishOnlyByConsent == [][SparesEdits]_vars

\* The conflict card on top is answered for its own tab.
SparesOtherTabs ==
  Card = "external" /\ turn = "inputs" =>
    \A id \in (DOMAIN docs \cap DOMAIN docs') \ {external.tab} :
      docs'[id] = docs[id]

\* Answering the external-change card touches no document but the captured
\* tab's ("Reload rereads ... into the same tab").
ConflictAnswerStaysInItsTab == [][SparesOtherTabs]_vars

\* A file the step replaces is known to a tab, named by a dialog or on the card.
ReplacesKnowingly ==
  ~ OtherProgram =>
    \A p \in Paths : disk[p].exists /\ disk'[p] # disk[p] =>
      \/ \E id \in DOMAIN tab : /\ tab[id].path = p
                                /\ tab[id].stamp = disk[p].stamp
      \/ \E d \in dialogs \ dialogs' : /\ d.kind = "saveAs"
                                       /\ tab[d.tab].path # p
      \/ Card = "external" /\ external.path = p

\* The application replaces a file only when the buffer it writes knew that
\* file, or the user named the file in Save As from elsewhere, or chose
\* Overwrite on the card that shows it.
NoBlindReplace == [][ReplacesKnowingly]_vars

\* The walk goes on, is over, or was answered.
GoesOnWalking ==
  prompt.kind = "window" /\ prompt'.kind # "window" =>
    \/ "AcceptClose" \in ToSet(requests')
    \/ Card = "unsaved" /\ turn = "inputs"

\* A window-close walk ends in an accepted close or because the user took
\* the card down; no delayed result makes it fizzle out.
WalkEndsInCloseOrCancel == [][GoesOnWalking]_vars

\* A tab closed among the results is the one whose Save As came back.
ClosesThePrompted ==
  turn = "results" =>
    \A id \in DOMAIN tab \ DOMAIN tab' :
      /\ prompt.kind = "tab" /\ prompt.tab = id /\ prompt.awaiting
      /\ \E d \in dialogs \ dialogs' : d.gen = gen /\ d.tab = id

\* A tab is never closed by a Save As that the user started for something
\* else: a result closes a tab only when it answers the prompt on screen.
ResultClosesOnlyThePromptedTab == [][ClosesThePrompted]_vars

\* A step under the review changes no text, but for an input to its document.
LeavesTheReviewed ==
  spell = "review" /\ spell' = "review" =>
    /\ editing' = editing /\ DOMAIN docs' = DOMAIN docs
    /\ \A id \in DOMAIN docs :
         docs'[id].text # docs[id].text => turn = "inputs" /\ id = editing

\* While the spelling review owns its document, only its own replacements
\* change any text: no delayed paste, open or reload gets through, and no tab
\* goes away ("ordinary editor edits, tab changes, IME delivery, and delayed
\* clipboard ... edits are blocked").
ReviewOwnsTheBuffer == [][LeavesTheReviewed]_vars

\* No document ever holds a file over the hard limit, whatever another program
\* makes of a file between the warning, the confirmation and the read.
HardLimitHolds == \A id \in DOMAIN docs : docs[id].text \notin OverHard

\* What the step loads is below the threshold, or a card or startup let it in.
LoadsLargeOnlyIfConfirmed ==
  \A id \in DOMAIN docs' :
    /\ docs'[id].text \in OverWarning
    /\ id \in DOMAIN docs => docs'[id].text \notin {docs[id].text, docs[id].saved}
    => turn = "start" \/ Card \in {"large", "external"}

\* Outside startup, contents over the warning threshold that a document does
\* not hold, nor can undo to, enter it only through a confirmed large-file card
\* or a chosen Reload.
LargeContentsAreConfirmed == [][LoadsLargeOnlyIfConfirmed]_vars

\* Tabs, documents and the dirty-close card agree, and the editor is never
\* told to do what it refuses.
TabsAgree == TabsAreDocuments /\ NoEditorMisuse /\ PromptNamesActive

\* The conflict card stays true to its tab, and the tab on top is the one
\* that is edited.
ConflictStaysInItsTab == ActiveIsEdited /\ ConflictIsCurrent

\* Edits vanish only with consent, delayed results close only the tab whose card
\* awaits them, and a walk over the dirty tabs comes to an answer.
ClosesFollowThePrompt ==
  EditsVanishOnlyByConsent /\ ResultClosesOnlyThePromptedTab /\ WalkEndsInCloseOrCancel

\* The application writes a file, and changes a document for a conflict, only
\* as far as the user could see what it does.
WritesAreWanted == NoBlindReplace /\ ConflictAnswerStaysInItsTab

\* Both size limits hold however the files change around the card.
LargeFilesAreGuarded == []HardLimitHolds /\ LargeContentsAreConfirmed
=============================================================================
