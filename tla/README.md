# A TLA+ model of the Scalpel editor

Scalpel is a Wayland text editor: a trimmed Scintilla core (`src/scintilla`), an
application layer of its own (`src/app`), and vendored lexers (`src/lexilla`).
The application layer is where state is shared between tabs, dialogs, clipboard
transfers, a spelling worker, the compositor and the file system, and where answers
arrive long after the question was asked. This directory models that layer and the
stateful parts of the editor core, checks the models with TLC, and proves theorems
about the documents, the files and the spelling review with TLAPS.

Contents: 1 the system, 2 the modules, 3 the runs, 4 the proofs, 5 where the code and
its own words disagree, 6 what is left out, 7 the plan.

## 1. The system

### Components, their state and their operations

| Component | State | Operations | What makes it correct |
|---|---|---|---|
| `DocumentWorkspace` | tabs with path and stamp, `activeId`, prompt and its generation, `windowCloseResolved`, pending Save As slot, pending large open, pending external change, dialogs in flight, queued shell requests | new, activate, cycle and close tab; open, save, save as; window close; the answers to three decisions; dialog results | no edit is lost unasked; one tab per path; a late answer acts on what it was asked for |
| `UnsavedChangesPrompt` | pending close, its tab, whether it waits for Save As | begin, choose, save incomplete, clear | the card stays until its close happened or was called off |
| `DocumentFile` | none of its own (the directory, other programs in it) | read under a size limit; write through a temporary file, guarded by a stamp | a buffer is one content the file had, under its stamp; a guarded write replaces only the file that was read; a crash leaves a whole document |
| `ApplicationEditor` | retained documents, active document, save points, document generation, spelling review | create, activate, close, load, edit, mark saved, paste, review | input reaches the document the user sees, and only it |
| `ApplicationUi` | cards, menus, find bar, emoji list, captured bar, what a press armed, pending effects | pointer, key, text-input and focus events to the topmost owner; drains requests | one owner of each device; a release fires only what it was pressed for (but for the two presses of section 5) |
| `RunWaylandApplication` | `quitAccepted` | one turn: results, requests, window close, input batch, leave | an accepted close ends the process and loses nothing |
| `FindBar` | query, selection, preedit, status, origin, pending pastes | edit, search forward and backward, text-input state | the status is about the query and document shown |
| `SpellcheckWorker`, `SpellcheckSession` | request and result slots, active generation, result pipe, dictionary; occurrence cursor and scope | discover, begin, submit, cancel, publish, take result, stop; decide, advance | no request or result is stranded; no answer of another session is applied |
| `WaylandTransfer`, `WaylandClipboard`, `WaylandPrimarySelection` | offers, sources, pipes, buffers, deadlines, callbacks | offer, copy, paste, send, advance, time out | a paste is answered once; a request is served from its own selection |
| `WaylandFileDialog`, `WaylandDbus` | predicted request path, owner, pending results, the connection's queue | show, retarget, response, owner lost | one result per dialog, early responses included |
| `WaylandTextInput` | enter/leave, commit serial, pending batch, client state | enable, commit, done, apply | a batch is applied to the state it was made for |
| `WaylandInput` | focus, buttons, axis frame, keymap, compose, repeat deadline, queue | key, pointer frame, run repeat, reset | a repeat ends with its key, catches up without a burst; a lost device leaves nothing held |
| `WaylandFrame` | damage pending, active and historical; callback; feedback | damage, begin, prepare, submit, cancel, done | every buffer is repainted where it is behind |
| `WaylandLifecycle`, `WaylandScale` | globals, bound names, proxies, sizes, outputs, scale | bind, release, replace, configure, enter and leave | what is bound exists; what depends on a global follows it |
| Scintilla core | gap buffer, line starts, markers, runs, undo and change history, decorations, folds, selections | insert, delete, undo, redo, save point, fold, select | text, lines, styles, selection and history stay consistent |

`PROJECT.json` lists every component with its status and the reason for what is
left out, and every hazard with its line and the properties aimed at it.

### How they interact

One thread runs the loop (the spelling worker has its own). A turn first applies
*results* (file dialogs, clipboard, spelling), then takes the *requests* the
handlers queued (show a dialog, accept the close), looks at the compositor's
close, and feeds the batch of *inputs* one by one, taking requests after each.
`ApplicationUi` gives an input to the topmost owner. `DocumentWorkspace` calls
`ApplicationEditor` synchronously; `ApplicationEditor` calls nobody back. Pipes, the
bus and the compositor are polled between turns. Other programs change files at any
moment.

### What is hard

* A Save As result can arrive after its tab was closed, rebound, saved by another
  result, or became the subject of a different prompt. Only a *generation* tells
  "the prompt I was opened for" from "a prompt for the same tab".
* Three decisions can be pending. Each names a tab, each moves the active tab, and
  results go on arriving under all of them. A list of paths being opened is suspended
  by a large-file card and resumed after other results have changed the tabs.
* A window close is a walk over the dirty tabs through discards, saves and dialogs;
  activation is *silently* refused while a spelling review pins its document.
* A save and a read are sequences of system calls among other programs and crashes.
* The spelling worker and the application thread share a request, a result, an atomic
  generation and a pipe, and a review can be closed between any two accesses.
* The compositor's events, the bus's messages and a pipe's other end are late,
  repeated or missing, and cross what the editor has sent meanwhile.
* A press and its release are two events; a card, another document, a resize or the
  loss of the device can come between them.
* The text structures keep work back (a gap, a delayed step, a cached run) and are
  told of an edit one after the other.

## 2. Modules

Files:

| Module | Models | Shape |
|---|---|---|
| `FileSystem` | names, a symbolic link, inodes, stat, and other programs in the directory | variables and operators, external |
| `AtomicSave` | what a save promises: one atomic replacement, reported truly | abstract specification |
| `DocumentWrite` | `WriteDocumentFile`, one system call per step; failures, crash | `Spec`, refinement of `AtomicSave` |
| `DocumentRead` | `ReadDocumentFile`, one system call per step; short reads | `ReadSpec` |
| `DocumentFiles` | the two functions as single steps, as the workspace uses them | operators over `disk` |

Documents and the loop:

| Module | Models | Shape |
|---|---|---|
| `EditorDocuments` | the retained documents of `ApplicationEditor` | operators from state to state |
| `DocumentWorkspace` | every handler of `DocumentWorkspace` with the prompt inside | operators from state to state |
| `Application` | the loop, `ApplicationUi`'s decision cards, other programs; properties | `Spec`, `FairSpec` |

The interface:

| Module | Models | Shape |
|---|---|---|
| `Interface` | what `ApplicationUi` holds open, focused, pressed and composing, and what opening one takes from the others | operators over one record |
| `PointerRouting` | `HandlePointer` and the handlers it asks in turn | sets of records a handler may leave |
| `InputRouting` | every input event, the effects between two of them; properties | `InputSpec` |
| `FindField` | the find bar as a text field and a search; the state told to text-input | `BarSpec` |

The spelling review:

| Module | Models | Shape |
|---|---|---|
| `SpellcheckWorker` | the thread and the shared slots, one step per region under the mutex; the application thread's calls as the list of accesses they still have to make | actions |
| `SpellcheckReview` | the card and its session over the worker; properties | `Spec`, `FairSpec` |

The desktop's services:

| Module | Models | Shape |
|---|---|---|
| `WaylandSelections` | clipboard and primary selection (`kind` tells which) with their transfers | actions, fairness |
| `DialogPromise` | what the workspace relies on of a dialog | abstract specification |
| `PortalDialogs` | D-Bus call, response, owner changes, the loop's dispatch | actions, fairness, refinement of `DialogPromise` |
| `WaylandTextInput` | the text-input-v3 client and its compositor | actions |
| `WaylandFrame` | damage, buffer ages, callback, feedback | actions, fairness |
| `WaylandInput` | the seat's events, key repeat, wheel frames, listeners, the popup | actions |
| `WaylandGlobals` | registry, proxies, outputs, scale and size | actions |

The editor core:

| Module | Models | Shape |
|---|---|---|
| `UndoHistory` | undo actions, groups, save, detach and tentative points with the text | actions |
| `ChangeHistory` | the change log behind margins and indicators | actions |
| `SplitVector`, `Partitioning`, `RunStyles`, `StepReach` | the containers, as the code keeps them | actions or operators |
| `LineStarts`, `DecorationList`, `ContractionState` | line index and markers, decorations, folds over those containers | actions |
| `Selections` | stream, multiple and rectangular selections | actions |

`MCApplication`, `MCDocumentWrite`, `MCSpellcheckReview` and `MCFindField` give
constants their values. `MCServices`, `MCWindow` and `MCText` run
several modules that share nothing the models know of: a variable `part` picks one of
them at the start, so one run explores them all without their product.

### How state and actions correspond to the code

*The workspace.* A handler makes several calls that change state in a fixed order. It
is modelled by composition: an operator takes the record `s` of the whole application
and returns the record after the call, so `PerformClose(Settle(saved, id))` is that
sequence of calls and can be neither interrupted nor reordered. `Application` holds
the fields as `VARIABLES`; `S` packs them, `Become(n)` unpacks the result, and one
action is one call the loop makes into `ApplicationUi`. The one handler that is *not*
atomic is `OpenPathList`: it reads files one after the other while other programs may
write, so each turn of its loop (`OpenNextPath`) is a step, and `opening` holds what is
left; nothing else of the application runs until it is empty.

*Files.* `DocumentWrite` and `DocumentRead` take the two functions of
`DocumentFile.cxx` apart: an action is one system call with the branch the code takes
on its result, `pc` names the next call, and between any two of them another program
may replace the file (or the link to it), rewrite, grow or truncate it in place, or
remove it (`OtherPrograms`). A call may fail; a read may be short; a failing call leads
where the code's `return` or its `TemporaryFile` destructor leads. A crash (`Crash`,
when `CanCrash`) leaves one of the directory states since the last directory sync, and
of a file that was not synced any prefix of its bytes. Four things are taken of the
environment: other programs sync what they write and do not change permission bits;
`unlink` of the temporary file succeeds; the name `mkstemp` chose is nobody else's; and
the clock is fine enough that two changes of a file have different times.

*The spelling review.* What runs under the worker's mutex is one step of `thread`. The
application thread's `Cancel`, `Begin`, `Submit`, `TakeResult` and destructor are
lists of accesses in `calls`; the head is the next one, and the worker may step before
it. Words stand for the text, marked with how the review met them.

*The interface.* `ui` is one record; a handler is the set of records it may leave
behind, because what the workspace makes of a command is any of `Outcomes` (an
over-approximation: `Application` says which). `aim`, `misfired`, `lost`, `held` and `loose`
are history variables that remember what was pressed. Events are told apart only where a
handler tells them apart (`Telling`). `loose` are the owners of presses that the code
keeps past their gesture (section 5); what those fire is not counted in `misfired`.

*Wayland and D-Bus.* Requests and events travel in queues that the two sides read in
order; the compositor, the bus, the portal and the peers of a pipe are external and do
whatever their protocol allows, mistimed events included. In `PortalDialogs` a call
blocks the loop (`call`), a read moves what has arrived from `wire` to `queue` and looks
for the reply in it, and `loop` = "dispatch" hands over one queued message per step. The
state object's two vectors are sets: requests have different paths and results are of
different requests, which the invariants state.

*The core's containers.* The record has the fields of the class; next to it a history
variable holds what the container stands for (`items`, `values`, `folds`, `trail`), and
the invariants relate the two.

Data are abstracted to what the properties tell apart. A text is a model value with a
size class, a sequence of blocks, of words or of letters. A path is a normalized path,
while dialogs name paths through `Names` and `Normalize`, so aliases are real. A file's
stamp (device, inode, size, mtime) is an identity. Identities that come from counters
(documents, prompt generations, dialogs, stamps) are only compared for equality; the
model takes any value that nothing refers to, which makes the state space finite
without a constraint. The code's counters never give out a live value again, so "an
unused one" is exactly what they provide. (Equal stamps of two writes within one clock
tick, and the wrap of a 64-bit generation, are outside the models.)

## 3. What the runs check

A run checks a few properties, each the conjunction of named parts; a part has a
comment at its definition that says which code it is about.

| Run | Properties and their parts | What it shows |
|---|---|---|
| `DirtyClose` | `TabsAgree` (`TabsAreDocuments`, `NoEditorMisuse`, `PromptNamesActive`), `AcceptedCloseWasAgreed`, `ClosesFollowThePrompt` (`EditsVanishOnlyByConsent`, `ResultClosesOnlyThePromptedTab`, `WalkEndsInCloseOrCancel`) | with close, discard, save, two Save As dialogs in flight, failing writes, undo and paste, no tab and no edit is lost unasked, and a late Save As closes no tab it was not asked to close |
| `ExternalChange` | `ConflictStaysInItsTab` (`ActiveIsEdited`, `ConflictIsCurrent`), `StampVouchesForSavePoint`, `WritesAreWanted` (`NoBlindReplace`, `ConflictAnswerStaysInItsTab`) | two files, two tabs, two Save As dialogs and another program: every replaced file is one the buffer knew or the user agreed to replace; the conflict card never outlives the binding it shows, and its answer touches no other tab |
| `Opening` | `TypeOK`, `OneTabPerPath`, `DecisionsDoNotOverlap`, `LargeFilesAreGuarded` (`HardLimitHolds`, `LargeContentsAreConfirmed`) | startup, lists of aliased names, large-file cards, delayed Save As: no path bound twice, no huge file loaded, no large one without an answer (no other program writes in this run: a file that grows behind its warning is the theorem `LargeFilesStayGuarded`'s, with writers, and `LimitIsKept`'s in `Services`) |
| `Saving` | `LeavesNothingBehind` (`TypeOK`, `NoTemporaryRemains`), `WholeAfterCrash`, `SavesAreTrue` (`OnlyTheReadFileIsReplaced`, `ModeIsKept`, `SaveIsVisible`, `StampVouchesForText`), `SaveIsAtomic` | `WriteDocumentFile` with failing calls, two changes by others and a crash anywhere |
| `Leaving` | `AcceptedCloseLeaves`, `ReviewOwnsTheBuffer` | under the loop's fairness an accepted close ends the process; no text under review changes but by the review |
| `SpellingReview` | `NothingIsStranded` (`NoResultIsStranded`, `NoRequestIsStranded`), `AnswersBelong` (`WorksWithOwnDictionary`, `AnswersAreAwaited`), `ReviewIsTrue` (`TypeOK`, `ScopeFollowsTheText`, `CompleteMeansReviewed`, `DecisionsAreNeeded`), `WorkEnds` (`CheckingEnds`, `DiscoveryEnds`, `QuitEnds`) | a review and its worker lock by lock, closed and reopened at any point, dictionaries changed, the application leaving |
| `Services` | `SelectionsAgree` (`SelectionTypeOK`, `OffersAgree`, `ServesOnlyItsSelection`, `PastesAnsweredOnce`, `OnePasteRuns`, `CopyReports`, `CallbacksAreLive`), `PastesEnd` (`LateIsTimedOut`, `PasteEnds`); `DialogsAreTracked` (`DialogTypeOK`, `AnswerOnItsWay`, `RequestsAgree`, `NoDialogOutlives`), `KeepsPromise`; `ReadIsSnapshot`, `LimitIsKept`, `SizeDecides` | pastes and dialogs are answered once whatever the peers, the portal and the bus do; an accepted buffer is one content under its own stamp, within the limit |
| `Window` | `TextInputAgrees` (`TextInputTypeOK`, `SerialCountsCommits`, `CompositorAgrees`, `HeldStateIsAnnounced`, `PreeditHasItsField`), `FramesAgree` (`FrameTypeOK`, `FramesAreWhole`, `DamageIsKept`, `FeedbackAgrees`), `InputAgrees` (`InputTypeOK`, `RepeatsAreHeld`, `FocusIsKnown`, `ButtonsAreReleased`, `ScrollsOnce`), `GlobalsAgree` (`GlobalsTypeOK`, `ServicesAreBound`, `DependentsFollow`, `ScaleIsCurrent`), `WindowGoesOn` (`RepeatsDoNotSpin`, `DamageIsDrawn`) | the window against a compositor whose events are delayed, devices that vanish, globals that are replaced |
| `Text` | `HistoryIsTrue` (`HistoryTypeOK`, `UndoRetraces`, `SavePointIsSavedText`, `ModifiedIsNotified`, `HistoryKnowsTheSavedPath`, `UndoStopsAtSavePoint`, `CompositionLeavesNoTrace`), `StoresAgree` (`GapIsHidden`, `StylesAreKept`, `SelectionsAreKept`, `ChangesAreKept`), `LinesAgree` (`LinesAreKept`, `FoldsAgree`), `FieldAgrees` (`QueryIsText`, `ToldIsCurrent`, `SurroundingIsQuery`, `SearchIsRight`, `OriginIsOfThisFocus`, `StatusIsForTheQuery`) | long sequences of edits on the core's structures, compared with what a plain definition computes, but for the gestures and undo steps that section 5 lists; the find field against a reference search, from where the selection was when the focus came |
| `Routing` | `InterfaceAgrees`, `TextInputIsOwned`, `CardsArmOnlyTheTop`, `GesturesComplete` | cards, menus, find bar, emoji list, bars and editor share the devices: one owner at a time, and a release never fires what it was not pressed for, but for the spelling card's over a resize and the find bar's when its field had no focus to lose |
| `LongQuery` | `SurroundingFits`, violated | a long query makes a text-input state that its consumer refuses by an exception (section 5) |
| `CloseAfterReview` | `NoEditorMisuse`, violated | a conflict found under a spelling review makes the workspace close the document the editor is on (section 5) |

Every property has a mutant in `PROJECT.json`: a plausible bug in a definition of the
model that makes the run fail.

### Bounds

Every bound is a constant.

* `Application`: `MaxTabs`, `MaxDocs`, `MaxGens`, `MaxDialogs`, `MaxStamps` (identities
  alive at once), `MaxList` (names in one Open answer), `Typed`, `Foreign`, `Disks`
  (inputs), `Faults` (failures of file calls), `Features` (activities of an instance).
  Two tabs and two dialogs are enough for every interaction the handlers can tell
  apart: "this tab", "another tab", "a result for this prompt", "a result for an
  earlier one"; `Opening` uses three tabs and lists of two, so that a list can be
  interrupted with something behind the card and something already opened before it.
  Room for identities is checked before a handler starts (`Room`), never in the middle
  of one. Each run explores a set of features; the runs together fire every action.
* Files: `MaxInodes` (three: the document's, the temporary's and another program's, with
  a number given out again once it is free), `MaxOthers` (two changes by others, so that
  a link can be replaced *and* its target changed, or a file replaced before and after
  the rename), `MaximumBytes` (two blocks, against contents of one to three), and
  `Contents` of equal size that differ in every block, so that size never tells them
  apart.
* Spelling: two words, two dictionaries (one word is wrong for both, one for one), four
  worker generations, three requests of a session, four words of text: a review can be
  closed with a request in every place and reopened twice.
* Services: two offers (an address is reused), a limit of one unit, two requests; two
  dialogs and one restart of the portal.
* Window: three cells, three buffers, one frame of history, one feedback, four frames;
  a serial that wraps at four; one message in flight each way; rates of 0, 1 and 4 in a
  second of two ticks, bursts of two, stalls of three ticks; three registry names.
* Text: texts of up to two letters with three undo actions, three items in a gap buffer
  that grows by one, four characters and two typed at once, three lines. Of selections,
  two ranges over three letters or, where several are on, three over two (`MaxPlaces`),
  with one change of the text while the button is held. Of the change history, three
  edits of any length or four of one letter each, to a text that begins empty or full,
  with one save: the step of the log that straddles another's span, where `Check` first
  fails, takes four edits. What follows a failed `Check`, or a gesture that `astray`
  marks, is not followed: the counts or the ranges are wrong from there on. Queries are of
  up to two bytes, of which one is told at once, with one character of two bytes that
  folds to two letters. `NearFraction` is two where the code has ten, so that the
  backward step of `Partitioning` happens on a small instance.
* Routing: two documents, two queued errors (one to dismiss and one to stay).

`Saving` uses the symmetry of the two blocks, `ExternalChange` that of the two paths and
`Routing` that of the two documents: nothing compares them but for equality, the initial
states are closed under the exchange, and these runs have safety properties only. Within
its bounds a run is exhaustive, up to about two million distinct states. `Services`,
`Text`, `Window`, `Routing` and `SpellingReview` switch the deadlock check off, because
an instance really stops: bounded requests are used up, or the process has ended.

### Fairness

* `Application.FairSpec` says that the loop goes on: the results end (`EndResults`), a
  list of files is read to its end (`OpenNext`), queued requests are taken
  (`TakeDialogRequest`, `AcceptClose`), each by weak fairness; and the batch that
  `TakeInputs` returned is finite, so however many inputs are handled the turn ends,
  which is strong fairness of `EndTurn` (it is disabled again and again by requests that
  inputs queue). Nothing is assumed of the user, the portal, the clipboard, the spelling
  worker or other programs.
* `SpellcheckReview.FairSpec`: the operating system runs the worker (`ThreadStep`), and
  the application thread finishes its calls and returns to a poll that is readable.
  Nothing is assumed of the user or of the poll while the pipe is empty.
* `WaylandSelections`: the loop steps, a poll with something ready or due returns, time
  passes. Peers may stall for ever. `PortalDialogs`: the loop steps and a poll wakes for
  a message. The portal may never answer.
* `WaylandFrame`: a frame is begun and prepared when it is due, the compositor answers a
  frame callback, and a frame that is prepared again and again is submitted at last
  (strong fairness: a resize cancels it).

## 4. What is proved

TLAPS proves the theorems below for **all** values of the constants that satisfy the
named assumptions of the modules (positive bounds, `MaxTabs < MaxDocs`, `Normalize` maps
names to paths, `NoPath` is no path, `NoMode` is no mode, `NoDictionary` is no
dictionary). Hypotheses beyond those are stated with the theorem.

| Module | Theorem | States |
|---|---|---|
| `ApplicationProofs` | `TypeCorrect`, `OneBindingPerPath`, `SeparateDecisions` | `TypeOK`, `OneTabPerPath`, `DecisionsDoNotOverlap` |
| | `StampsVouch` | `StampVouchesForSavePoint`, without the spelling card |
| | `ClosesAreAgreed` | `AcceptedCloseWasAgreed`, without the spelling card |
| | `TabsStayDocuments` | tabs are the retained documents, the active one is edited, the editor never throws; without the spelling card |
| | `ConflictsStayTrue` | `ConflictStaysInItsTab`, also with no destination that cannot be inspected |
| | `PromptsNameTheActiveTab` | `TabsAgree`, also with no other writers |
| `ApplicationSteps` | `ReplacesNothingBlindly`, `ResultsCloseThePrompted`, `ReviewsOwnTheBuffer` | `NoBlindReplace`, `ResultClosesOnlyThePromptedTab`, `ReviewOwnsTheBuffer`, with no hypothesis |
| | `EditsNeedConsent`, `WritesStayWanted` | `EditsVanishOnlyByConsent`, `WritesAreWanted`, without the spelling card |
| | `ClosesFollowPrompts` | `ClosesFollowThePrompt`, also with no other writers |
| | `LargeFilesStayGuarded` | `LargeFilesAreGuarded`, for typing that stays below the threshold |
| `DocumentReadProofs` | `ReadTypeCorrect`, `AcceptedReadIsSnapshot`, `LimitIsAlwaysKept`, `SizeAloneDecides` | `TypeOK`, `ReadIsSnapshot`, `LimitIsKept`, `SizeDecides` |
| `DocumentWriteProofs` | `SaveLeavesNothingBehind`, `CrashLeavesWhole`, `SavesAreAlwaysTrue` | `LeavesNothingBehind`, `WholeAfterCrash`, `SavesAreTrue` |
| | `SaveImplementsAtomic` | `SaveIsAtomic`: `DocumentWrite` refines `AtomicSave` |
| `SpellcheckProofs` | `OneRequestUnderWay` | the inductive invariant of the review and its worker |
| | `NothingIsLeftBehind`, `AnswersBelongToTheReview` | `NothingIsStranded`, `AnswersBelong` |
| `HistoryAndDialogProofs` | `HistoryStaysTrue` | `HistoryIsTrue` |
| | `DialogsStayTracked` | `DialogsAreTracked` |
| | `DialogsImplementPromise` | `KeepsPromise`: `PortalDialogs` refines `DialogPromise` |
| `WindowProofs` | `ObjectsFollowGlobals` | `GlobalsAgree` |
| | `FramesAreComplete` | `FramesAgree` |
| | `InputsAgree`, `RepeatsNeverSpin` | `InputAgrees`, `RepeatsDoNotSpin` |
| | `TextInputsAgree` | `TextInputAgrees` |
| `RoutingProofs` | `InterfacesAgree`, `TextInputsAreOwned` | `InterfaceAgrees`, `TextInputIsOwned` |
| | `CardsArmTheTop`, `GesturesAreComplete` | `CardsArmOnlyTheTop`, `GesturesComplete` |

### The workspace is well formed

None of the first three theorems of `ApplicationProofs` is inductive. `OneTabPerPath` needs
that the tabs' identities are fresh, hence that every tab has a retained document
(`TabsHaveDocuments`) and that the strip lists exactly the tabs (`StripIsTabs`).
`TypeOK` needs that what is pending refers to something: the prompt to an open tab, a
large-file card and a conflict card to a path, a list in progress to at least one more
name (`Pending`); without the first, answering a prompt would bind a file to a tab that
is gone, and the history variable `forgone` would record a text that does not exist.
`Pending` in turn survives `RemoveTab` only because a tab is never removed while a
prompt names it, and `DecisionsDoNotOverlap` survives `BeginPrompt` only because of its
guard on the large-file card. Together they are the invariant `Good(S)`.

The argument follows the code's structure. There is one lemma per handler,
`Good(s) => Good(Handler(s))`, each from the lemmas of the calls it makes. Handlers that
create an identity late (a walk that prompts again after a save, a close that opens a
fresh untitled tab after a reload) need to know that there still is one: `Keeps(s, n)`
says that the state in between refers to no identity the first one did not, so the room
found at the start is still there. Then there is one lemma per action,
built on `StepGood`, and combines them in `NextGood`.

### A session without a review

The second part of `ApplicationProofs` adds what tabs, files and cards say of each other: `Sound(s, F)`, with
`F` the contents the user has given up so far (`forgone`).

* `Aligned`: the documents are those of the tabs, the active tab's is the one edited.
* `Vouched`: a tab whose stamp is its file's has that file's bytes at its save point.
* `Current`: the conflict card names an open tab, its path and a conflict there is.
* `Calm`: if nobody else writes, there is no conflict, every stamp is its file's, and
  the prompt names the active tab.
* `Walk`: what a window close has resolved was given up, is out of reach of a late
  paste, and is not asked about again; an accepted close gave up every dirty document.

The hypotheses are necessary, and runs show it. `"spelling" \notin Features`: a review
pins the edited document, so a delayed conflict parts the active tab from it; run
`CloseAfterReview` is the counterexample. `"blind" \notin Faults` (every destination can
be inspected): otherwise a save may report a conflict that does not exist. `Quiet` (also
no other writers): a conflict activates its tab, and when it is cancelled the prompt is
left over another one. Runs `DirtyClose`, `ExternalChange` and `Opening` satisfy them,
so the theorems are about what those runs explore, with any number of tabs, files,
dialogs and texts.

### A file is read

That an accepted buffer is one content of the file is a matter of time: the code
compares the stamps taken before and after the reads. The inductive invariant `ReadInv`
says why equal stamps suffice. No modification time is ahead of the clock (`Past`), nor
is the first stamp's (`Early`), so a change made since then cannot bring that stamp back;
hence, while the open file still has the first stamp, what was read is a beginning of its
bytes (`Unchanged`), and all of them once the reads have ended (`AtEnd`). The file's
present content is always recorded under its stamp (`IsSeen`), and a result is given only
by a return (`Returned`). Without `Past` and `Early` the second stamp could equal the
first although the file had changed: this is the assumption about the clock, at the place
where the code depends on it. `SizeAloneDecides` needs a second invariant: a read that
nothing disturbed has the bytes that were there when it began.

### A file is written

`WriteInv` is `TypeOK`, `Storage` (about the disk) and `Progress` (about the call that
comes next). `Storage`: whatever directory a crash brings back, the document's names
lead to synced inodes with whole contents, and to one at all if there was one and nobody
removed it. `Progress` follows the order of the calls: the temporary file has its mode
before its bytes and its bytes before its sync, and until it is renamed nothing but its
own name leads to it (`Hidden`), so a crash or a failure can only lose the temporary
file; the stamp that will be returned is the one of the file under the temporary name;
a guarded save's expected inode either still holds what was read or has a later
modification time (`ExpectedIsKnown`), so the check before the rename recognises it
unless another program ran between that check and the rename (`raced`, the window the
code leaves open and the theorem names). The refinement proves, call by call, that only
`Rename` changes what is visible and that a result agrees with whether it happened.

### A review has one request under way

`ReviewInv` says where the one request of a review can be: in a call of the application
thread that has not put it into the slot yet, in the slot, with the worker, or answered,
and in one of these only (`Alone`); that it belongs to the active generation or is about
to be erased by the call that cancelled it (`Owned`); which accesses a call still has to
make and what the card and the session are meanwhile (`Calling`, `Staged`); and that the
dictionary is the one of the request that is worked on, and stays loaded between two
answers of a review (`Fitting`), which is what an added word relies on: `AddPersonalWord`
does not load a dictionary. `Heard` is `NothingIsStranded` itself: the pipe holds a byte
whenever a result is there that nobody is about to take, and the worker sleeps only when
there is neither a request nor the order to stop. None of the parts holds by itself:
`Heard` needs `Alone`, because publishing over an untaken result would lose it, `Alone`
needs `Owned` and `Staged`, because a second request is only begun once the first was
answered or cancelled.

### What a step may change

`ApplicationSteps` proves the action properties: what one call into the application may
do to documents and files, and on whose word. A handler is bounded by
`Reaches(s, n, X, W, Big)`: from `s` to `n` no document outside `X` and no file outside
`W` changes, and no contents of `Big` are loaded. There is one lemma per handler, from
the lemmas of its calls; a save's `W` is one path and only a path of which the saving
tab has the present stamp, or that a Save As dialog or the conflict card named. One lemma
per action then turns the bounds into `Account`, which compares them with what was on
screen when the step began: the answered card, the dialog whose result arrived, the input
that was typed. The theorems are cases of `Account`. What it needs of the state
(`StepInv`) is `Good(S)`; that a tab with a path has a stamp (`Stamped`), so that each
save is guarded; that a prompt on screen is of one of two kinds (`Named`); that documents
are clean and no review is on at startup; and that a review begins with no list of files
half opened, no paste pending and no prompt that awaits a Save As, so that nothing which
is still going on can change the document it owns.

Hypotheses: edits can vanish without consent, and the answer to a conflict can reach
another tab, only when a review has parted the active tab from the edited document, hence
`"spelling" \notin Features` (run `CloseAfterReview` is the counterexample to more). A
walk ends in a close or an answer only if no conflict takes the screen from it, hence
`Quiet`: `BeginPrompt` returns early under a conflict (section 5). `LargeFilesStayGuarded`
assumes that no typed text and not the empty one is over the threshold: the limits are
about what is loaded, and a document may be typed to any size.

### A dialog can be answered as long as it is waited for

`DialogInv` speaks of the messages in flight as a set: that a read only moves them, and
that a dispatch takes one of which there may be a copy, are the lemmas `ReadKeepsAll` and
`DispatchTakes`; nothing in the proof depends on the order in which messages arrive.
`AnswerOnItsWay` is not inductive. What it needs:

* `Blocked` and `Announced`: while the editor is blocked in the call it tracks the path it
  predicted, and what the user chose already is announced under the path the reply names.
  When the reply comes, `Retarget` makes the pending request match that announcement,
  which waits in the queue because nothing is dispatched before the call returns.
* `Shown`: a dialog on the screen is the running portal's, has no choice yet, and is the
  one its pending request (or the reply on its way) names. So a restart, which takes the
  screen's dialogs with it, takes no answer with it.
* `Truthful`: a Response says what the user chose, or is `Foreign`: from a portal that is
  not the one the request was made to. The owner check of `DeliverResponse` is what keeps
  a new portal's cancellation from answering for the user.
* `Fresh`: there is no message or dialog of a request before it is made.
* `Tracked`: a request is pending, or has its result, or is none that is waited for, so
  that a second Response finds nothing and each dialog is answered once.

The refinement follows: only `Show`'s two ends and `ApplyFileDialogResults` change what
the workspace is told, and what the last tells is `chosen`.

### The window's objects follow the globals

`GlobalsAgree` speaks of what the compositor announced and said last, and is far from
inductive. `GlobalsInv` adds what carries it from one event to the next. `Mirrored`: the
scale state's outputs, preferred and fractional scales and size are the compositor's, so
that `Configured` (the configuration is the one computed from that state, and is applied
or pending) is about what the compositor said. `SeatsKnown`: of all the announced seats
only the bound one is known to have devices, and those are the window's; a seat that was
bound, lost its devices with the binding and is bound again must start with none, or the
first capabilities event would make no pointer, or one over another. `Bound` and
`Attached`: a proxy is held for one of the globals of its kind while there is one, and
what depends on one proxy or on two exists with them. `Named`: names are given in ascending
order, so that the first global left of a kind exists and is not the removed one. The
proof has a lemma for each operation on the window (`Bind`, `Release`, `Replaced`) and one
per action.

### Every frame is whole

`FramesAgree` says that what was submitted shows the content everywhere. `FrameInv` is
its inductive form, for any height, set of buffers, limit of rectangles and length of the
history. `Behind`: what a buffer of a valid age lacks is covered by the damage of as many
submissions as it is old, the damage of the frame in hand and the damage pending; a
submission ages every buffer by one and puts its own damage at the head of the history
(`HistoryShifts`), so the cover stays. `Painted`: while a frame is painted nothing is
pending, and the back buffer lacks nothing outside the plan. `Listed`: each submission
whose feedback is awaited is there once.

The plan is computed by a loop that appends damage and merges it into its bounds when
there are too many rectangles. `AccumulatedHolds` is proved by induction on the number
of frames: the set of those for which the merged damage covers the history is closed
under the loop's step, and a least number outside it cannot exist (`Inductive`, from the
well-foundedness of the natural numbers).

The first attempt failed at `CancelFrame`, for a reason. The model let an abandoned paint
spoil the cells of its plan and put only the submitted damage back. The cells that the
plan had from the history are then covered by nothing, and merging may make the next
plan for that buffer smaller than the abandoned one. The code is right: `PaintFrameContents`
ends an abandoned paint with `InvalidateClient` (`ApplicationEditor.cxx:1682-1684`), so
all of the window is pending before the next frame is begun. `Abandoned` states it; without
it TLC finds `FramesAgree` violated from five cells on, more than the run `Window` has.

### The application is told what the devices did

`InputsAgree`, also in `WindowProofs`, proves `InputAgrees` for any number of events on
their way, of inputs in the queue and of ticks between turns. What the run checks is said
of moments when no event is on its way (`wire = <<>>`), so nothing of it is inductive. The
invariant (`InputInv`) follows the events instead:

* A *view* is a device as events make it out to be: there or not, where its focus is,
  which keys and buttons are down, the axis values of the frame in progress, the clicks so
  far. `Step` is what an event makes of a view and `Legal` when it may come; `Leads` says
  that events, one legal after another, lead from one view to another.
* `Follows`: some view agrees with what the window's listeners recorded: focus and buttons,
  the frame, what repeats. One exception is the code's: a leave ignored for a popup
  (`slipped`). An enter of a popup that is gone is none: its surface arrives null, as
  the window's `popupSurface` then is, so the code records it as the popup's
  (`WaylandWindow.cxx:1455`). Between the leave of one surface and
  the enter of the next the keyboard may still be, or no longer be, focused.
* That view `Leads` over what is on its way to the view of the compositor. A step of the
  compositor extends the path (`LeadsOn`), an event that arrives shortens it (`LeadsOff`)
  and the listener's step is the view's (`InputArrivesStep`); with nothing on its way the
  two views are equal.
* `RecordsAgree`: handling what is queued would tell the application what was recorded, and
  whatever it was told that is no longer so has its end in the queue. This is why a lost
  device, whose inputs are erased from the queue, must report the loss if one was *queued*
  (`LossReported`, `LeaveReported`): the application may have been told of the focus
  before.

`RepeatsNeverSpin` is the step property behind `WindowGoesOn`: after late repeats have run,
the next is due in the future, for every rate, delay and stall.

### The input method and the field agree

`TextInputsAgree`, also in `WindowProofs`, proves `TextInputAgrees` for any number of
requests and events on their way (`MaxFlight` only bounds the run), any modulus of the
serials and any texts. What the compositor knows is again stated of moments when nothing
is on its way, in either direction, so the invariant (`TextInputInv`) says what the two
directions will come to:

* `Crosses`: the enters and leaves on their way alternate, and lead from what the client
  holds of the surface to what the compositor does.
* The compositor forgets at its focus step what it had been told, and the client does not
  know until the event arrives. So the requests must leave text input on (`TurnsOn`) only
  if the client has it on *and* no enter or leave is on its way (`Uncrossed`). A request
  that crosses a leave is the case that makes the simpler statement, that the last
  request decides, fail.
* `Latest`: the last request on its way, or else the compositor, has the client's state
  unless that is held back; and the serial is the count of both (`RemainderMoves` carries
  it over the modulus).
* `FieldFollows`: the batches, given to the field in the order of `DeliverTextInputBatches`
  (`Given`), leave no preedit if the surface was left, and one of them asks for a refresh
  if a state is held back that could be sent.

`Attach`, `Enter`, `SetKeyboardFocus` and `UpdateClientState` end in `Reconcile`.
`ReconcileIs` says in one place what it does, `ChannelKept` what that leaves of the
channels, and each event is then a short lemma. `Given` is a recursive function, so that
what one batch more does (`GivenMore`) follows by induction on the set of the numbers of
batches for which it does.

### Input has one owner

`RoutingProofs` proves the four invariants of `InputRouting` for any number of documents
and errors. They say little of the middle of an event, where a card may be up that the
menus do not know of yet, so the proof has two predicates: `Good(s, begun)` for a record
that a handler is at work on, and `Settled(ui)` for what the loop leaves. `begun` says
that the workspace has begun a prompt and `NotifyPromptBegan` is still to come; until it
has, `Apart` (one overlay at a time, none over uncommitted text) and `OnlyTop` (a prompt's
card is armed only if no card is above it) may fail, and nothing else may.

A gesture is the hard part. An armed press outlives what it was on: an answered prompt's
card keeps its press until the next prompt begins, a heading's stays when the menu
closes. `Live(s)` are the presses a release could fire (`Linked` ties each to a card, a
list or a menu that is there), and `Sure` says that while the button is down, or something
is still remembered as pressed, each live press is what the user pressed, but for
those of the owners in `loose`: a spelling card's press over a resize, and one of the
find bar from a focus loss or a release elsewhere on (`Loosened`). `Arm` takes its owner out
of `loose`, so the next press of either is held to the rule again. From `Apart` and
`OnlyTop` all live presses belong to one owner (`LiveOfOwner`). So a press finds nothing
live but its owner's, which it replaces: that is `Pressing`, under which the handlers of
a press are shown. `Held` covers the editor's own drag, which bypasses the owners: while
it lasts, no menu entry and no emoji row is armed, and nothing may be remembered as
pressed unless its release went to another owner.

Most of the code only takes away. `Eases(s, t)` says that `t` has no overlay, card, field,
armed press or uncommitted text that `s` has not, and forgets what was pressed only where
no release can fire it. It is reflexive and transitive and preserves `Good`
(`EasedGood`), so the closing operators need one lemma each and their compositions none.
What opens something (`OpenFindBar`, `OpenSpellcheck`, `OpenContextMenu`, `PressHeading`,
`Arm`, the commands) has a lemma of its own, and what serves a pointer event is shown to
be `Serves`: handled, and if the editor gets the press too, nothing is armed.
`OverSettles` then takes what an event leaves through the loop's effects: the workspace's
requests, the synchronisation with the document on screen, and the popup, for which
`Popped` says that the last effect asked for is what the model of the popup says.

TLC checked `Settled` as an invariant of the run `Routing` before it was proved. The
conditions of a handler overlap and the first that holds decides; the prover does not
read a `CASE` in that order, so those handlers are written with `IF` and `ELSE`.

### Undo retraces the text

`HistoryAndDialogProofs` proves `HistoryIsTrue` for texts and histories of any length. The
core keeps no texts: an action is a position, a length and a kind, and its characters lie in
one store (`scraps`) that undo and redo walk through. So "undo leads back to the text that
was" depends on the store, on the position in it and on every earlier action at once, and
the invariant (`Good`) says of a record between two calls how they fit:

* `Retraced`: there is a place in the store for each action such that places follow one
  another by the actions' lengths, the store is at the current one, and each action leads
  from its text of the trail to the next, with the characters found at its place.
* `Saved`: the trail is the trail of the last save as far as the save point, or as far as
  the point where the history left it for good (`detach`).
* `Parted`: no action coalesces over the save point or the current place, so undo and redo
  stop there; inside a group that begins at the save point, the one before it is closed.
* `Clean`: composed characters are only in texts past the tentative point; and while there
  is tentative text (`Composes`), it is what was recorded last, and the history had left
  the saved way before it or not at all, so giving it up loses nothing else.

Recording cuts what could be redone off the trail and the store and appends one action
(`Recording`, `RecordGood`); typing, deleting and groups are that, repeated, with the
group's opening and closing changing only what coalesces (`Alike`). Undo and redo are loops
over the unit's actions: `StepBack` and `StepForth` are one turn, `UndoneIs` and `RedoneIs`
the loop, by induction on the set of the numbers of turns for which the record is the one
`Moved` to its place. Tentative text is typed by a recursive function, for which
`ComposingUnfolds` gives the function and `ComposingGood` the same induction. The lengths
that bound the run are not used: `Become` only refuses states.

### What stays with TLC

* Liveness (`AcceptedCloseLeaves`, `WorkEnds`, `PastesEnd`, `WindowGoesOn`): the prover
  has no rule for `ENABLED`.
* What loops over data compute, for every input: `StoresAgree`, `LinesAgree`,
  `FieldAgrees`, and the queues of `SelectionsAgree` are written with folds, `SelectSeq`
  or recursive functions. The library's induction theorems take an operator and cannot
  be used here; induction over the set of the numbers a fact holds of can, and did for
  the frames' loop, for undo and redo and for the batches of text input, but there are
  many loops.
* `ReviewIsTrue`: it counts words through concatenations of a changing text.
* The theorems above that exclude the spelling card, for instances that have one.

## 5. Where the code and its own words disagree

`CloseAfterReview` and `LongQuery` are findings with a run that shows them.

* `CloseAfterReview`: activation is refused without a word during a spelling review, but
  `activeId` moves. Later the workspace closes the document the editor is really on,
  which `ApplicationEditor.h:182-183` forbids, and the editor throws. (From the same
  divergence, Reload skips the activation and would load the conflicted file into that
  other document.)
* `LongQuery`: `FindBar.cxx:857-880` rounds `start` down to a character after `end` was
  computed from it; a query of 4001 to 4003 bytes around the caret is told to
  text-input, whose setter throws (`WaylandTextInput.cxx:86-92`); nobody catches it.

Others were met while modelling. The models contain the behaviour, and the properties
name the exception where there is one (`slipped`, `erased`, `lost`, `loose`, `astray` and
`straddled` mark it).

* Quit is accepted in the middle of an input batch; the inputs after it still edit and
  are lost without a prompt (`WaylandApplicationRunner.cxx:536` against
  `DocumentWorkspace.h:195-197`; `AcceptedCloseLosesNothing` states it, no run checks
  it).
* `BeginPrompt` returns early when a conflict of another tab is up; its caller has
  cleared its own prompt, so the walk just ends (`DocumentWorkspace.cxx:217` against
  `DocumentWorkspace.h:197-198`). A conflict's tab stays in front when the conflict is
  cancelled, under a prompt for another (`:146`, `:230`). A second conflict is dropped
  while another tab's card is up (`:138`).
* The range to review is measured when the card opens and used when discovery answers
  (`ApplicationUi.cxx:1961` against `docs/application-ui.md:79`).
* Presses that outlive their gesture: the find bar's where its field has no focus, since
  only `SetFocused` drops it (`FindBar.cxx:344-351`); the spelling card's across a resize,
  although "a later release cannot activate a control that moved" (`ApplicationUi.cxx:2402`
  against `:2404-2412`). `GesturesComplete` names these two exceptions; without
  either TLC finds it violated. A prompt that begins does not count
  as moving the spelling card, which is drawn above prompts and stays where it is. A late
  press of a popup is taken after its menu closed (`:847`). Cards and menus consume the release of a selection
  drag (`:767-905` against `docs/application-ui.md:53`). The emoji list is dismissed
  only by the left button, so a middle press moves the caret and a completion replaces
  more than the query (`docs/application-ui.md:48`, `:169`). The focus index is shared
  by cards of different layouts; a refresh is dropped under cards and menus
  (`ApplicationUi.cxx:2232-2242`); a stale search status stays after a document switch
  (`:1649-1655`).
* `FindTextForward` and `FindTextBackward` miss an occurrence that straddles the origin.
* A response read while `Show` blocks is dispatched at the next wake only
  (`WaylandFileDialog.h:60-62`); a `Show` that timed out leaves a dialog nobody waits for
  (`WaylandFileDialog.cxx:557`); a portal that crashes leaves the request pending.
* A dead key that repeats is fed to compose again (`docs/custom-wayland-ui.md:158`); the
  focus leaving the popup can leave a repeat running (`WaylandWindow.cxx:1399-1413`,
  `docs/custom-wayland-ui.md:159`); `ResetPointerDevice` erases a queued release
  (`WaylandInput.cxx:255-272`).
* Selections: a shift-press with several ranges (`Editor.cxx:3666-3675`), and a release
  with several where no move had gone or with another main range than the last
  (`:3946-3948`), leave overlapping ranges; the saved copy of the ranges is not moved by
  changes of the text, and a drag goes back to it (`Selection.cxx:523`).
  `SelectionIsSound` names these three gestures: the model makes them, and `astray` is true
  where one has left the ranges unsound. Typing inserts twice where a foreign deletion
  made two ranges meet (`WithKeyTyped` puts one character for each range).
* Change history: `SaveRange` skips the run behind a styled one; undoing the deletion of
  an original character behind a typed one shows it as modified; `PopDeletion` passes the
  whole step to `PopSpan` (`ChangeHistory.cxx:243-245`), so undoing a step that straddles
  the span of another pops what the other put there and the assertion
  `ChangeStack::Check` (`:100-113`) fails: `LogsAreSound` names it, `straddled` marks it;
  the reversions outlive a detach. The application never turns change
  history on (`EditorHistory.cxx:163`).

## 6. What is left out

* Workspace: untitled numbers, language binding, the recent list and its file,
  `RefreshTabs` and `PromptBegan` requests (repaint only), queued file errors.
* Interface: layout, hit-test geometry, hover, cursor shapes, the wheel, painting, which
  menu entries are enabled, and what each alias of the emoji table matches.
* Find field: pointer, menus and cards (they are in `Interface`), scrolling, invalid
  UTF-8.
* Spelling: tokens inside words, Hunspell, the personal word file.
* Wayland: popups' own surfaces and their configure handshake, cursor and decoration
  requests, keymaps and modifiers, a failed connection, `prepare_read` and flush errors,
  URI decoding and settings.
* Core: container actions, read-only documents, Unicode line ends, character indexes,
  fold display texts, line levels, annotations, overtype, virtual space, line mode, word
  and line clicks, styling and its watchers.
* `ApplicationCommandLine` (a pure function), rendering, Lexilla, the vendored views.

The map covers the code the models translate. The larger part of the repository's lines
is generated tables (`CharacterCategoryMap.cxx`, case folding), drawing
(`EditView.cxx`, `Renderer.cxx`), and the vendored core's commands: there is no state
machine in them that these models would say more about.

## 7. Plan

Done: the modules of section 2 and the theorems of section 4, in this order: files and
documents, the loop with its decisions, the spelling review, the desktop's services, the
window, the text structures, the interface; then the proofs for documents, files, the
review, the steps of the application, the dialogs, the globals, the routing of input,
the frames, the undo history, the inputs and the text input.

Left: the application with a spelling card, that is what remains of `Aligned` when a review
pins the edited document; then the queues of `SelectionsAgree` and the loops of the text
structures.
