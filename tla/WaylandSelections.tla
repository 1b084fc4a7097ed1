-------------------------- MODULE WaylandSelections --------------------------
(* The clipboard and the primary selection: ownership, offers, and the
   nonblocking pipe transfers that the event loop polls with a deadline.  The
   two classes have one shape; kind says which of the two this is.  The
   compositor and the peers at the pipes' other ends are external.            *)
EXTENDS Integers, FiniteSets, Sequences, SequencesExt

CONSTANTS
    Offers,       \* addresses of data offers; one is reused after it is destroyed
    NoOffer,
    Limit,        \* the most units a paste may read (DefaultMaximumBytes)
    MaxRequests   \* bound: copies and pastes asked for

ASSUME NoOfferAssumption == NoOffer \notin Offers

VARIABLES
    kind,         \* "clipboard" or "primary"
    selection,    \* what the class and its state object hold
    transfers,    \* the active transfers, in order
    reports,      \* history: results reported, by request
    asked,        \* history: the operation of each request
    phase,        \* where the event loop is
    ready         \* transfers the poll found ready and has yet to call, by index

selectionVars == <<kind, selection, transfers, reports, asked, phase, ready>>

Operations == {"Copy", "Paste"}

(* offers are the proxies, known the state object's map of them to the rank of
   their best text type; source is the request of the published source. *)
SelectionInit(on) ==
    /\ kind \in {"clipboard", "primary"}
    /\ selection = [manager |-> FALSE, seat |-> FALSE, serial |-> FALSE,
                    offers |-> {}, known |-> <<>>, selected |-> NoOffer,
                    owns |-> FALSE, text |-> 0, source |-> 0]
    /\ transfers = <<>> /\ reports = <<>> /\ asked = <<>>
    /\ phase = (IF on THEN "app" ELSE "off") /\ ready = <<>>

-----------------------------------------------------------------------------
(* WaylandTransfer.  A transfer moves units to or from the process at the
   other end: moved by us, and by the peer, which may close at any moment.
   late says that its deadline has passed.                                    *)

Transfer(request, operation, size) ==
    [request |-> request, operation |-> operation, status |-> "Pending",
     late |-> FALSE, moved |-> 0, peer |-> 0, size |-> size, closed |-> FALSE]

Finish(t, status) == [t EXCEPT !.status = status]
Pending(t) == t.status = "Pending"

(* ProcessRead takes all the pipe holds; the limit is met before the end. *)
ProcessRead(t) ==
    IF t.peer > Limit THEN Finish(t, "TooLarge")
    ELSE IF t.closed THEN Finish([t EXCEPT !.moved = t.peer], "Complete")
    ELSE [t EXCEPT !.moved = t.peer]

(* ProcessWrite fills the pipe, which holds one unit the peer has not read. *)
ProcessWrite(t) ==
    IF t.closed THEN Finish(t, "Failed")
    ELSE LET m == IF t.peer + 1 < t.size THEN t.peer + 1 ELSE t.size IN
         IF m = t.size THEN Finish([t EXCEPT !.moved = m], "Complete")
         ELSE [t EXCEPT !.moved = m]

Bug_ProcessReady(t) ==
    IF t.operation = "Paste" THEN ProcessRead(t) ELSE ProcessWrite(t)

ProcessReady(t) ==
    IF ~Pending(t) THEN t
    ELSE IF t.late THEN Finish(t, "TimedOut")
    ELSE IF t.operation = "Paste" THEN ProcessRead(t) ELSE ProcessWrite(t)

Bug_CheckDeadline(t) == t

CheckDeadline(t) == IF Pending(t) /\ t.late THEN Finish(t, "TimedOut") ELSE t

Cancel(t) == IF Pending(t) THEN Finish(t, "Cancelled") ELSE t

(* The descriptor polls ready for reading or writing. *)
PollsReady(t) ==
    Pending(t) /\ (t.closed \/ IF t.operation = "Paste" THEN t.peer > t.moved
                               ELSE t.moved = t.peer)

-----------------------------------------------------------------------------
(* Results. *)

Report(request, status) == <<[request |-> request, status |-> status]>>

(* CollectTransferResults: writes report nothing, their source does. *)
ReportsOf(ts) ==
    LET done == SelectSeq(ts, LAMBDA t : ~Pending(t) /\ t.operation = "Paste")
    IN [i \in DOMAIN done |-> [request |-> done[i].request, status |-> done[i].status]]

Bug_Collected(ts) == SelectSeq(ts, LAMBDA t : Pending(t) \/ t.operation = "Copy")

Collected(ts) == SelectSeq(ts, Pending)

(* CancelSourceTransfers drops the writes of a source without a result. *)
Bug_WithoutSource(ts, request) == ts

WithoutSource(ts, request) ==
    SelectSeq(ts, LAMBDA t : ~(t.operation = "Copy" /\ t.request = request))

-----------------------------------------------------------------------------
(* The class, as functions of all it keeps: s the selection, ts the transfers,
   rs the reports. *)

Holding == [s |-> selection, ts |-> transfers, rs |-> reports]
Keep(h) == selection' = h.s /\ transfers' = h.ts /\ reports' = h.rs

CancelOwnership(s) == [s EXCEPT !.owns = FALSE, !.text = 0]

(* WaylandClipboardState::SetSeatAvailable and SetManagerAvailable *)
SetSeatAvailable(s, available) ==
    IF available THEN [s EXCEPT !.seat = TRUE]
    ELSE [CancelOwnership(s) EXCEPT !.seat = FALSE, !.serial = FALSE,
                                    !.known = <<>>, !.selected = NoOffer]

SetManagerAvailable(s, available) ==
    IF available THEN [s EXCEPT !.manager = TRUE]
    ELSE [SetSeatAvailable(s, FALSE) EXCEPT !.manager = FALSE]

Bug_DestroySource(h, report) ==
    IF h.s.source = 0 THEN [h EXCEPT !.s = CancelOwnership(h.s)]
    ELSE [h EXCEPT !.s = CancelOwnership(h.s),
                   !.rs = @ \o IF report THEN Report(h.s.source, "Cancelled") ELSE <<>>]

DestroySource(h, report) ==
    IF h.s.source = 0 THEN [h EXCEPT !.s = CancelOwnership(h.s)]
    ELSE [s |-> [CancelOwnership(h.s) EXCEPT !.source = 0],
          ts |-> WithoutSource(h.ts, h.s.source),
          rs |-> h.rs \o IF report THEN Report(h.s.source, "Cancelled") ELSE <<>>]

Bug_CancelTransfers(h) == [h EXCEPT !.ts = <<>>]

CancelTransfers(h) ==
    LET ts == [i \in DOMAIN h.ts |-> Cancel(h.ts[i])]
    IN [h EXCEPT !.ts = Collected(ts), !.rs = h.rs \o ReportsOf(ts)]

DestroyDevice(h) ==
    LET c == CancelTransfers(h)
    IN [c EXCEPT !.s = SetSeatAvailable([c.s EXCEPT !.offers = {}], FALSE)]

SetSeat(available) ==
    LET h == DestroyDevice(DestroySource(Holding, TRUE))
    IN Keep([h EXCEPT !.s = SetSeatAvailable(h.s, available /\ h.s.manager)])

SetManager(available) ==
    IF available = selection.manager THEN UNCHANGED <<selection, transfers, reports>>
    ELSE LET h == DestroyDevice(DestroySource(Holding, TRUE))
         IN Keep([h EXCEPT !.s = SetManagerAvailable(h.s, available)])

RecordSerial ==
    /\ selection' = [selection EXCEPT !.serial = @ \/ (selection.manager /\ selection.seat)]
    /\ UNCHANGED <<transfers, reports>>

(* CopyText, PublishText: creating the source may fail. *)
CopyText(request) ==
    LET h == DestroySource(Holding, TRUE)
        held == [h.s EXCEPT !.text = request, !.owns = TRUE, !.selected = NoOffer]
    IN IF ~(h.s.manager /\ h.s.seat /\ h.s.serial)
       THEN Keep([h EXCEPT !.rs = @ \o Report(request, "Unavailable")])
       ELSE \/ Keep([h EXCEPT !.s = [held EXCEPT !.source = request],
                              !.rs = @ \o Report(request, "Published")])
            \/ Keep([h EXCEPT !.s = CancelOwnership(held),
                              !.rs = @ \o Report(request, "Failed")])

(* PublishText without a text withdraws the primary selection. *)
WithdrawText(request) ==
    IF ~(selection.manager /\ selection.seat /\ selection.serial)
    THEN Keep([Holding EXCEPT !.rs = @ \o Report(request, "Unavailable")])
    ELSE LET h == DestroySource(Holding, FALSE)
         IN Keep([h EXCEPT !.rs = @ \o Report(request, "Published")])

Bug_Superseded(h) == h

(* PasteText supersedes the paste before it and answers at once, or asks the
   selected offer for its text. *)
Superseded(h) ==
    LET ts == [i \in DOMAIN h.ts |-> IF h.ts[i].operation = "Paste" THEN Cancel(h.ts[i])
                                     ELSE h.ts[i]]
    IN [h EXCEPT !.ts = Collected(ts), !.rs = @ \o ReportsOf(ts)]

ChoosePaste(s) ==
    IF ~(s.manager /\ s.seat) THEN "Unavailable"
    ELSE IF s.owns THEN "Complete"
    ELSE IF s.selected = NoOffer \/ s.selected \notin DOMAIN s.known THEN "NoText"
    ELSE IF s.known[s.selected] = 0 \/ s.selected \notin s.offers THEN "NoText"
    ELSE "Receive"

PasteText(request) ==
    LET h == Superseded(Holding)
        choice == ChoosePaste(h.s)
    IN IF choice # "Receive" THEN Keep([h EXCEPT !.rs = @ \o Report(request, choice)])
       ELSE \/ Keep([h EXCEPT !.ts = Append(@, Transfer(request, "Paste", Limit + 1))])
            \/ Keep([h EXCEPT !.rs = @ \o Report(request, "Failed")])   \* no pipe

-----------------------------------------------------------------------------
(* Wayland events. *)

With(f, o, v) == [x \in DOMAIN f \cup {o} |-> IF x = o THEN v ELSE f[x]]
Without(f, os) == [x \in DOMAIN f \ os |-> f[x]]

DataOffer(o) ==
    /\ o \notin selection.offers /\ selection.manager /\ selection.seat
    /\ Keep([Holding EXCEPT !.s.offers = @ \cup {o},
                            !.s.known = IF o \in DOMAIN @ THEN @ ELSE With(@, o, 0)])

OfferMime(o, rank) ==
    /\ o \in selection.offers
    /\ Keep([Holding EXCEPT !.s.known =
                IF o \in DOMAIN @ /\ rank > @[o] THEN With(@, o, rank) ELSE @])

(* DestroyOffer, for an offer that enters with a drag. *)
Bug_DestroyOffer(o) ==
    /\ o \in selection.offers /\ kind = "clipboard"
    /\ Keep([Holding EXCEPT !.s.offers = @ \ {o}])

DestroyOffer(o) ==
    /\ o \in selection.offers /\ kind = "clipboard"
    /\ Keep([Holding EXCEPT !.s.offers = @ \ {o}, !.s.known = Without(@, {o}),
                            !.s.selected = IF @ = o THEN NoOffer ELSE @])

(* The device's selection event: every other offer is destroyed. *)
Selection(o) ==
    /\ o \in selection.offers \cup {NoOffer} /\ selection.manager /\ selection.seat
    /\ Keep([Holding EXCEPT !.s.offers = @ \cap {o},
                            !.s.known = Without(@, DOMAIN @ \ {o}),
                            !.s.selected = o])

(* DataSourceSend: a peer asks for the text of a source that is still ours.
   An empty text is complete at once. *)
SourceSend(size) ==
    /\ selection.source # 0
    /\ LET t == Transfer(selection.source, "Copy", size)
           ts == Append(transfers, IF size = 0 THEN Finish(t, "Complete") ELSE t)
       IN Keep([Holding EXCEPT !.ts = Collected(ts), !.rs = @ \o ReportsOf(ts)])

SourceCancelled ==
    /\ selection.source # 0
    /\ Keep(DestroySource(Holding, TRUE))

(* Bound: one peer reads our text at a time. *)
Serving == \E i \in DOMAIN transfers : transfers[i].operation = "Copy"

Event ==
    \/ \E b \in BOOLEAN : SetSeat(b) \/ SetManager(b)
    \/ RecordSerial
    \/ \E o \in Offers : DataOffer(o) \/ DestroyOffer(o) \/ OfferMime(o, 1)
    \/ \E o \in Offers \cup {NoOffer} : Selection(o)
    \/ \E size \in {0, 2} : ~Serving /\ SourceSend(size)
    \/ SourceCancelled

-----------------------------------------------------------------------------
(* WaitForEvents: pending events, then the snapshot of what to poll, the poll,
   the ready sources in turn, deadlines, and pending events again.  The events at
   a turn's end, the application's calls and the events before the next snapshot
   are the phase "app". *)

Bug_EventPhases == {"app", "dispatch"}
EventPhases == {"app"}

DispatchEvent ==
    /\ phase \in EventPhases
    /\ Event
    /\ UNCHANGED <<kind, asked, phase, ready>>

Ask(operation) == asked' = Append(asked, operation)

(* The application's calls, between two waits. *)
Call ==
    /\ phase = "app" /\ Len(asked) < MaxRequests
    /\ LET request == Len(asked) + 1 IN
        \/ CopyText(request) /\ Ask("Copy")
        \/ kind = "primary" /\ WithdrawText(request) /\ Ask("Copy")
        \/ PasteText(request) /\ Ask("Paste")
    /\ UNCHANGED <<kind, phase, ready>>

AddPollSources ==
    /\ phase = "app" /\ phase' = "poll"
    /\ UNCHANGED <<kind, selection, transfers, reports, asked, ready>>

ReadyOnes == {i \in DOMAIN transfers : PollsReady(transfers[i])}
Due == \E i \in DOMAIN transfers : transfers[i].late

Poll ==
    /\ phase = "poll"
    /\ phase' = "dispatch"
    /\ ready' = SetToSortSeq(ReadyOnes, <)
    /\ UNCHANGED <<kind, selection, transfers, reports, asked>>

(* A source's callback holds the transfer it was added for. *)
DispatchReady ==
    /\ phase = "dispatch" /\ ready # <<>>
    /\ transfers' = [transfers EXCEPT ![Head(ready)] = ProcessReady(@)]
    /\ ready' = Tail(ready)
    /\ UNCHANGED <<kind, selection, reports, asked, phase>>

ProcessPollTimeouts ==
    /\ phase = "dispatch" /\ ready = <<>>
    /\ phase' = "app"
    /\ LET ts == [i \in DOMAIN transfers |-> CheckDeadline(transfers[i])]
       IN transfers' = Collected(ts) /\ reports' = reports \o ReportsOf(ts)
    /\ UNCHANGED <<kind, selection, asked, ready>>

-----------------------------------------------------------------------------
(* The other ends of the pipes, and time. *)

PeerMoves(i) ==
    /\ Pending(transfers[i]) /\ ~transfers[i].closed
    /\ \/ transfers[i].operation = "Paste" /\ transfers[i].peer < transfers[i].size
       \/ transfers[i].operation = "Copy" /\ transfers[i].peer < transfers[i].moved
    /\ transfers' = [transfers EXCEPT ![i].peer = @ + 1]
    /\ UNCHANGED <<kind, selection, reports, asked, phase, ready>>

PeerCloses(i) ==
    /\ Pending(transfers[i]) /\ ~transfers[i].closed
    /\ transfers' = [transfers EXCEPT ![i].closed = TRUE]
    /\ UNCHANGED <<kind, selection, reports, asked, phase, ready>>

Peer == \E i \in DOMAIN transfers : PeerMoves(i) \/ PeerCloses(i)

(* Every transfer has the same time, so the oldest is late first. *)
TimePasses ==
    \E i \in DOMAIN transfers :
        /\ ~transfers[i].late /\ \A k \in 1 .. i - 1 : transfers[k].late
        /\ transfers' = [transfers EXCEPT ![i].late = TRUE]
        /\ UNCHANGED <<kind, selection, reports, asked, phase, ready>>

LoopStep == AddPollSources \/ DispatchReady \/ ProcessPollTimeouts
SelectionNext == DispatchEvent \/ Call \/ LoopStep \/ Poll \/ Peer \/ TimePasses

(* The loop runs; the poll returns for a ready descriptor and at the earliest
   deadline; time passes.  No peer and no event is owed. *)
SelectionFairness ==
    /\ WF_selectionVars(LoopStep)
    /\ WF_selectionVars(Poll /\ (ReadyOnes # {} \/ Due))
    /\ WF_selectionVars(TimePasses)

-----------------------------------------------------------------------------
(* Type invariant; finished transfers are collected before the turn ends. *)
SelectionTypeOK ==
    /\ selection.offers \subseteq Offers /\ DOMAIN selection.known \subseteq Offers
    /\ selection.seat => selection.manager
    /\ phase \in {"off", "app", "poll", "dispatch"}
    /\ \A i \in DOMAIN transfers :
        /\ transfers[i].operation \in Operations
        /\ transfers[i].request \in DOMAIN asked
        /\ Pending(transfers[i]) \/ phase = "dispatch"

ReportsFor(request) == SelectSeq(reports, LAMBDA r : r.request = request)
Waiting(request) == \E i \in DOMAIN transfers :
                        transfers[i].operation = "Paste" /\ transfers[i].request = request

(* The proxies the class destroys and the map its state object consults are two
   tables kept in step, so that a paste never uses an offer already destroyed. *)
OffersAgree ==
    /\ DOMAIN selection.known = selection.offers
    /\ selection.selected \in selection.offers \cup {NoOffer}

(* A peer reads the text of the selection that is ours now, and no other: a
   source replaced, withdrawn or cancelled serves nobody any longer. *)
ServesOnlyItsSelection ==
    /\ selection.owns = (selection.source # 0)
    /\ \A i \in DOMAIN transfers :
        transfers[i].operation = "Copy" =>
            transfers[i].request = selection.source /\ selection.text = selection.source

(* Every paste asked for has exactly one answer: a transfer still running or
   one result, through supersession, lost seats and deadlines. *)
PastesAnsweredOnce ==
    \A request \in DOMAIN asked : asked[request] = "Paste" =>
        Len(ReportsFor(request)) = IF Waiting(request) THEN 0 ELSE 1

(* At most one paste runs: the editor takes an answer for its latest request. *)
OnePasteRuns ==
    Cardinality({i \in DOMAIN transfers :
        transfers[i].operation = "Paste" /\ Pending(transfers[i])}) <= 1

(* What a copy reports: refused or failed, or published and then, once it is
   no longer the selection, cancelled.  A clipboard copy published and not
   cancelled is the selection. *)
CopyReports ==
    \A request \in DOMAIN asked : asked[request] = "Copy" =>
        LET said == [i \in DOMAIN ReportsFor(request) |-> ReportsFor(request)[i].status]
        IN /\ said \in {<<"Unavailable">>, <<"Failed">>, <<"Published">>,
                        <<"Published", "Cancelled">>}
           /\ kind = "clipboard" =>
                ((said = <<"Published">>) <=> (selection.source = request))

(* A poll callback is called for the transfer it was made for: nothing between
   the snapshot and the last callback adds or removes a transfer. *)
CallbacksAreLive ==
    phase = "dispatch" => \A k \in DOMAIN ready :
        ready[k] \in DOMAIN transfers /\ Pending(transfers[ready[k]])

(* Past its deadline a transfer only times out, though the last bytes and the
   end of file wait in the same turn's poll result. *)
LateIsTimedOut ==
    [][\A i \in DOMAIN transfers : Pending(transfers[i]) /\ transfers[i].late =>
        \A k \in DOMAIN transfers' :
            transfers'[k].request = transfers[i].request
            /\ transfers'[k].operation = transfers[i].operation =>
                transfers'[k].status \in {"Pending", "TimedOut"}]_selectionVars

(* Every paste is answered in the end, though its peer never writes a byte. *)
PasteEnds ==
    \A request \in 1 .. MaxRequests :
        Waiting(request) ~> ~Waiting(request)

(* What the client holds of offers and sources is what the compositor gave; copies
   and pastes are reported once each, by callbacks whose transfers are still there. *)
SelectionsAgree ==
    /\ SelectionTypeOK /\ OffersAgree /\ ServesOnlyItsSelection
    /\ PastesAnsweredOnce /\ OnePasteRuns /\ CopyReports /\ CallbacksAreLive

(* A paste ends whatever its peer does, and late means timed out. *)
PastesEnd == LateIsTimedOut /\ PasteEnds
=============================================================================
