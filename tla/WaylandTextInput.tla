--------------------------- MODULE WaylandTextInput ---------------------------
(* text-input-v3: the state object that turns the input method's events into
   batches and the client's state into requests, the application that applies
   the batches to the field in focus, and the protocol between.  The compositor
   with its input method is external.  Requests and events are in order, and the
   two directions cross.                                                        *)
EXTENDS Integers, Sequences, SequencesExt

CONSTANTS
    SerialModulus,   \* done serials wrap at this power of two (2^32 in the protocol)
    Texts,           \* what a field can show around its caret
    TooLong,         \* one of them, with a selection too long to send
    MaxFlight        \* bound: messages on their way, in each direction

ASSUME TextInputBounds == SerialModulus \in Nat \ {0, 1} /\ MaxFlight \in Nat \ {0}
ASSUME TextsAssumption == TooLong \in Texts /\ "none" \notin Texts

VARIABLES
    ti,        \* WaylandTextInputState
    batches,   \* its batches
    field,     \* the application: the field in focus, its text and its preedit
    toC,       \* committed requests on their way to the compositor
    toE,       \* events on their way to the editor
    comp       \* the compositor's side

textInputVars == <<ti, batches, field, toC, toE, comp>>

NoClient == "none"
NoPending == {}
Fields == {"editor", "find", "chrome"}

TextInputInit ==
    /\ ti = [attached |-> FALSE, entered |-> FALSE, focused |-> FALSE, enabled |-> FALSE,
             accepts |-> TRUE, dirty |-> FALSE, reset |-> FALSE, serial |-> 0,
             client |-> NoClient, pending |-> NoPending]
    /\ batches = <<>> /\ toC = <<>> /\ toE = <<>>
    /\ field = [focus |-> "editor", text |-> TooLong, preedit |-> "none",
                dirty |-> TRUE, lost |-> FALSE]
    /\ comp = [entered |-> FALSE, on |-> FALSE, seen |-> 0, client |-> NoClient]

-----------------------------------------------------------------------------
(* WaylandTextInputState, as functions of h.t its fields, h.bs its batches and
   h.rq the requests its calls return, grouped by the commit that ends them. *)

Held == [t |-> ti, bs |-> batches, rq |-> <<>>]

Request(h, kind) ==
    [h EXCEPT !.rq = Append(@, [kind |-> kind, client |-> h.t.client]),
              !.t.serial = (@ + 1) % SerialModulus]

Bug_Disable(h) == [h EXCEPT !.rq = Append(@, [kind |-> "disable", client |-> h.t.client])]
Disable(h) == Request(h, "disable")

Sent(h) == [h EXCEPT !.t.dirty = FALSE, !.t.reset = FALSE]

Bug_Reconcile(h) ==
    LET t == h.t IN
    IF ~(t.attached /\ t.entered /\ t.focused /\ t.client # NoClient) THEN
        [(IF t.enabled /\ t.attached /\ t.entered THEN Disable(h) ELSE h)
            EXCEPT !.t.enabled = FALSE]
    ELSE IF ~t.enabled THEN [Request(h, "enable") EXCEPT !.t.enabled = TRUE, !.t.dirty = FALSE]
    ELSE IF t.dirty THEN Sent(h)
    ELSE h

Reconcile(h) ==
    LET t == h.t IN
    IF ~(t.attached /\ t.entered /\ t.focused /\ t.client # NoClient) THEN
        [(IF t.enabled /\ t.attached /\ t.entered THEN Disable(h) ELSE h)
            EXCEPT !.t.enabled = FALSE]
    ELSE IF ~t.enabled THEN [Sent(Request(h, "enable")) EXCEPT !.t.enabled = TRUE]
    ELSE IF t.dirty /\ t.accepts THEN
        Sent(Request(h, IF t.reset THEN "enable" ELSE "state"))
    ELSE h

Bug_QueueCancellation(h) == h

QueueCancellation(h) ==
    [h EXCEPT !.bs = Append(@, [input |-> {}, refresh |-> FALSE, cancel |-> TRUE])]

ClearPending(h) == [h EXCEPT !.t.pending = NoPending]

Attach(h) ==
    Reconcile([h EXCEPT !.t = [@ EXCEPT !.attached = TRUE, !.entered = FALSE,
                 !.enabled = FALSE, !.accepts = TRUE, !.dirty = h.t.client # NoClient,
                 !.reset = FALSE, !.serial = 0, !.pending = NoPending]])

Detach(h) ==
    LET c == IF h.t.attached \/ h.t.enabled \/ h.t.pending # NoPending
             THEN QueueCancellation(h) ELSE h
    IN [c EXCEPT !.t = [@ EXCEPT !.attached = FALSE, !.entered = FALSE, !.enabled = FALSE,
                   !.accepts = TRUE, !.serial = 0, !.reset = FALSE, !.pending = NoPending]]

Enter(h) ==
    IF ~h.t.attached THEN h
    ELSE Reconcile([h EXCEPT !.t.entered = TRUE, !.t.dirty = h.t.client # NoClient])

Bug_Leave(h) ==
    IF ~(h.t.attached /\ h.t.entered) THEN h
    ELSE QueueCancellation(ClearPending([h EXCEPT !.t.entered = FALSE, !.t.accepts = TRUE]))

Leave(h) ==
    IF ~(h.t.attached /\ h.t.entered) THEN h
    ELSE QueueCancellation(ClearPending(
            [h EXCEPT !.t.entered = FALSE, !.t.enabled = FALSE, !.t.accepts = TRUE]))

SetKeyboardFocus(h, focused) ==
    IF h.t.focused = focused THEN h
    ELSE LET f == [h EXCEPT !.t.focused = focused]
         IN Reconcile(IF focused THEN f ELSE QueueCancellation(ClearPending(f)))

UpdateClientState(h, client) ==
    Reconcile(IF h.t.client = client THEN h
              ELSE [h EXCEPT !.t.client = client, !.t.dirty = TRUE,
                             !.t.reset = @ \/ (h.t.client # NoClient
                                 /\ (h.t.client = TooLong) # (client = TooLong))])

(* An event the input method may send before done. *)
Record(h, input) == [h EXCEPT !.t.pending = @ \cup {input}]

Bug_Refresh(t, serial) == serial = t.serial /\ t.pending # NoPending
Refresh(t, serial) == serial = t.serial /\ (t.dirty \/ t.pending # NoPending)

Done(h, serial) ==
    IF ~(h.t.attached /\ h.t.entered) THEN ClearPending(h)
    ELSE LET invalid == "invalid" \in h.t.pending IN
         [ClearPending(h) EXCEPT
            !.bs = Append(@, [input |-> IF invalid THEN {} ELSE h.t.pending,
                              refresh |-> Refresh(h.t, serial), cancel |-> invalid]),
            !.t.accepts = serial = h.t.serial]

(* Keep the state and the batches and send the requests, if there is an object. *)
Apply(h) ==
    /\ ti' = h.t /\ batches' = h.bs
    /\ toC' = IF h.t.attached THEN toC \o h.rq ELSE toC

-----------------------------------------------------------------------------
(* The application: f is field, and a batch goes to the field in focus.  Cards
   and menus drop batches, lost remembers a refresh dropped with one.         *)

CancelTextInput(f) == [f EXCEPT !.preedit = "none", !.dirty = TRUE]

Insert(f, b) ==
    LET changed == f.preedit # "none" \/ b.input \cap {"preedit", "commit"} # {}
    IN [f EXCEPT !.preedit = IF "preedit" \in b.input THEN f.focus ELSE "none",
                 !.dirty = @ \/ b.refresh \/ changed]

ApplyBatch(f, b) ==
    IF f.focus = "chrome" THEN
        IF b.cancel THEN [CancelTextInput(f) EXCEPT !.lost = @ \/ b.refresh]
        ELSE [f EXCEPT !.lost = @ \/ b.refresh]
    ELSE IF b.cancel THEN [CancelTextInput(f) EXCEPT
            !.dirty = f.focus = "editor" \/ f.preedit # "none" \/ f.dirty \/ b.refresh]
    ELSE Insert(f, b)

(* The application once it has been given the batches, one after another. *)
Given(f, bs) ==
    LET given[n \in 0 .. Len(bs)] == IF n = 0 THEN f ELSE ApplyBatch(given[n - 1], bs[n])
    IN given[Len(bs)]

(* TakeTextInputState and UpdateClientState, at several points of a turn. *)
Synchronize(f) ==
    IF f.dirty THEN
        /\ Apply(UpdateClientState([Held EXCEPT !.bs = <<>>], f.text))
        /\ field' = [f EXCEPT !.dirty = FALSE, !.lost = FALSE]
    ELSE Apply([Held EXCEPT !.bs = <<>>]) /\ field' = f

-----------------------------------------------------------------------------
(* Steps of the editor.  A turn of the loop delivers the batches, and then what
   its inputs do. *)

Room == Len(toC) < MaxFlight

DeliverBatches ==
    /\ Room /\ (batches # <<>> \/ field.dirty)
    /\ \E text \in Texts :
        /\ text # field.text =>
              field.focus # "chrome" /\ \E i \in DOMAIN batches : "commit" \in batches[i].input
        /\ Synchronize([Given(field, batches) EXCEPT !.text = text])
    /\ UNCHANGED <<toE, comp>>

(* A key or the pointer: the text around the caret changes, and a preedit ends. *)
Edit ==
    /\ Room /\ batches = <<>> /\ field.focus # "chrome"
    /\ \E text \in Texts \ {field.text} :
        Synchronize([CancelTextInput(field) EXCEPT !.text = text])
    /\ UNCHANGED <<toE, comp>>

(* The find bar, a card or a menu takes the focus or gives it back.  All but the
   end of a menu or a card mark the text input for a refresh. *)
MoveFocus(f, to) ==
    IF f.focus = "chrome" THEN [f EXCEPT !.focus = to]
    ELSE [CancelTextInput(f) EXCEPT !.focus = to]

ChangeFocus ==
    /\ Room /\ batches = <<>>
    /\ \E to \in Fields \ {field.focus} :
        /\ field.focus = "chrome" => to = "editor"
        /\ Synchronize(MoveFocus(field, to))
    /\ UNCHANGED <<toE, comp>>

(* The seat or the manager comes and goes, and with it the protocol object. *)
AttachObject ==
    /\ ~ti.attached
    /\ Apply(Attach(Held))
    /\ comp' = [entered |-> FALSE, on |-> FALSE, seen |-> 0, client |-> NoClient]
    /\ UNCHANGED <<field, toE>>

DetachObject ==
    /\ ti.attached /\ Len(batches) <= MaxFlight
    /\ LET h == Detach(Held) IN ti' = h.t /\ batches' = h.bs
    /\ toC' = <<>> /\ toE' = <<>>
    /\ comp' = [entered |-> FALSE, on |-> FALSE, seen |-> 0, client |-> NoClient]
    /\ UNCHANGED field

(* The seat loses its keyboard, or its focus without an event of text input's. *)
KeyboardLost ==
    /\ Room /\ Len(batches) <= MaxFlight /\ ti.focused
    /\ Apply(SetKeyboardFocus(Held, FALSE))
    /\ UNCHANGED <<field, toE, comp>>

EventArrives ==
    /\ toE # <<>> /\ Room /\ Len(batches) <= MaxFlight
    /\ LET e == Head(toE) IN
       Apply(CASE e.kind = "enter" -> Enter(Held)
               [] e.kind = "leave" -> Leave(Held)
               [] e.kind \in {"focus", "unfocus"} -> SetKeyboardFocus(Held, e.kind = "focus")
               [] e.kind = "done"  -> Done(Held, e.serial)
               [] OTHER            -> Record(Held, e.kind))
    /\ toE' = Tail(toE)
    /\ UNCHANGED <<field, comp>>

-----------------------------------------------------------------------------
(* The compositor. *)

Event(kind) == [kind |-> kind, serial |-> comp.seen]

(* The keyboard and text input enter and leave the surface together. *)
CompositorFocus ==
    /\ ti.attached /\ Len(toE) < MaxFlight
    /\ LET kinds == IF comp.entered THEN <<"unfocus", "leave">> ELSE <<"focus", "enter">>
       IN \E order \in {kinds, Reverse(kinds)} :
            toE' = toE \o [i \in 1 .. 2 |-> Event(order[i])]
    /\ comp' = [comp EXCEPT !.entered = ~@, !.on = FALSE]
    /\ UNCHANGED <<ti, batches, field, toC>>

CompositorCommit ==
    /\ toC # <<>>
    /\ LET r == Head(toC) IN
       comp' = [comp EXCEPT !.seen = (@ + 1) % SerialModulus, !.client = r.client,
                            !.on = IF r.kind = "state" THEN @ ELSE comp.entered /\ r.kind = "enable"]
    /\ toC' = Tail(toC)
    /\ UNCHANGED <<ti, batches, field, toE>>

InputMethod ==
    /\ comp.on /\ Len(toE) < MaxFlight
    /\ \E input \in {<<>>, <<"preedit">>, <<"commit">>, <<"invalid">>} :
        toE' = toE \o [i \in DOMAIN input |-> Event(input[i])] \o <<Event("done")>>
    /\ UNCHANGED <<ti, batches, field, toC, comp>>

TextInputNext ==
    \/ DeliverBatches \/ Edit \/ ChangeFocus \/ AttachObject \/ DetachObject
    \/ KeyboardLost \/ EventArrives
    \/ CompositorFocus \/ CompositorCommit \/ InputMethod

TextInputSpec == TextInputInit /\ [][TextInputNext]_textInputVars

-----------------------------------------------------------------------------
(* Type invariant; text input is on only where it could be turned on. *)
TextInputTypeOK ==
    /\ ti.serial \in 0 .. SerialModulus - 1
    /\ ti.enabled => ti.attached /\ ti.entered /\ ti.focused /\ ti.client # NoClient
    /\ ti.pending \subseteq {"preedit", "commit", "invalid"}
    /\ field.focus \in Fields /\ field.preedit \in Fields \cup {"none"}

(* The serial that done is compared with is the number of commits the object has
   been sent, whatever crossed on the way. *)
SerialCountsCommits ==
    ti.attached => ti.serial = (comp.seen + Len(toC)) % SerialModulus

(* Once nothing is on its way, the compositor knows whether text input is on and,
   unless the editor holds a newer one back, the client's state. *)
CompositorAgrees ==
    ti.attached /\ toC = <<>> /\ toE = <<>> =>
        /\ comp.entered = ti.entered
        /\ ti.focused => comp.on = ti.enabled
        /\ ti.enabled /\ ~ti.dirty => comp.client = ti.client

(* A state held back until a matching done does not stay held: once one has come
   the application is about to be told to send it, except for a refresh that a
   card or a menu dropped. *)
HeldStateIsAnnounced ==
    ti.enabled /\ ti.dirty /\ ti.accepts =>
        field.dirty \/ field.lost \/ \E i \in DOMAIN batches : batches[i].refresh

(* A preedit is in the field in focus, and none outlives the input method's
   leaving: once the batches are delivered it is gone. *)
PreeditHasItsField ==
    /\ field.preedit \in {"none", field.focus}
    /\ ~ti.entered /\ batches = <<>> => field.preedit = "none"

(* Client, compositor and the focused field agree about the text input. *)
TextInputAgrees ==
    /\ TextInputTypeOK /\ SerialCountsCommits /\ CompositorAgrees
    /\ HeldStateIsAnnounced /\ PreeditHasItsField
=============================================================================
