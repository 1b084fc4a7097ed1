----------------------------- MODULE PortalDialogs -----------------------------
(* File dialogs through the desktop portal: a blocking D-Bus call that asks for
   a dialog, the Response signal that ends it, and the loop that dispatches what
   the connection has queued.  The portal and the bus are external; a portal may
   restart, answer before it replies, answer twice, or never answer.            *)
EXTENDS Integers, FiniteSets, Sequences, SequencesExt

CONSTANTS
    MaxShows,      \* bound: dialogs asked for
    MaxRestarts    \* bound: restarts of the portal

ASSUME DialogBounds == MaxShows \in Nat \ {0} /\ MaxRestarts \in Nat

VARIABLES
    pending,   \* WaylandFileDialogState::pending
    results,   \* WaylandFileDialogState::results
    active,    \* ActiveFileDialogs: requests the application waits for
    told,      \* what the application was told of each dialog it asked for
    call,      \* the method call the editor is blocked in
    loop,      \* where the loop is: "results", "effects", "poll", "dispatch", "over" or "off"
    queue,     \* messages the connection has read and not dispatched
    wire,      \* messages on their way to the editor
    portal,    \* the unique bus name of the portal that runs
    open,      \* dialogs on the screen
    chosen     \* what the user chose in each dialog

dialogVars == <<pending, results, active, told, call, loop, queue, wire, portal, open, chosen>>

Shows == 1 .. MaxShows
NoCall == 0
Verdicts == {"Accepted", "Cancelled", "Failed"}

(* A request path: the one the token predicts, or one of the portal's making. *)
Predicted(n) == [show |-> n, own |-> FALSE]
Handles(n) == [show : {n}, own : BOOLEAN]

DialogInit(on) ==
    /\ pending = {} /\ results = {} /\ active = {}
    /\ told = [n \in Shows |-> "unasked"]
    /\ call = NoCall /\ loop = IF on THEN "results" ELSE "off"
    /\ queue = <<>> /\ wire = <<>> /\ portal = 1 /\ open = {}
    /\ chosen = [n \in Shows |-> "none"]

-----------------------------------------------------------------------------
(* WaylandFileDialogState.  No two pending requests have one path, and results
   are of different requests, so neither list's order matters here.           *)

Ids(records) == {r.id : r \in records}

Begin(id, path, owner) == pending \cup {[id |-> id, path |-> path, owner |-> owner]}

Bug_Abandon(path) == pending
Abandon(path) == {p \in pending : p.path # path}

Bug_Retarget(path, handle, owner) ==
    {IF p.path = path THEN [p EXCEPT !.path = handle] ELSE p : p \in pending}

Bug_Retracked(path, handle, owner) ==
    pending \cup {[id |-> p.id, path |-> handle, owner |-> owner] :
                     p \in {q \in pending : q.path = path}}

Retarget(path, handle, owner) ==
    {IF p.path = path THEN [id |-> p.id, path |-> handle, owner |-> owner] ELSE p : p \in pending}

Bug_Matches(m, p) == m.path.show = p.path.show
Matches(m, p) == m.path = p.path /\ m.owner = p.owner

DeliverResponse(m) ==
    /\ pending' = {p \in pending : ~Matches(m, p)}
    /\ results' = results \cup
          {[id |-> p.id, status |-> m.status] : p \in {q \in pending : Matches(m, q)}}

-----------------------------------------------------------------------------
(* Show.  It asks who the portal is, tracks the predicted path, then blocks in
   the method call; other messages that arrive are queued, not dispatched.     *)

Asked(n) == told[n] = "unasked" /\ \A m \in 1 .. n - 1 : told[m] # "unasked"

ShowFails ==
    /\ loop = "effects" /\ call = NoCall
    /\ \E n \in Shows : Asked(n) /\ told' = [told EXCEPT ![n] = "failed"]
    /\ UNCHANGED <<pending, results, active, call, loop, queue, wire, portal, open, chosen>>

ShowCalls ==
    /\ loop = "effects" /\ call = NoCall
    /\ \E n \in Shows :
        /\ Asked(n)
        /\ pending' = Begin(n, Predicted(n), portal)
        /\ call' = n
    /\ UNCHANGED <<results, active, told, loop, queue, wire, portal, open, chosen>>

(* The call ended without a handle: an error, or the bus's own timeout. *)
Nullopt ==
    /\ pending' = Abandon(Predicted(call))
    /\ told' = [told EXCEPT ![call] = "failed"]
    /\ call' = NoCall
    /\ UNCHANGED active

ReplyTimesOut ==
    /\ call # NoCall
    /\ Nullopt
    /\ UNCHANGED <<results, loop, queue, wire, portal, open, chosen>>

(* Retarget changes nothing where the handle and the owner are the predicted ones. *)
Returns(reply) ==
    IF reply.status = "error" THEN Nullopt
    ELSE /\ pending' = Retarget(Predicted(call), reply.path, reply.owner)
         /\ active' = active \cup {call}
         /\ told' = [told EXCEPT ![call] = "showing"]
         /\ call' = NoCall

InFlight == Range(queue) \cup Range(wire)
IsReply(m) == m.kind = "reply" /\ m.path.show = call

(* A read takes the first n messages that have arrived. *)
Reads(n) ==
    /\ queue' = queue \o SubSeq(wire, 1, n)
    /\ wire' = SubSeq(wire, n + 1, Len(wire))

(* While blocked, a read that brings the reply ends the call.  The reply is of no
   use to the dispatch that comes across it later.                            *)
BlockedRead ==
    /\ call # NoCall
    /\ \E n \in DOMAIN wire :
        /\ Reads(n)
        /\ \/ \E i \in 1 .. n : IsReply(wire[i]) /\ Returns(wire[i])
           \/ (\A i \in 1 .. n : ~IsReply(wire[i])) /\ UNCHANGED <<pending, active, told, call>>
    /\ UNCHANGED <<results, loop, portal, open, chosen>>

-----------------------------------------------------------------------------
(* The loop. *)

(* ApplyFileDialogResults, at the turn's beginning. *)
ApplyFileDialogResults ==
    /\ loop = "results"
    /\ told' = [n \in Shows |-> IF n \in active /\ n \in Ids(results)
                                THEN (CHOOSE r \in results : r.id = n).status ELSE told[n]]
    /\ active' = active \ Ids(results)
    /\ results' = {}
    /\ loop' = "effects"
    /\ UNCHANGED <<pending, call, queue, wire, portal, open, chosen>>

WaitForEvents ==
    /\ loop = "effects" /\ call = NoCall
    /\ loop' = "poll"
    /\ UNCHANGED <<pending, results, active, told, call, queue, wire, portal, open, chosen>>

(* The poll returns for the bus's socket, or for the display, a timer or the
   spelling worker; only then is the queue dispatched.                       *)
WakeForBus ==
    /\ loop = "poll"
    /\ \E n \in DOMAIN wire : Reads(n)
    /\ loop' = "dispatch"
    /\ UNCHANGED <<pending, results, active, told, call, portal, open, chosen>>

WakeForOther ==
    /\ loop = "poll"
    /\ loop' = "dispatch"
    /\ UNCHANGED <<pending, results, active, told, call, queue, wire, portal, open, chosen>>

(* ProcessEvents: every queued message is dispatched; only Responses matter. *)
Dispatch ==
    /\ loop = "dispatch" /\ queue # <<>>
    /\ queue' = Tail(queue)
    /\ IF Head(queue).kind = "response" THEN DeliverResponse(Head(queue))
       ELSE UNCHANGED <<pending, results>>
    /\ UNCHANGED <<active, told, call, loop, wire, portal, open, chosen>>

DispatchEnds ==
    /\ loop = "dispatch" /\ queue = <<>>
    /\ loop' = "results"
    /\ UNCHANGED <<pending, results, active, told, call, queue, wire, portal, open, chosen>>

(* Clear: each pending request is closed at its portal, and forgotten. *)
Bug_Closed(d) == \E p \in pending : p.path = Predicted(d.path.show)
Closed(d) == \E p \in pending : Matches(d, p)

Clear ==
    /\ loop = "effects" /\ call = NoCall
    /\ open' = {d \in open : ~Closed(d)}
    /\ pending' = {} /\ results' = {} /\ queue' = <<>>
    /\ loop' = "over"
    /\ UNCHANGED <<active, told, call, wire, portal, chosen>>

-----------------------------------------------------------------------------
(* The portal. *)

Message(kind, path, owner, status) ==
    [kind |-> kind, path |-> path, owner |-> owner, status |-> status]
Send(m) == wire' = Append(wire, m)
Replied == \E m \in InFlight : IsReply(m)

(* It has the call: an error, or a dialog whose handle may be its own. *)
PortalAccepts ==
    /\ call # NoCall /\ ~Replied /\ ~ \E d \in open : d.path.show = call
    /\ \E handle \in Handles(call) :
        /\ Send(Message("reply", handle, portal, "ok"))
        /\ open' = open \cup {[path |-> handle, owner |-> portal]}
    /\ UNCHANGED <<pending, results, active, told, call, loop, queue, portal, chosen>>

PortalRefuses ==
    /\ call # NoCall /\ ~Replied
    /\ Send(Message("reply", Predicted(call), portal, "error"))
    /\ UNCHANGED <<pending, results, active, told, call, loop, queue, portal, open, chosen>>

(* The dialog ends; some portals say so twice. *)
UserChooses ==
    /\ loop # "over"
    /\ \E d \in open, choice \in Verdicts, twice \in BOOLEAN :
        LET m == Message("response", d.path, d.owner, choice)
        IN /\ wire' = wire \o IF twice THEN <<m, m>> ELSE <<m>>
           /\ open' = open \ {d}
           /\ chosen' = [chosen EXCEPT ![d.path.show] = choice]
    /\ UNCHANGED <<pending, results, active, told, call, loop, queue, portal>>

(* A portal goes and another starts; the new one may cancel what the old one
   was showing, though it was never asked for it.                            *)
PortalRestarts ==
    /\ loop \notin {"over", "off"} /\ portal <= MaxRestarts
    /\ portal' = portal + 1
    /\ open' = {}
    /\ \/ UNCHANGED wire
       \/ \E d \in open : Send(Message("response", d.path, portal + 1, "Cancelled"))
    /\ UNCHANGED <<pending, results, active, told, call, loop, queue, chosen>>

Portal == PortalAccepts \/ PortalRefuses \/ UserChooses \/ PortalRestarts
Loop ==
    \/ ApplyFileDialogResults \/ WaitForEvents \/ BlockedRead \/ ReplyTimesOut
    \/ Dispatch \/ DispatchEnds
DialogNext == ShowFails \/ ShowCalls \/ Loop \/ WakeForBus \/ WakeForOther \/ Clear \/ Portal
DialogSpec == DialogInit(TRUE) /\ [][DialogNext]_dialogVars

(* The loop runs, a blocked call ends, and the poll returns for its socket. *)
DialogFairness == WF_dialogVars(Loop) /\ WF_dialogVars(WakeForBus)

-----------------------------------------------------------------------------
(* Type invariant; a pending request is there once, at its own path. *)
DialogTypeOK ==
    /\ \A p, q \in pending : p.id \in Shows /\ (p.id = q.id \/ p.path = q.path => p = q)
    /\ active \subseteq Shows /\ call \in Shows \cup {NoCall}
    /\ told \in [Shows -> {"unasked", "failed", "showing"} \cup Verdicts]
    /\ chosen \in [Shows -> Verdicts \cup {"none"}]
    /\ \A r \in results : r.status \in Verdicts

(* An answer is not lost: while the editor waits for a dialog whose user has
   chosen, a Response that matches the pending request is on its way, or its
   result is queued.  This is what tracking the path before the call, and
   retargeting after it, are for. *)
AnswerOnItsWay ==
    \A n \in Shows : told[n] = "showing" /\ chosen[n] # "none" /\ loop # "over" =>
        \/ n \in Ids(results)
        \/ \E m \in InFlight, p \in pending : m.kind = "response" /\ Matches(m, p) /\ p.id = n

(* What waits in the state object is waited for by the application or by the
   call that is blocked, and the other way round: a request that failed is
   forgotten in both, one that was answered in neither too early. *)
RequestsAgree ==
    /\ loop # "over" => active \cup ({call} \ {NoCall}) = Ids(pending) \cup Ids(results)
    /\ active = {n \in Shows : told[n] = "showing"}

(* No dialog of a request the editor waited for outlives the editor. *)
NoDialogOutlives ==
    loop = "over" => \A d \in open : told[d.path.show] = "failed"

(* With what the workspace is told and what the users choose, the dialogs do
   what DialogPromise says. *)
DialogsKeepPromise ==
    INSTANCE DialogPromise WITH Asks <- Shows, Answers <- Verdicts,
                                outcome <- told, choice <- chosen

(* Refinement: every step of the dialogs is one the promise allows, or none. *)
KeepsPromise == DialogsKeepPromise!Promise

(* Every dialog that is tracked is one that can still be answered. *)
DialogsAreTracked == DialogTypeOK /\ AnswerOnItsWay /\ RequestsAgree /\ NoDialogOutlives
=============================================================================
