-------------------------- MODULE SpellcheckReview --------------------------
(* A spelling review: the card and its session on the application thread, over
   the worker of SpellcheckWorker.  A document is a sequence of words, each
   marked with how the review met it, so that positions count words.          *)
EXTENDS SpellcheckWorker

CONSTANTS
    Documents,       \* the texts a review may be opened on
    Selections,      \* the scopes it may be opened for, <<start, end>>
    Replacements,    \* what the replacement field may hold, as sequences of words
    MaxGenerations,  \* bound: worker generations begun
    MaxRequests,     \* bound: requests of one session after which no decision is taken
    MaxLength        \* bound: words in the document

VARIABLES
    doc,        \* the document: words marked "outside", "unmet", "kept" or "typed"
    outside,    \* history: the words the selection left out, before and after it
    card,       \* "closed", "discovering", "failed", "review" or "quit"
    discovery,  \* spellcheckDiscoveryGeneration
    scope,      \* spellcheckScopeStart, spellcheckScopeEnd
    session     \* the session, or NoSession

reviewVars == <<doc, outside, card, discovery, scope, session>>
vars == <<workerVars, reviewVars>>

NoSession == [state |-> "none", generation |-> 0, request |-> 0,
              dictionary |-> NoDictionary, start |-> 0, end |-> 0, scan |-> 0,
              current |-> FALSE, all |-> FALSE, replacement |-> <<>>, ignored |-> {}]

Word(p) == doc[p + 1].word
TextFrom(d, from, to) == [i \in 1 .. to - from |-> d[from + i].word]
OutsideOf(d) == SelectSeq(d, LAMBDA u : u.mark = "outside")

Init ==
    /\ WorkerInit
    /\ \E words \in Documents :
        doc = [i \in DOMAIN words |-> [word |-> words[i], mark |-> "outside"]]
    /\ outside = doc
    /\ card = "closed" /\ discovery = 0 /\ session = NoSession
    /\ scope = [start |-> 0, end |-> 0]

-----------------------------------------------------------------------------
(* The session. *)

Task(s, operation, text, words) ==
    [generation |-> s.generation, request |-> s.request, operation |-> operation,
     dictionary |-> s.dictionary, text |-> text, words |-> words]

(* ScanNext: the rest of the scope goes to the worker, unless none is left.
   The result is the session and the calls it makes. *)
ScanNext(s, d) ==
    IF s.scan >= s.end
    THEN [session |-> [s EXCEPT !.state = "Complete", !.current = FALSE], calls |-> <<>>]
    ELSE LET asking == [s EXCEPT !.state = "Checking", !.current = FALSE,
                                 !.request = @ + 1]
         IN [session |-> asking,
             calls |-> SubmitCall(Task(asking, "Scan", TextFrom(d, s.scan, s.end), s.ignored))]

Goes(next) == session' = next.session /\ calls' = next.calls

(* Apply: the words at the places of ps give way to the replacement, the scope
   follows, and the scan resumes behind the first replacement. *)
Typed(replacement) == [i \in DOMAIN replacement |->
                          [word |-> replacement[i], mark |-> "typed"]]
Replaced(d, ps, replacement) ==
    FlattenSeq([i \in DOMAIN d |-> IF i - 1 \in ps THEN Typed(replacement) ELSE <<d[i]>>])

Bug_Apply(s, ps, replacement) ==
    LET d == Replaced(doc, ps, replacement)
        moved == [s EXCEPT !.end = @ + (Len(replacement) - 1), !.scan = @ + Len(replacement)]
    IN doc' = d /\ Goes(ScanNext(moved, d))

Apply(s, ps, replacement) ==
    LET d == Replaced(doc, ps, replacement)
        delta == (Len(replacement) - 1) * Cardinality(ps)
        moved == [s EXCEPT !.end = @ + delta, !.scan = @ + Len(replacement)]
    IN doc' = d /\ Goes(ScanNext(moved, d))

(* AdvancePastCurrent *)
Bug_AdvancePast(s, d) == ScanNext([s EXCEPT !.scan = @ + 2], d)

AdvancePast(s, d) == ScanNext([s EXCEPT !.scan = @ + 1], d)

KeepCurrent == doc' = [doc EXCEPT ![session.scan + 1].mark = "kept"]

Fail(s) == [s EXCEPT !.state = "Failed", !.current = FALSE]

(* HandleResult: scan is the current occurrence's place from the moment it is
   shown, so an answer about it is relative to scan too. *)
HandleResult(r) ==
    \/ /\ r.outcome = "Failed"
       /\ Goes([session |-> Fail(session), calls |-> <<>>]) /\ UNCHANGED doc
    \/ /\ r.outcome = "Added"
       /\ Goes(AdvancePast(session, doc)) /\ UNCHANGED doc
    \/ /\ r.outcome = "NotAdded"
       /\ Goes([session |-> [session EXCEPT !.state = "Decision"], calls |-> <<>>])
       /\ UNCHANGED doc
    \/ /\ r.outcome = "Matches"
       /\ IF 0 \in r.matches /\ session.all
                /\ \A p \in r.matches : p < session.end - session.scan
          THEN Apply([session EXCEPT !.all = FALSE],
                     {session.scan + p : p \in r.matches}, session.replacement)
          ELSE Goes([session |-> Fail(session), calls |-> <<>>]) /\ UNCHANGED doc
    \/ /\ r.outcome = "Complete"
       /\ Goes([session |-> [session EXCEPT !.scan = session.end, !.state = "Complete"],
                calls |-> <<>>])
       /\ UNCHANGED doc
    \/ /\ r.outcome = "Occurrence"
       /\ Goes([session |-> IF r.position < session.end - session.scan
                            THEN [session EXCEPT !.scan = @ + r.position,
                                    !.current = TRUE, !.state = "Decision"]
                            ELSE Fail(session),
                calls |-> <<>>])
       /\ UNCHANGED doc

-----------------------------------------------------------------------------
(* The card. *)

Idle == calls = <<>> /\ card # "quit"

(* OpenSpellcheck: the scope is the selection, or all of the document. *)
OpenSpellcheck ==
    /\ Idle /\ card = "closed" /\ nextGeneration < MaxGenerations
    /\ card' = "discovering"
    /\ \E s \in Selections :
        /\ s[2] <= Len(doc)
        /\ scope' = [start |-> s[1], end |-> s[2]]
        /\ doc' = [i \in DOMAIN doc |-> [doc[i] EXCEPT !.mark =
                        IF s[1] < i /\ i <= s[2] THEN "unmet" ELSE "outside"]]
    /\ outside' = OutsideOf(doc')
    /\ discovery' = nextGeneration
    /\ calls' = BeginCall \o SubmitCall([NoTask EXCEPT !.generation = nextGeneration,
                                                       !.request = 1])
    /\ UNCHANGED session

(* Destroying the session cancels its generation. *)
DropSession == IF session = NoSession THEN <<>> ELSE CancelCall(session.generation)

(* CloseSpellcheck *)
Bug_CloseSpellcheck ==
    /\ Idle /\ card \in {"discovering", "failed", "review"}
    /\ card' = "closed" /\ discovery' = 0
    /\ calls' = DropSession \o (IF discovery = 0 THEN <<>> ELSE CancelCall(discovery))
    /\ UNCHANGED <<doc, outside, scope, session>>

CloseSpellcheck ==
    /\ Idle /\ card \in {"discovering", "failed", "review"}
    /\ card' = "closed" /\ discovery' = 0 /\ session' = NoSession
    /\ calls' = DropSession \o (IF discovery = 0 THEN <<>> ELSE CancelCall(discovery))
    /\ UNCHANGED <<doc, outside, scope>>

(* StartSpellcheckSession: a session before it leaves its scope behind, and
   what it had settled is to be settled again. *)
Unmet(d) == [i \in DOMAIN d |-> IF d[i].mark = "outside" THEN d[i]
                                ELSE [d[i] EXCEPT !.mark = "unmet"]]
StartSpellcheckSession(d) ==
    LET from == IF session = NoSession THEN scope
                ELSE [start |-> session.start, end |-> session.end]
        fresh == [NoSession EXCEPT !.generation = nextGeneration, !.dictionary = d,
                    !.start = from.start, !.end = from.end, !.scan = from.start]
        next == ScanNext(fresh, doc)
    IN /\ scope' = from
       /\ session' = next.session
       /\ calls' = DropSession \o BeginCall \o next.calls
       /\ card' = "review"
       /\ doc' = Unmet(doc)
       /\ UNCHANGED outside

(* ActivateSpellcheckControl, Dictionary *)
ChangeDictionary ==
    /\ Idle /\ card = "review" /\ nextGeneration < MaxGenerations
    /\ \E d \in Dictionaries : StartSpellcheckSession(d)
    /\ UNCHANGED discovery

Deciding == /\ Idle /\ card = "review"
            /\ session.state = "Decision" /\ session.current
            /\ session.request < MaxRequests

(* The replacements the bound on the document leaves. *)
Room(count) == {r \in Replacements : Len(doc) + count * (Len(r) - 1) <= MaxLength}

Replace ==
    /\ Deciding
    /\ \E r \in Room(1) : Apply(session, {session.scan}, r)
    /\ UNCHANGED <<outside, card, discovery, scope>>

Asks(s, operation, text) ==
    /\ session' = [s EXCEPT !.state = "Checking", !.request = @ + 1]
    /\ calls' = SubmitCall(Task(session', operation, text, {Word(s.scan)}))

ReplaceEvery ==
    /\ Deciding
    /\ \E r \in Room(Cardinality({i \in DOMAIN doc : doc[i].word = Word(session.scan)})) :
        Asks([session EXCEPT !.all = TRUE, !.replacement = r], "FindMatches",
             TextFrom(doc, session.scan, session.end))
    /\ UNCHANGED <<doc, outside, card, discovery, scope>>

Ignore ==
    /\ Deciding
    /\ KeepCurrent
    /\ Goes(AdvancePast(session, doc))
    /\ UNCHANGED <<outside, card, discovery, scope>>

IgnoreAll ==
    /\ Deciding
    /\ Goes(AdvancePast([session EXCEPT !.ignored = @ \cup {Word(session.scan)}], doc))
    /\ UNCHANGED <<doc, outside, card, discovery, scope>>

AddToDictionary ==
    /\ Deciding
    /\ Asks(session, "AddPersonalWord", <<>>)
    /\ UNCHANGED <<doc, outside, card, discovery, scope>>

CardStep == \/ OpenSpellcheck \/ CloseSpellcheck \/ ChangeDictionary \/ Replace
            \/ ReplaceEvery \/ Ignore \/ IgnoreAll \/ AddToDictionary

-----------------------------------------------------------------------------
(* ProcessSpellcheckResults, which every turn of the event loop calls: the
   results are drained, then taken, then handled. *)

Poll ==
    /\ Idle /\ (card # "closed" \/ readable)
    /\ calls' = TakeCall
    /\ UNCHANGED reviewVars

Answers(r) ==
    IF session # NoSession
    THEN r.generation = session.generation /\ r.request = session.request
    ELSE r.generation = discovery /\ discovery # 0 /\ card = "discovering"

Awaited == {i \in DOMAIN results : Answers(results[i])}

(* At most one of the results taken is the one awaited: the next request is
   made only once it has been handled. *)
TakeResults ==
    /\ Doing("take")
    /\ results' = <<>>
    /\ \/ /\ Awaited = {}
          /\ calls' = Tail(calls)
          /\ UNCHANGED reviewVars
       \/ /\ session # NoSession
          /\ \E i \in Awaited : HandleResult(results[i])
          /\ UNCHANGED <<outside, card, discovery, scope>>
       \/ /\ session = NoSession
          /\ discovery' = 0
          /\ \E i \in Awaited :
               IF results[i].outcome = "Discovery"
               THEN \E d \in Dictionaries : StartSpellcheckSession(d)
               ELSE /\ card' = "failed" /\ calls' = <<>>
                    /\ UNCHANGED <<doc, outside, scope, session>>

(* The application ends: the session goes first, then the worker. *)
Quit ==
    /\ Idle
    /\ card' = "quit" /\ session' = NoSession /\ discovery' = 0
    /\ calls' = DropSession \o StopCall
    /\ UNCHANGED <<doc, outside, scope>>

sharedVars == <<active, pending, readable, stopping, nextGeneration, thread,
                dictionary, personal>>

UserStep == (CardStep \/ Quit) /\ UNCHANGED sharedVars /\ UNCHANGED results
PollStep == Poll /\ UNCHANGED sharedVars /\ UNCHANGED results
TakeStep == TakeResults /\ UNCHANGED sharedVars
ThreadStep == WorkerStep /\ UNCHANGED reviewVars
CallStep == CallerStep /\ UNCHANGED reviewVars

Next == UserStep \/ PollStep \/ TakeStep \/ ThreadStep \/ CallStep

Spec == Init /\ [][Next]_vars

(* Both threads run, and the event loop wakes when the pipe is readable; what
   the user does is never owed. *)
Fairness ==
    /\ WF_vars(ThreadStep)
    /\ WF_vars(CallStep \/ TakeStep \/ (readable /\ PollStep))

FairSpec == Spec /\ Fairness

-----------------------------------------------------------------------------
TypeOK ==
    /\ active \in Nat /\ nextGeneration \in Nat /\ discovery \in Nat
    /\ readable \in BOOLEAN /\ stopping \in BOOLEAN
    /\ Len(pending) <= 1
    /\ thread.pc \in {"asleep", "check", "execute", "load", "work", "publish", "write", "exited"}
    /\ personal \in [Dictionaries -> SUBSET Words]
    /\ dictionary.loaded \in Dictionaries \cup {NoDictionary}
    /\ session.state \in {"none", "Checking", "Decision", "Complete", "Failed"}
    /\ (session = NoSession) = (card # "review")
    /\ Len(doc) <= MaxLength

(* Publish queues under the lock and writes the pipe after it, and the drains
   of TakeResults, BeginSession and Cancel fall anywhere between: still no
   result is ever left in the queue with nothing to wake the event loop. *)
NoResultIsStranded ==
    results # <<>> => readable \/ thread.pc = "write" \/ Doing("take")

(* The worker never waits while a request or the order to stop is there for
   it, unless the notification is the next thing the application thread does. *)
NoRequestIsStranded ==
    thread.pc = "asleep" /\ (pending # <<>> \/ stopping) => Doing("notify")

(* What a scan compares with and an addition adds to is the dictionary of the
   session that asked, its files read anew for it, whatever sessions were cancelled while
   the worker was loading. *)
WorksWithOwnDictionary ==
    thread.pc = "work" /\ thread.task.operation \in {"Scan", "AddPersonalWord"} =>
        /\ dictionary.loaded = thread.task.dictionary
        /\ dictionary.read = thread.task.generation

(* A result the session will accept answers the request it is waiting for:
   none is left over from an earlier decision or a session closed before it,
   and there is never a second one. *)
AnswersAreAwaited ==
    /\ \A i, j \in Awaited : i = j
    /\ session # NoSession /\ Awaited # {} => session.state = "Checking"

(* While the review replaces, its scope stays what the user selected: the words
   in it are the selected ones and their replacements, those around it are as
   they were. *)
ScopeFollowsTheText ==
    /\ OutsideOf(doc) = outside
    /\ session # NoSession =>
        \A i \in DOMAIN doc : doc[i].mark # "outside" <=>
            session.start < i /\ i <= session.end

(* "No more suspected spelling errors" is true: every word of the scope is in
   the dictionary or the personal one, or the user let it stand or typed it. *)
CompleteMeansReviewed ==
    session.state = "Complete" =>
        \A i \in session.start + 1 .. session.end :
            \/ doc[i].mark \in {"kept", "typed"}
            \/ doc[i].word \in Known[session.dictionary] \cup
                    personal[session.dictionary] \cup session.ignored

(* The word a decision is about is misspelled for the session that shows it. *)
DecisionsAreNeeded ==
    session.state = "Decision" =>
        /\ session.scan < session.end
        /\ Word(session.scan) \notin Known[session.dictionary] \cup session.ignored

(* A review that is checking comes to a decision or an end, whatever sessions
   it replaced. *)
CheckingEnds == (session.state = "Checking") ~> (session.state # "Checking")

(* The search for dictionaries is answered. *)
DiscoveryEnds == (card = "discovering") ~> (card # "discovering")

(* The destructor's join returns: the worker hears it wherever it is. *)
QuitEnds == (card = "quit") ~> (thread.pc = "exited" /\ calls = <<>>)

(* Neither thread ever leaves the other waiting for what it has. *)
NothingIsStranded == NoResultIsStranded /\ NoRequestIsStranded

(* Work and answers belong to the review that asked, whatever came before it. *)
AnswersBelong == WorksWithOwnDictionary /\ AnswersAreAwaited

(* What the card shows is true of the text it covers. *)
ReviewIsTrue == TypeOK /\ ScopeFollowsTheText /\ CompleteMeansReviewed /\ DecisionsAreNeeded

(* Discovery, checking and the destructor all come to their end. *)
WorkEnds == CheckingEnds /\ DiscoveryEnds /\ QuitEnds
=============================================================================
