-------------------------- MODULE SpellcheckWorker --------------------------
(* The spelling worker: a thread that owns the dictionary, the one request
   that may wait for it, and the results it hands back to the application
   thread.  A region under the mutex is one step; what the application thread
   does between two such regions is nobody else's business, so a call of it is
   the list of the shared accesses it still has to make.                      *)
EXTENDS Integers, FiniteSets, Sequences, SequencesExt

CONSTANTS
    Words,          \* the words of texts and dictionaries
    Dictionaries,   \* the dictionaries discovery may find
    Known,          \* Known[d]: the words dictionary d accepts
    NoDictionary    \* the worker holds no dictionary

ASSUME KnownAssumption == Known \in [Dictionaries -> SUBSET Words]
ASSUME NoDictionaryAssumption == NoDictionary \notin Dictionaries

VARIABLES
    active,         \* activeGeneration; 0 is no session
    pending,        \* the request waiting behind the one executing, <<>> or <<task>>
    results,        \* results published and not yet taken
    readable,       \* the notification pipe holds a byte
    stopping,       \* the destructor has run
    nextGeneration, \* the next session's tag
    thread,         \* where the worker is: pc, its task and its result
    dictionary,     \* the dictionary loaded, the session the thread last worked for,
                    \* and (history) the session whose load read its files
    personal,       \* personal[d]: the words saved to d's personal file
    calls           \* shared accesses the application thread's call still makes

workerVars == <<active, pending, results, readable, stopping, nextGeneration,
                thread, dictionary, personal, calls>>

Operations == {"Discover", "Scan", "FindMatches", "AddPersonalWord"}
NoTask == [generation |-> 0, request |-> 0, operation |-> "Discover",
           dictionary |-> NoDictionary, text |-> <<>>, words |-> {}]
\* words: those a scan ignores, or the one to match or to add
NoResult == [generation |-> 0, request |-> 0, operation |-> "Discover",
             outcome |-> "Failed", position |-> 0, matches |-> {}, using |-> NoDictionary]
Asleep == [pc |-> "asleep", task |-> NoTask, result |-> NoResult]

WorkerInit ==
    /\ active = 0 /\ pending = <<>> /\ results = <<>> /\ readable = FALSE
    /\ stopping = FALSE /\ nextGeneration = 1
    /\ thread = Asleep
    /\ dictionary = [loaded |-> NoDictionary, generation |-> 0, read |-> 0]
    /\ personal = [d \in Dictionaries |-> {}]
    /\ calls = <<>>

IsCurrent(generation) == generation # 0 /\ active = generation

-----------------------------------------------------------------------------
(* The application thread's accesses, in the order its calls make them.       *)

Step(name, generation, task) == [step |-> name, generation |-> generation, task |-> task]
CancelCall(g) == <<Step("clear", g, NoTask)>>
BeginCall == <<Step("begin", 0, NoTask)>>
SubmitCall(task) == <<Step("check", task.generation, task)>>
Bug_TakeCall == <<Step("take", 0, NoTask), Step("drain", 0, NoTask)>>
TakeCall == <<Step("drain", 0, NoTask), Step("take", 0, NoTask)>>
Bug_StopCall == <<Step("notify", 0, NoTask), Step("stop", 0, NoTask), Step("join", 0, NoTask)>>
StopCall == <<Step("stop", 0, NoTask), Step("notify", 0, NoTask), Step("join", 0, NoTask)>>

Doing(name) == calls # <<>> /\ Head(calls).step = name

(* Cancel, before the lock: the compare-and-exchange that may return early.   *)
CancelClears ==
    /\ Doing("clear")
    /\ LET g == Head(calls).generation IN
        IF active = g THEN /\ active' = 0
                           /\ calls' = <<Step("erase", g, NoTask)>> \o Tail(calls)
                      ELSE /\ calls' = Tail(calls) /\ UNCHANGED active
    /\ UNCHANGED <<pending, results, readable, stopping, nextGeneration, thread,
                   dictionary, personal>>

(* std::remove_if: what belongs to other generations stays, in its order. *)
Others(queue, g) ==
    LET kept == {i \in DOMAIN queue : queue[i].generation # g}
        place(n) == CHOOSE i \in kept : Cardinality({j \in kept : j <= i}) = n
    IN [n \in 1 .. Cardinality(kept) |-> queue[place(n)]]

(* Cancel, under the lock. *)
CancelErases ==
    /\ Doing("erase")
    /\ LET g == Head(calls).generation IN
        /\ pending' = IF pending # <<>> /\ Head(pending).generation = g THEN <<>> ELSE pending
        /\ results' = Others(results, g)
    /\ readable' = FALSE
    /\ calls' = Tail(calls)
    /\ UNCHANGED <<active, stopping, nextGeneration, thread, dictionary, personal>>

BeginSession ==
    /\ Doing("begin")
    /\ active' = nextGeneration
    /\ nextGeneration' = nextGeneration + 1
    /\ pending' = <<>> /\ results' = <<>> /\ readable' = FALSE
    /\ calls' = Tail(calls)
    /\ UNCHANGED <<stopping, thread, dictionary, personal>>

(* Submit: the test before the lock and the one under it see the same
   generation, which only this thread writes. *)
Submit ==
    /\ Doing("check")
    /\ LET c == Head(calls) IN
        IF IsCurrent(c.generation) /\ ~stopping
        THEN /\ pending' = <<c.task>>
             /\ calls' = <<Step("notify", c.generation, NoTask)>> \o Tail(calls)
        ELSE /\ calls' = Tail(calls) /\ UNCHANGED pending
    /\ UNCHANGED <<active, results, readable, stopping, nextGeneration, thread,
                   dictionary, personal>>

(* condition.notify_one: only a worker already waiting hears it. *)
NotifyWorker ==
    /\ Doing("notify")
    /\ thread' = IF thread.pc = "asleep" THEN [thread EXCEPT !.pc = "check"] ELSE thread
    /\ calls' = Tail(calls)
    /\ UNCHANGED <<active, pending, results, readable, stopping, nextGeneration,
                   dictionary, personal>>

(* TakeResults drains the pipe before it looks at the results. *)
Drain ==
    /\ Doing("drain")
    /\ readable' = FALSE
    /\ calls' = Tail(calls)
    /\ UNCHANGED <<active, pending, results, stopping, nextGeneration, thread,
                   dictionary, personal>>

(* The destructor. *)
Stop ==
    /\ Doing("stop")
    /\ stopping' = TRUE /\ pending' = <<>> /\ active' = 0
    /\ calls' = Tail(calls)
    /\ UNCHANGED <<results, readable, nextGeneration, thread, dictionary, personal>>

Join ==
    /\ Doing("join")
    /\ thread.pc = "exited"
    /\ calls' = Tail(calls)
    /\ UNCHANGED <<active, pending, results, readable, stopping, nextGeneration,
                   thread, dictionary, personal>>

CallerStep == \/ CancelClears \/ CancelErases \/ BeginSession \/ Submit
              \/ NotifyWorker \/ Drain \/ Stop \/ Join

-----------------------------------------------------------------------------
(* The worker thread. *)

(* The dictionary outlives the session it was loaded for. *)
Bug_DictionaryFor(task) == [dictionary EXCEPT !.generation = task.generation]
DictionaryFor(task) ==
    IF dictionary.generation = task.generation THEN dictionary
    ELSE [dictionary EXCEPT !.loaded = NoDictionary, !.generation = task.generation]

(* pending is copied, not moved and reset. *)
Bug_Remaining == pending
Remaining == <<>>

(* Run, under the lock: leave, take the waiting request, or wait.  A new
   session drops the dictionary of the one before it. *)
RunChecks ==
    /\ thread.pc = "check"
    /\ IF stopping
       THEN /\ thread' = [Asleep EXCEPT !.pc = "exited"]
            /\ dictionary' = [dictionary EXCEPT !.loaded = NoDictionary]
            /\ UNCHANGED pending
       ELSE IF pending = <<>>
       THEN thread' = Asleep /\ UNCHANGED <<pending, dictionary>>
       ELSE LET task == Head(pending) IN
            /\ pending' = Remaining
            /\ thread' = [Asleep EXCEPT !.pc = "execute", !.task = task]
            /\ dictionary' = DictionaryFor(task)
    /\ UNCHANGED <<active, results, readable, stopping, nextGeneration, personal, calls>>

Result(outcome, position, matches) ==
    [generation |-> thread.task.generation, request |-> thread.task.request,
     operation |-> thread.task.operation, outcome |-> outcome,
     position |-> position, matches |-> matches, using |-> dictionary.loaded]

(* Publish is called with a result; Execute otherwise returns to Run. *)
PublishNext(result) == thread' = [thread EXCEPT !.pc = "publish", !.result = result]
Bug_Return == thread' = Asleep
Return == thread' = [Asleep EXCEPT !.pc = "check"]

MustLoad(task) == task.operation = "Scan" /\ dictionary.loaded # task.dictionary

(* Execute up to the dictionary: a superseded task is dropped at once. *)
ExecuteStarts ==
    /\ thread.pc = "execute"
    /\ IF ~IsCurrent(thread.task.generation)
       THEN Return /\ UNCHANGED dictionary
       ELSE IF MustLoad(thread.task)
       THEN /\ thread' = [thread EXCEPT !.pc = "load"]
            /\ dictionary' = [dictionary EXCEPT !.loaded = NoDictionary]
       ELSE thread' = [thread EXCEPT !.pc = "work"] /\ UNCHANGED dictionary
    /\ UNCHANGED <<active, pending, results, readable, stopping, nextGeneration,
                   personal, calls>>

(* SpellcheckDictionary::Load may fail; a session superseded meanwhile leaves
   the worker without a dictionary. *)
ExecuteLoads ==
    /\ thread.pc = "load"
    /\ \/ /\ ~IsCurrent(thread.task.generation)
          /\ Return /\ UNCHANGED dictionary
       \/ /\ IsCurrent(thread.task.generation)
          /\ PublishNext(Result("Failed", 0, {})) /\ UNCHANGED dictionary
       \/ /\ IsCurrent(thread.task.generation)
          /\ dictionary' = [dictionary EXCEPT !.loaded = thread.task.dictionary,
                                           !.read = thread.task.generation]
          /\ thread' = [thread EXCEPT !.pc = "work"]
    /\ UNCHANGED <<active, pending, results, readable, stopping, nextGeneration,
                   personal, calls>>

(* The places of a text a scan stops at. *)
Bug_Suspect(text, ignored) ==
    {i \in DOMAIN text : text[i] \notin
        Known[dictionary.loaded] \cup personal[dictionary.loaded]}
Suspect(text, ignored) ==
    {i \in DOMAIN text : text[i] \notin
        ignored \cup Known[dictionary.loaded] \cup personal[dictionary.loaded]}

Found(task) ==
    LET suspects == Suspect(task.text, task.words) IN
    IF suspects = {} THEN Result("Complete", 0, {})
    ELSE Result("Occurrence", Min(suspects) - 1, {})

(* Positions from 0, relative to the text's start, as the results carry them. *)
Matches(task) == {i - 1 : i \in {j \in DOMAIN task.text : task.text[j] \in task.words}}

ExecuteWorks ==
    /\ thread.pc = "work"
    /\ LET task == thread.task IN
        \/ task.operation # "AddPersonalWord" /\ ~IsCurrent(task.generation) /\ Return
           /\ UNCHANGED personal
        \/ task.operation = "Discover" /\ UNCHANGED personal
           /\ \E outcome \in {"Discovery", "NoneFound"} : PublishNext(Result(outcome, 0, {}))
        \/ task.operation = "Scan" /\ PublishNext(Found(task)) /\ UNCHANGED personal
        \/ task.operation = "FindMatches" /\ UNCHANGED personal
           /\ PublishNext(Result("Matches", 0, Matches(task)))
        \/ PublishNext(Result("Failed", 0, {})) /\ UNCHANGED personal   \* an exception
        \/ /\ task.operation = "AddPersonalWord" /\ dictionary.loaded # NoDictionary
           /\ \/ /\ personal' = [personal EXCEPT
                        ![dictionary.loaded] = @ \cup task.words]
                 /\ PublishNext(Result("Added", 0, {}))
              \/ PublishNext(Result("NotAdded", 0, {})) /\ UNCHANGED personal
    /\ UNCHANGED <<active, pending, results, readable, stopping, nextGeneration,
                   dictionary, calls>>

(* Publish, under the lock. *)
PublishQueues ==
    /\ thread.pc = "publish"
    /\ IF stopping \/ ~IsCurrent(thread.result.generation)
       THEN Return /\ UNCHANGED results
       ELSE /\ results' = Append(results, thread.result)
            /\ thread' = [thread EXCEPT !.pc = "write"]
    /\ UNCHANGED <<active, pending, readable, stopping, nextGeneration, dictionary,
                   personal, calls>>

(* Publish, after the lock: the byte that wakes the event loop.  A full pipe
   is readable already. *)
PublishWrites ==
    /\ thread.pc = "write"
    /\ readable' = TRUE
    /\ Return
    /\ UNCHANGED <<active, pending, results, stopping, nextGeneration, dictionary,
                   personal, calls>>

WorkerStep == \/ RunChecks \/ ExecuteStarts \/ ExecuteLoads \/ ExecuteWorks
              \/ PublishQueues \/ PublishWrites
=============================================================================
