-------------------------- MODULE SpellcheckProofs --------------------------
(* Proofs about the spelling review and its worker: between the two threads no
   result and no request is left behind with nobody to hear of it, the worker
   compares and adds with the dictionary of the review that asked, and a review
   only meets the answer it is waiting for.  What they rest on is that a review
   has one request under way: it is in a call of the application thread, waits,
   is being worked on or is answered, and in one of these places only.         *)
EXTENDS SpellcheckReview, SequenceTheorems, FiniteSetTheorems, TLAPS

Begins == \E i \in DOMAIN calls : calls[i].step = "begin"
Working == thread.pc \in {"execute", "load", "work"}
Busy == Working \/ thread.pc = "publish"
\* a cancel or the destructor is about to take the active session away
Leaving == Doing("clear") \/ Doing("stop")

SessionFields == {"state", "generation", "request", "dictionary", "start", "end", "scan",
                  "current", "all", "replacement", "ignored"}
IsSession(s) ==
    /\ s = [f \in SessionFields |-> s[f]]
    /\ s.generation \in Nat \ {0} /\ s.request \in Nat
    /\ s.dictionary \in Dictionaries
    /\ s.state \in {"Checking", "Decision", "Complete", "Failed"}

IsTask(t) ==
    /\ t.generation \in Nat \ {0}
    /\ t.operation \in Operations
    /\ t.operation \in {"Scan", "AddPersonalWord"} => t.dictionary \in Dictionaries

(* One request waits at most and one result. *)
Formed ==
    /\ active \in Nat /\ nextGeneration \in Nat \ {0} /\ discovery \in Nat
    /\ active < nextGeneration
    /\ stopping \in BOOLEAN
    /\ pending # <<>> => pending = <<Head(pending)>> /\ IsTask(Head(pending))
    /\ results # <<>> => /\ results = <<Head(results)>>
                         /\ Head(results).generation \in Nat \ {0}
    /\ thread = [pc |-> thread.pc, task |-> thread.task, result |-> thread.result]
    /\ thread.pc \in {"asleep", "check", "write", "exited", "execute", "load", "work", "publish"}
    /\ Busy => IsTask(thread.task) /\ thread.task.generation < nextGeneration
    /\ thread.pc = "publish" => /\ thread.result.generation = thread.task.generation
                                /\ thread.result.request = thread.task.request
    /\ dictionary = [loaded |-> dictionary.loaded, generation |-> dictionary.generation,
                     read |-> dictionary.read]
    /\ session = NoSession \/ IsSession(session)

(* What the application thread has begun: a cancel may come first, a session is
   begun before its first request, the destructor's steps are the last. *)
BeginStep == Step("begin", 0, NoTask)
IsCheck(c) == c = Step("check", c.task.generation, c.task) /\ IsTask(c.task)
After(c) ==
    \/ calls = <<c>>
    \/ calls = <<c, BeginStep>>
    \/ (Len(calls) = 3 /\ calls = <<c, BeginStep, calls[3]>> /\ IsCheck(calls[3]))
    \/ calls = <<c, Step("stop", 0, NoTask), Step("notify", 0, NoTask), Step("join", 0, NoTask)>>
Cancelling ==
    /\ Doing("clear") \/ Doing("erase")
    /\ After(Head(calls))
    /\ Head(calls).generation \in Nat \ {0} /\ Head(calls).generation < nextGeneration
    /\ active = IF Doing("clear") THEN Head(calls).generation ELSE 0
    /\ (session # NoSession \/ discovery # 0) => Begins
Beginning ==
    \/ calls = <<BeginStep>>
    \/ (Len(calls) = 2 /\ calls = <<BeginStep, calls[2]>> /\ IsCheck(calls[2]))
Leaves(q) == q = StopCall \/ q = Tail(StopCall) \/ q = Tail(Tail(StopCall))
Calling ==
    \/ calls = <<>>
    \/ Cancelling
    \/ Beginning
    \/ (calls = <<Head(calls)>> /\ IsCheck(Head(calls)))
    \/ (calls = <<Head(calls)>> /\ Doing("notify"))
    \/ calls = TakeCall
    \/ calls = Tail(TakeCall)
    \/ Leaves(calls)

(* The card, the session and the destructor. *)
Staged ==
    /\ (session = NoSession) = (card # "review")
    /\ discovery # 0 => card = "discovering"
    /\ session # NoSession =>
        /\ discovery = 0
        /\ session.generation = IF Begins THEN nextGeneration ELSE active
        /\ session.state = "Decision" => ~Begins
    /\ discovery # 0 => discovery = IF Begins THEN nextGeneration ELSE active
    /\ (\E i \in DOMAIN calls : calls[i].step \in {"stop", "join"}) => card = "quit"
    /\ stopping => /\ card = "quit" /\ active = 0 /\ pending = <<>>
                   /\ \/ calls = <<>> \/ calls = Tail(StopCall)
                      \/ calls = Tail(Tail(StopCall))

(* A request the review or the search for dictionaries waits for. *)
Awaits(r) ==
    \/ /\ session # NoSession /\ session.state = "Checking"
       /\ r.generation = session.generation /\ r.request = session.request
    \/ /\ session = NoSession /\ discovery # 0
       /\ r.generation = discovery
AwaitsTask(t) == Awaits(t) /\ (session # NoSession => t.dictionary = session.dictionary)

(* Whose request it is that waits, is worked on or is answered. *)
Erasing(g) == Doing("erase") /\ Head(calls).generation = g
Owned ==
    /\ \A i \in DOMAIN calls : calls[i].step = "check" => AwaitsTask(calls[i].task)
    /\ pending # <<>> => LET t == Head(pending) IN
        /\ t.generation = active \/ Erasing(t.generation)
        /\ t.generation = active /\ ~Leaving => AwaitsTask(t)
    /\ Busy /\ thread.task.generation = active /\ ~Leaving => AwaitsTask(thread.task)
    /\ results # <<>> => LET r == Head(results) IN
        /\ r.generation = active \/ Erasing(r.generation) \/ stopping
        /\ r.generation = active /\ ~Leaving => Awaits(r)

(* It is in one place only. *)
Alone ==
    /\ Doing("check") => /\ pending = <<>> /\ results = <<>>
                         /\ Busy => thread.task.generation # Head(calls).generation
    /\ pending # <<>> => /\ results = <<>>
                         /\ Busy => thread.task.generation # Head(pending).generation
    /\ results # <<>> => ~Busy

(* The dictionary fits what the worker does with it, and what it is still to do
   with it: between the answers of a review it stays loaded. *)
Fits(d, g) == dictionary.loaded = d /\ dictionary.generation = g
Adds(t) == t.operation = "AddPersonalWord"
Spoken == {"Occurrence", "NotAdded"}
Fitting ==
    /\ dictionary.loaded # NoDictionary => dictionary.read = dictionary.generation
    /\ Working => dictionary.generation = thread.task.generation
    /\ thread.pc = "load" => thread.task.operation = "Scan"
    /\ thread.pc = "work" /\ thread.task.operation = "Scan" =>
        dictionary.loaded = thread.task.dictionary
    /\ Working /\ Adds(thread.task) => dictionary.loaded = thread.task.dictionary
    /\ \A i \in DOMAIN calls : calls[i].step = "check" /\ Adds(calls[i].task) =>
        /\ Fits(calls[i].task.dictionary, calls[i].task.generation)
        /\ ~Working /\ ~Begins
    /\ pending # <<>> /\ Adds(Head(pending)) =>
        Fits(Head(pending).dictionary, Head(pending).generation) /\ ~Working
    /\ session # NoSession /\ session.state = "Decision" =>
        Fits(session.dictionary, session.generation) /\ ~Working
    /\ thread.pc = "publish" /\ thread.result.outcome \in Spoken =>
        Fits(thread.task.dictionary, thread.task.generation)
    /\ results # <<>> /\ Head(results).outcome \in Spoken /\ Head(results).generation = active
            /\ ~Leaving /\ session # NoSession =>
        Fits(session.dictionary, session.generation)

Heard == NoResultIsStranded /\ NoRequestIsStranded

ReviewInv == /\ Formed /\ Calling /\ Staged /\ Owned /\ Alone /\ Fitting /\ Heard

-----------------------------------------------------------------------------
(* The worker's steps. *)

Rest == <<calls, session, card, discovery>>

(* What is left of a call, by the access that comes first. *)
LEMMA CallForms ==
    ASSUME Calling
    PROVE  /\ Doing("clear") \/ Doing("erase") => Cancelling
           /\ Doing("begin") => Beginning
           /\ Doing("check") => calls = <<Head(calls)>> /\ IsCheck(Head(calls))
           /\ Doing("notify") => calls = <<Head(calls)>> \/ calls = Tail(StopCall)
           /\ Doing("drain") => calls = TakeCall
           /\ Doing("take") => calls = Tail(TakeCall)
           /\ Doing("stop") => calls = StopCall
           /\ Doing("join") => calls = Tail(Tail(StopCall))
<1>1. Cancelling => Doing("clear") \/ Doing("erase")
  BY DEF Cancelling
<1>2. Beginning => Doing("begin")
  BY DEF Beginning, BeginStep, Step, Doing
<1>3. calls = <<Head(calls)>> /\ IsCheck(Head(calls)) => Doing("check")
  BY DEF IsCheck, Step, Doing
<1>4. calls = TakeCall => Doing("drain")
  BY DEF TakeCall, Step, Doing
<1>5. calls = Tail(TakeCall) => Doing("take")
  BY DEF TakeCall, Step, Doing
<1>6. calls = StopCall => Doing("stop")
  BY DEF StopCall, Step, Doing
<1>7. calls = Tail(StopCall) => Doing("notify")
  BY DEF StopCall, Step, Doing
<1>8. calls = Tail(Tail(StopCall)) => Doing("join")
  BY DEF StopCall, Step, Doing
<1> DEFINE h == Head(calls).step
<1>9. \/ calls = <<>>
      \/ Cancelling /\ h \in {"clear", "erase"}
      \/ Beginning /\ h = "begin"
      \/ (calls = <<Head(calls)>> /\ IsCheck(Head(calls))) /\ h = "check"
      \/ calls = <<Head(calls)>> /\ h = "notify"
      \/ calls = TakeCall /\ h = "drain"
      \/ calls = Tail(TakeCall) /\ h = "take"
      \/ calls = StopCall /\ h = "stop"
      \/ calls = Tail(StopCall) /\ h = "notify"
      \/ calls = Tail(Tail(StopCall)) /\ h = "join"
  <2>1. CASE Cancelling
    BY <1>1, <2>1 DEF Doing
  <2>2. CASE Beginning
    BY <1>2, <2>2 DEF Doing
  <2>3. CASE calls = <<Head(calls)>> /\ IsCheck(Head(calls))
    BY <1>3, <2>3 DEF Doing
  <2>4. CASE calls = <<Head(calls)>> /\ Doing("notify")
    BY <2>4 DEF Doing
  <2>5. CASE calls = TakeCall
    BY <1>4, <2>5 DEF Doing
  <2>6. CASE calls = Tail(TakeCall)
    BY <1>5, <2>6 DEF Doing
  <2>7. CASE calls = StopCall
    BY <1>6, <2>7 DEF Doing
  <2>8. CASE calls = Tail(StopCall)
    BY <1>7, <2>8 DEF Doing
  <2>9. CASE calls = Tail(Tail(StopCall))
    BY <1>8, <2>9 DEF Doing
  <2> QED
    BY <2>1, <2>2, <2>3, <2>4, <2>5, <2>6, <2>7, <2>8, <2>9 DEF Calling, Leaves
<1> QED
  <2>1. Doing("clear") \/ Doing("erase") => Cancelling
    BY <1>9 DEF Doing
  <2>2. Doing("begin") => Beginning
    BY <1>9 DEF Doing
  <2>3. Doing("check") => calls = <<Head(calls)>> /\ IsCheck(Head(calls))
    BY <1>9 DEF Doing
  <2>4. Doing("notify") => calls = <<Head(calls)>> \/ calls = Tail(StopCall)
    BY <1>9 DEF Doing
  <2>5. Doing("drain") => calls = TakeCall
    BY <1>9 DEF Doing
  <2>6. Doing("take") => calls = Tail(TakeCall)
    BY <1>9 DEF Doing
  <2>7. Doing("stop") => calls = StopCall
    BY <1>9 DEF Doing
  <2>8. Doing("join") => calls = Tail(Tail(StopCall))
    BY <1>9 DEF Doing
  <2> QED BY <2>1, <2>2, <2>3, <2>4, <2>5, <2>6, <2>7, <2>8

(* A request of a session already begun is all there is of a call. *)
LEMMA CheckIsFirst ==
    ASSUME Calling, ~Begins, NEW i \in DOMAIN calls, calls[i].step = "check"
    PROVE  Doing("check") /\ i = 1
<1>1. CASE Cancelling
  <2> DEFINE c == Head(calls)
  <2>1. c.step # "check"
    BY <1>1 DEF Cancelling, Doing
  <2>2. CASE calls = <<c>>
    BY <2>1, <2>2
  <2>3. CASE calls = <<c, BeginStep>> \/ calls = <<c, BeginStep, calls[3]>>
    <3>1. 2 \in DOMAIN calls /\ calls[2].step = "begin"
      BY <2>3 DEF BeginStep, Step
    <3> QED BY <3>1 DEF Begins
  <2>4. CASE calls = <<c, Step("stop", 0, NoTask), Step("notify", 0, NoTask),
                       Step("join", 0, NoTask)>>
    BY <2>1, <2>4 DEF Step
  <2> QED BY <1>1, <2>2, <2>3, <2>4 DEF Cancelling, After
<1>2. CASE Beginning
  <2>1. 1 \in DOMAIN calls /\ calls[1].step = "begin"
    BY <1>2 DEF Beginning, BeginStep, Step
  <2> QED BY <2>1 DEF Begins
<1>3. CASE calls = <<Head(calls)>>
  BY <1>3 DEF Doing
<1>4. CASE calls = TakeCall \/ calls = Tail(TakeCall)
  BY <1>4 DEF TakeCall, Step
<1>5. CASE Leaves(calls)
  BY <1>5 DEF Leaves, StopCall, Step
<1> QED BY <1>1, <1>2, <1>3, <1>4, <1>5 DEF Calling

(* While a decision is open nothing of the review is under way. *)
LEMMA DecisionIsQuiet ==
    ASSUME ReviewInv, session # NoSession, session.state = "Decision"
    PROVE  /\ pending = <<>> /\ results = <<>>
           /\ Busy => thread.task.generation # session.generation
           /\ ~Doing("clear") /\ ~Doing("erase") /\ ~Leaving /\ ~stopping /\ ~Doing("check")
<1>1. ~Begins /\ session.generation = active /\ card # "quit"
  BY DEF ReviewInv, Staged
<1>2. ~Doing("clear") /\ ~Doing("erase")
  BY <1>1, CallForms DEF ReviewInv, Cancelling
<1>3. ~Doing("stop")
  <2>1. Doing("stop") => calls = StopCall
    BY CallForms DEF ReviewInv
  <2>2. calls = StopCall => calls[1].step = "stop" /\ 1 \in DOMAIN calls
    BY DEF StopCall, Step
  <2> QED BY <1>1, <2>1, <2>2 DEF ReviewInv, Staged
<1>4. \A r : ~Awaits(r)
  BY DEF Awaits
<1>5. ~stopping /\ ~Leaving
  BY <1>1, <1>2, <1>3 DEF ReviewInv, Staged, Leaving
<1>6. pending = <<>>
  BY <1>1, <1>2, <1>4, <1>5 DEF ReviewInv, Owned, AwaitsTask, Erasing
<1>7. results = <<>>
  BY <1>1, <1>2, <1>4, <1>5 DEF ReviewInv, Owned, Erasing
<1>8. Busy => thread.task.generation # session.generation
  BY <1>1, <1>4, <1>5 DEF ReviewInv, Owned, AwaitsTask
<1>9. ~Doing("check")
  <2>1. Doing("check") => 1 \in DOMAIN calls /\ calls[1].step = "check"
    BY CallForms DEF ReviewInv, Doing
  <2> QED BY <2>1, <1>4 DEF ReviewInv, Owned, AwaitsTask
<1> QED BY <1>2, <1>5, <1>6, <1>7, <1>8, <1>9

(* What the worker does leaves the calls and the review as they are. *)
LEMMA ThreadLeaves ==
    ASSUME ReviewInv, UNCHANGED Rest, active' = active, nextGeneration' = nextGeneration,
           stopping' = stopping, pending' = pending \/ pending' = <<>>
    PROVE  Calling' /\ Staged'
<1>1. Begins' = Begins
  BY DEF Begins, Rest
<1>2. Calling'
  BY <1>1 DEF ReviewInv, Calling, Cancelling, Beginning, After, Leaves, Doing, Rest
<1>3. Staged'
  BY <1>1 DEF ReviewInv, Staged, Rest
<1> QED BY <1>2, <1>3

(* Run, under the lock: the worker leaves, waits or takes what waits. *)
LEMMA RunChecksKeeps ==
    ASSUME ReviewInv, RunChecks, UNCHANGED reviewVars PROVE ReviewInv'
<1> USE DEF Busy, Working
<1>1. /\ UNCHANGED <<calls, session, card, discovery>> /\ active' = active
      /\ nextGeneration' = nextGeneration /\ stopping' = stopping
      /\ results' = results /\ readable' = readable /\ thread.pc = "check"
  BY DEF RunChecks, reviewVars
<1>2. \/ /\ stopping /\ pending' = pending /\ thread' = [Asleep EXCEPT !.pc = "exited"]
         /\ dictionary' = [dictionary EXCEPT !.loaded = NoDictionary]
      \/ /\ ~stopping /\ pending = <<>> /\ pending' = pending /\ thread' = Asleep
         /\ dictionary' = dictionary
      \/ /\ ~stopping /\ pending # <<>> /\ pending' = <<>>
         /\ thread' = [Asleep EXCEPT !.pc = "execute", !.task = Head(pending)]
         /\ dictionary' = DictionaryFor(Head(pending))
  BY DEF RunChecks, Remaining
<1>3. dictionary = [loaded |-> dictionary.loaded, generation |-> dictionary.generation,
                     read |-> dictionary.read]
  BY DEF ReviewInv, Formed
<1>4. \/ /\ stopping /\ pending' = pending /\ thread'.pc = "exited"
         /\ dictionary'.loaded = NoDictionary
      \/ /\ ~stopping /\ pending = <<>> /\ pending' = pending /\ thread'.pc = "asleep"
         /\ dictionary' = dictionary
      \/ /\ ~stopping /\ pending # <<>> /\ pending' = <<>>
         /\ thread'.pc = "execute" /\ thread'.task = Head(pending)
         /\ dictionary'.generation = Head(pending).generation
         /\ \/ /\ dictionary.generation = Head(pending).generation
               /\ dictionary' = dictionary
            \/ /\ dictionary.generation # Head(pending).generation
               /\ dictionary'.loaded = NoDictionary
  <2>1. CASE stopping
    BY <1>2, <1>3, <2>1 DEF Asleep
  <2>2. CASE ~stopping /\ pending = <<>>
    BY <1>2, <1>3, <2>2 DEF Asleep
  <2>3. CASE ~stopping /\ pending # <<>>
    <3> DEFINE t == Head(pending)
    <3>1. thread' = [Asleep EXCEPT !.pc = "execute", !.task = t] /\ pending' = <<>>
      BY <1>2, <2>3
    <3>2. thread'.pc = "execute" /\ thread'.task = t
      BY <3>1 DEF Asleep
    <3>3. dictionary' = IF dictionary.generation = t.generation THEN dictionary
                ELSE [dictionary EXCEPT !.loaded = NoDictionary, !.generation = t.generation]
      BY <1>2, <2>3 DEF DictionaryFor
    <3> HIDE DEF t
    <3>4. /\ dictionary'.generation = t.generation
          /\ \/ dictionary.generation = t.generation /\ dictionary' = dictionary
             \/ dictionary.generation # t.generation /\ dictionary'.loaded = NoDictionary
      BY <1>3, <3>3
    <3> QED BY <2>3, <3>1, <3>2, <3>4 DEF t
  <2> QED BY <2>1, <2>2, <2>3
<1>9. /\ thread' = [pc |-> thread'.pc, task |-> thread'.task, result |-> thread'.result]
      /\ dictionary' = [loaded |-> dictionary'.loaded, generation |-> dictionary'.generation,
                        read |-> dictionary'.read]
  BY <1>2, <1>3 DEF Asleep, DictionaryFor
<1>5. Calling' /\ Staged'
  BY <1>1, <1>2, ThreadLeaves DEF Rest
<1>10. Begins' = Begins
  BY <1>1 DEF Begins
<1> HIDE DEF Busy, Working
<1>6. CASE stopping
  <2>1. ~Busy' /\ ~Working' /\ pending' = pending /\ session' = NoSession
    BY <1>1, <1>4, <1>6 DEF Busy, Working, ReviewInv, Staged
  <2>2. Formed'
    BY <1>1, <1>9, <1>4, <1>6, <2>1 DEF ReviewInv, Formed
  <2>3. Owned'
    BY <1>1, <2>1 DEF ReviewInv, Owned, AwaitsTask, Awaits, Erasing, Leaving, Doing
  <2>4. Alone'
    BY <1>1, <2>1 DEF ReviewInv, Alone, Doing
  <2>7. \A i \in DOMAIN calls : calls[i].step # "check"
    BY <1>6 DEF ReviewInv, Staged, StopCall, Step
  <2>8. pending' = <<>> /\ thread'.pc = "exited" /\ dictionary'.loaded = NoDictionary
    BY <1>4, <1>6, <2>1 DEF ReviewInv, Staged
  <2>5. Fitting'
    BY <1>1, <2>1, <2>7, <2>8 DEF ReviewInv, Fitting, Fits, Adds, Leaving, Doing
  <2>6. Heard'
    BY <1>1, <2>1, <1>4, <1>6 DEF ReviewInv, Heard, NoResultIsStranded, NoRequestIsStranded, Doing
  <2> QED BY <2>2, <1>5, <2>3, <2>4, <2>5, <2>6 DEF ReviewInv
<1>7. CASE ~stopping /\ pending = <<>>
  <2>1. ~Busy' /\ ~Working' /\ pending' = pending /\ dictionary' = dictionary
        /\ thread'.pc = "asleep"
    BY <1>4, <1>7 DEF Busy, Working
  <2>2. Formed'
    BY <1>1, <1>9, <1>7, <2>1 DEF ReviewInv, Formed
  <2>3. Owned'
    BY <1>1, <2>1 DEF ReviewInv, Owned, AwaitsTask, Awaits, Erasing, Leaving, Doing
  <2>4. Alone'
    BY <1>1, <2>1 DEF ReviewInv, Alone, Doing
  <2>5. Fitting'
    BY <1>1, <1>7, <1>10, <2>1 DEF ReviewInv, Fitting, Fits, Adds, Leaving, Doing
  <2>6. Heard'
    BY <1>1, <2>1, <1>7 DEF ReviewInv, Heard, NoResultIsStranded, NoRequestIsStranded, Doing
  <2> QED BY <2>2, <1>5, <2>3, <2>4, <2>5, <2>6 DEF ReviewInv
<1>8. CASE ~stopping /\ pending # <<>>
  <2> DEFINE t == Head(pending)
  <2>1. /\ pending' = <<>> /\ thread'.pc = "execute" /\ thread'.task = t
        /\ dictionary'.generation = t.generation
        /\ \/ dictionary.generation = t.generation /\ dictionary' = dictionary
           \/ dictionary.generation # t.generation /\ dictionary'.loaded = NoDictionary
        /\ Busy' /\ Working' /\ ~Busy /\ ~Working
    BY <1>1, <1>4, <1>8 DEF Busy, Working
  <2>2. /\ IsTask(t) /\ results = <<>>
        /\ t.generation = active \/ Erasing(t.generation)
        /\ t.generation = active /\ ~Leaving => AwaitsTask(t)
        /\ Adds(t) => Fits(t.dictionary, t.generation)
    BY <1>8 DEF ReviewInv, Formed, Owned, Alone, Fitting
  <2>8. t.generation < nextGeneration
    BY <2>2, CallForms DEF ReviewInv, Formed, Cancelling, Erasing
  <2>3. Formed'
    BY <1>1, <1>9, <1>8, <2>1, <2>2, <2>8 DEF ReviewInv, Formed
  <2>4. Owned'
    BY <1>1, <2>1, <2>2 DEF ReviewInv, Owned, AwaitsTask, Awaits, Erasing, Leaving, Doing
  <2>5. Alone'
    BY <1>1, <2>1, <2>2, <1>8 DEF ReviewInv, Alone, Doing
  <2>9. \A i \in DOMAIN calls : calls[i].step = "check" => ~Adds(calls[i].task)
    BY <1>8, CheckIsFirst DEF ReviewInv, Fitting, Alone
  <2>10. ~(session # NoSession /\ session.state = "Decision")
    BY <1>8, DecisionIsQuiet
  <2>11. /\ thread'.pc = "execute" /\ results' = <<>> /\ pending' = <<>>
         /\ dictionary'.loaded # NoDictionary => dictionary'.read = dictionary'.generation
         /\ dictionary'.generation = thread'.task.generation
         /\ Adds(thread'.task) => dictionary'.loaded = thread'.task.dictionary
    <3>1. dictionary.loaded # NoDictionary => dictionary.read = dictionary.generation
      BY DEF ReviewInv, Fitting
    <3> HIDE DEF t
    <3>2. dictionary'.loaded # NoDictionary => dictionary'.read = dictionary'.generation
      BY <2>1, <3>1
    <3>3. Adds(t) => dictionary.loaded = t.dictionary /\ dictionary.generation = t.generation
      BY <2>2 DEF Fits
    <3>5. Adds(t) => dictionary'.loaded = t.dictionary
      BY <2>1, <3>3
    <3> QED BY <1>1, <2>1, <2>2, <3>2, <3>5 DEF Adds
  <2>12. ~(session' # NoSession /\ session'.state = "Decision")
    BY <1>1, <2>10
  <2>13. \A i \in DOMAIN calls' : calls'[i].step = "check" => ~Adds(calls'[i].task)
    BY <1>1, <2>9
  <2>6. Fitting'
    BY <2>11, <2>12, <2>13 DEF Fitting, Adds
  <2>7. Heard'
    BY <1>1, <2>1, <2>2 DEF ReviewInv, Heard, NoResultIsStranded, NoRequestIsStranded, Doing
  <2> QED BY <2>3, <1>5, <2>4, <2>5, <2>6, <2>7 DEF ReviewInv
<1> QED BY <1>6, <1>7, <1>8

(* A step of Execute: the worker goes on with its task, or is done with it. *)
Unmoved == <<calls, session, card, discovery, active, nextGeneration, stopping, pending,
             results, readable>>

(* The worker goes on with a request it has, and may load for it. *)
LEMMA WorkingMoves ==
    ASSUME ReviewInv, Working, UNCHANGED Unmoved,
           thread' = [pc |-> thread'.pc, task |-> thread'.task, result |-> thread'.result],
           thread'.pc \in {"check", "load", "work", "publish"},
           thread'.pc # "check" => thread'.task = thread.task,
           thread'.pc = "publish" => /\ thread'.result.generation = thread.task.generation
                                     /\ thread'.result.request = thread.task.request,
           dictionary' = [loaded |-> dictionary'.loaded, generation |-> dictionary'.generation,
                          read |-> dictionary'.read],
           dictionary'.generation = dictionary.generation,
           dictionary'.loaded # NoDictionary => dictionary'.read = dictionary.generation,
           thread'.pc = "load" => thread.task.operation = "Scan",
           thread'.pc = "work" /\ thread.task.operation = "Scan" =>
                dictionary'.loaded = thread.task.dictionary,
           thread'.pc \in {"work", "load"} /\ Adds(thread.task) =>
                dictionary'.loaded = thread.task.dictionary,
           thread'.pc = "publish" /\ thread'.result.outcome \in Spoken =>
                dictionary'.loaded = thread.task.dictionary
    PROVE  ReviewInv'
<1>1. /\ Calling' /\ Staged'
      /\ UNCHANGED <<calls, session, card, discovery, active, nextGeneration, stopping,
                     pending, results, readable>>
  BY ThreadLeaves DEF Unmoved, Rest
<1>2. /\ Busy /\ results = <<>> /\ (Busy' => thread'.task = thread.task)
      /\ (Working' => thread'.pc \in {"load", "work"})
      /\ dictionary.generation = thread.task.generation
  BY DEF Busy, Working, ReviewInv, Alone, Fitting
<1>3. /\ \A i \in DOMAIN calls : calls[i].step = "check" => ~Adds(calls[i].task)
      /\ pending # <<>> => ~Adds(Head(pending))
      /\ ~(session # NoSession /\ session.state = "Decision")
  BY DEF ReviewInv, Fitting
<1>4. Formed'
  BY <1>1, <1>2 DEF ReviewInv, Formed, Busy, Working
<1>5. Owned'
  BY <1>1, <1>2 DEF ReviewInv, Owned, AwaitsTask, Awaits, Erasing, Leaving, Doing
<1>6. Alone'
  BY <1>1, <1>2 DEF ReviewInv, Alone, Doing
<1>7. Fitting'
  BY <1>1, <1>2, <1>3 DEF Fitting, Fits, Adds
<1>8. Heard'
  BY <1>1, <1>2 DEF ReviewInv, Heard, NoResultIsStranded, NoRequestIsStranded, Doing
<1> QED BY <1>1, <1>4, <1>5, <1>6, <1>7, <1>8 DEF ReviewInv

(* Where the worker stands before a step of Execute. *)
LEMMA WorkingForm ==
    ASSUME ReviewInv, Working
    PROVE  /\ thread = [pc |-> thread.pc, task |-> thread.task, result |-> thread.result]
           /\ dictionary = [loaded |-> dictionary.loaded, generation |-> dictionary.generation,
                            read |-> dictionary.read]
           /\ dictionary.loaded # NoDictionary => dictionary.read = dictionary.generation
           /\ dictionary.generation = thread.task.generation
           /\ Adds(thread.task) => dictionary.loaded = thread.task.dictionary
           /\ thread.pc = "work" /\ thread.task.operation = "Scan" =>
                dictionary.loaded = thread.task.dictionary
           /\ thread.pc = "load" => thread.task.operation = "Scan"
           /\ IsTask(thread.task)
  BY DEF ReviewInv, Formed, Fitting, Busy

(* The request is dropped or done. *)
LEMMA ReturnKeeps ==
    ASSUME ReviewInv, Working, UNCHANGED Unmoved, Return, UNCHANGED dictionary
    PROVE  ReviewInv'
<1>1. /\ thread' = [pc |-> thread'.pc, task |-> thread'.task, result |-> thread'.result]
      /\ thread'.pc = "check"
  BY DEF Return, Asleep
<1> QED BY <1>1, WorkingForm, WorkingMoves

(* A result is published with the dictionary the task was worked on with. *)
LEMMA PublishKeeps ==
    ASSUME ReviewInv, Working, UNCHANGED Unmoved, NEW outcome, NEW position, NEW matches,
           PublishNext(Result(outcome, position, matches)), UNCHANGED dictionary,
           outcome \in Spoken => dictionary.loaded = thread.task.dictionary
    PROVE  ReviewInv'
<1> DEFINE result == Result(outcome, position, matches)
<1>1. thread' = [thread EXCEPT !.pc = "publish", !.result = result]
  BY DEF PublishNext
<1>2. /\ result.generation = thread.task.generation /\ result.request = thread.task.request
      /\ result.outcome = outcome
  BY DEF Result
<1> HIDE DEF result
<1>3. /\ thread' = [pc |-> thread'.pc, task |-> thread'.task, result |-> thread'.result]
      /\ thread'.pc = "publish" /\ thread'.task = thread.task /\ thread'.result = result
  BY <1>1, WorkingForm
<1> QED BY <1>2, <1>3, WorkingForm, WorkingMoves

(* Execute: the request goes to the dictionary, to the work, or nowhere. *)
LEMMA ExecuteStartsKeeps ==
    ASSUME ReviewInv, ExecuteStarts, UNCHANGED reviewVars PROVE ReviewInv'
<1>1. Working /\ UNCHANGED Unmoved
  BY DEF ExecuteStarts, Working, Unmoved, reviewVars
<1>2. CASE ~IsCurrent(thread.task.generation)
  BY <1>1, <1>2, ReturnKeeps DEF ExecuteStarts
<1>3. CASE IsCurrent(thread.task.generation) /\ MustLoad(thread.task)
  <2>1. /\ thread' = [thread EXCEPT !.pc = "load"]
        /\ dictionary' = [dictionary EXCEPT !.loaded = NoDictionary]
    BY <1>3 DEF ExecuteStarts
  <2>2. thread.task.operation = "Scan"
    BY <1>3 DEF MustLoad
  <2>3. /\ thread' = [pc |-> thread'.pc, task |-> thread'.task, result |-> thread'.result]
        /\ thread'.pc = "load" /\ thread'.task = thread.task
        /\ dictionary' = [loaded |-> dictionary'.loaded,
                          generation |-> dictionary'.generation, read |-> dictionary'.read]
        /\ dictionary'.generation = dictionary.generation /\ dictionary'.loaded = NoDictionary
    BY <1>1, <2>1, WorkingForm
  <2> QED BY <1>1, <2>2, <2>3, WorkingForm, WorkingMoves DEF Adds
<1>4. CASE IsCurrent(thread.task.generation) /\ ~MustLoad(thread.task)
  <2>1. thread' = [thread EXCEPT !.pc = "work"] /\ dictionary' = dictionary
    BY <1>4 DEF ExecuteStarts
  <2>2. thread.task.operation = "Scan" => dictionary.loaded = thread.task.dictionary
    BY <1>4 DEF MustLoad
  <2>3. /\ thread' = [pc |-> thread'.pc, task |-> thread'.task, result |-> thread'.result]
        /\ thread'.pc = "work" /\ thread'.task = thread.task
    BY <1>1, <2>1, WorkingForm
  <2> QED BY <1>1, <2>1, <2>2, <2>3, WorkingForm, WorkingMoves
<1> QED BY <1>2, <1>3, <1>4

(* Execute: a load ends with a dictionary, with a failure, or too late. *)
LEMMA ExecuteLoadsKeeps ==
    ASSUME ReviewInv, ExecuteLoads, UNCHANGED reviewVars PROVE ReviewInv'
<1>1. Working /\ UNCHANGED Unmoved /\ thread.task.operation = "Scan"
  <2>1. Working /\ UNCHANGED Unmoved /\ thread.pc = "load"
    BY DEF ExecuteLoads, Working, Unmoved, reviewVars
  <2> QED BY <2>1, WorkingForm
<1>2. CASE Return /\ UNCHANGED dictionary
  BY <1>1, <1>2, ReturnKeeps
<1>3. CASE PublishNext(Result("Failed", 0, {})) /\ UNCHANGED dictionary
  BY <1>1, <1>3, PublishKeeps DEF Spoken
<1>4. CASE /\ dictionary' = [dictionary EXCEPT !.loaded = thread.task.dictionary,
                                               !.read = thread.task.generation]
           /\ thread' = [thread EXCEPT !.pc = "work"]
  <2>1. /\ thread' = [pc |-> thread'.pc, task |-> thread'.task, result |-> thread'.result]
        /\ thread'.pc = "work" /\ thread'.task = thread.task
    BY <1>1, <1>4, WorkingForm
  <2>2. /\ dictionary' = [loaded |-> dictionary'.loaded,
                          generation |-> dictionary'.generation, read |-> dictionary'.read]
        /\ dictionary'.generation = dictionary.generation
        /\ dictionary'.loaded = thread.task.dictionary
        /\ dictionary'.read = thread.task.generation
    BY <1>1, <1>4, WorkingForm
  <2> QED BY <1>1, <2>1, <2>2, WorkingForm, WorkingMoves DEF Adds
<1> QED BY <1>2, <1>3, <1>4 DEF ExecuteLoads

(* Execute: the work ends with a result, or too late. *)
LEMMA ExecuteWorksKeeps ==
    ASSUME ReviewInv, ExecuteWorks, UNCHANGED reviewVars PROVE ReviewInv'
<1> DEFINE task == thread.task
<1>1. Working /\ UNCHANGED Unmoved /\ UNCHANGED dictionary
  BY DEF ExecuteWorks, Working, Unmoved, reviewVars
<1>2. CASE Return
  BY <1>1, <1>2, ReturnKeeps
<1>3. CASE \E outcome \in {"Discovery", "NoneFound"} : PublishNext(Result(outcome, 0, {}))
  BY <1>1, <1>3, PublishKeeps DEF Spoken
<1>4. CASE task.operation = "Scan" /\ PublishNext(Found(task))
  <2>1. thread.pc = "work"
    BY DEF ExecuteWorks
  <2>2. dictionary.loaded = task.dictionary
    BY <1>1, <1>4, <2>1, WorkingForm
  <2>3. CASE PublishNext(Result("Complete", 0, {}))
    BY <1>1, <2>3, PublishKeeps DEF Spoken
  <2>4. CASE PublishNext(Result("Occurrence", Min(Suspect(task.text, task.words)) - 1, {}))
    BY <1>1, <2>2, <2>4, PublishKeeps
  <2> QED BY <1>4, <2>3, <2>4 DEF Found
<1>5. CASE PublishNext(Result("Matches", 0, Matches(task)))
  BY <1>1, <1>5, PublishKeeps DEF Spoken
<1>6. CASE PublishNext(Result("Failed", 0, {})) \/ PublishNext(Result("Added", 0, {}))
  BY <1>1, <1>6, PublishKeeps DEF Spoken
<1>7. CASE task.operation = "AddPersonalWord" /\ PublishNext(Result("NotAdded", 0, {}))
  <2>1. dictionary.loaded = task.dictionary
    BY <1>1, <1>7, WorkingForm DEF Adds
  <2> QED BY <1>1, <1>7, <2>1, PublishKeeps
<1> QED BY <1>2, <1>3, <1>4, <1>5, <1>6, <1>7 DEF ExecuteWorks

(* A request in a call whose session has begun is of the active session. *)
LEMMA CheckIsCurrent ==
    ASSUME ReviewInv, Doing("check")
    PROVE  /\ calls = <<Head(calls)>> /\ IsCheck(Head(calls)) /\ ~Begins
           /\ Head(calls).generation = active /\ AwaitsTask(Head(calls).task)
<1>1. calls = <<Head(calls)>> /\ IsCheck(Head(calls)) /\ Head(calls).step = "check"
  BY CallForms DEF ReviewInv, Doing
<1>2. ~Begins
  BY <1>1 DEF Begins
<1>3. AwaitsTask(Head(calls).task)
  BY <1>1 DEF ReviewInv, Owned
<1>4. Head(calls).generation = Head(calls).task.generation
  BY <1>1 DEF IsCheck, Step
<1> QED BY <1>1, <1>2, <1>3, <1>4 DEF AwaitsTask, Awaits, ReviewInv, Staged

(* Publish, under the lock: the result is queued for whoever waits for it. *)
LEMMA PublishQueuesKeeps ==
    ASSUME ReviewInv, PublishQueues, UNCHANGED reviewVars PROVE ReviewInv'
<1>1. /\ thread.pc = "publish" /\ Busy /\ ~Working /\ results = <<>>
      /\ UNCHANGED <<calls, session, card, discovery, active, nextGeneration, stopping,
                     pending, readable, dictionary>>
      /\ thread.result.generation = thread.task.generation
      /\ thread.result.request = thread.task.request
      /\ IsTask(thread.task)
      /\ thread = [pc |-> thread.pc, task |-> thread.task, result |-> thread.result]
  BY DEF PublishQueues, reviewVars, Busy, Working, ReviewInv, Formed, Alone
<1>2. Calling' /\ Staged' /\ Begins' = Begins
  BY <1>1, ThreadLeaves DEF Rest, Begins
<1>3. CASE stopping \/ ~IsCurrent(thread.result.generation)
  <2>1. /\ thread' = [pc |-> thread'.pc, task |-> thread'.task, result |-> thread'.result]
        /\ thread'.pc = "check" /\ results' = <<>>
    BY <1>1, <1>3 DEF PublishQueues, Return, Asleep
  <2>2. ~Busy' /\ ~Working'
    BY <2>1 DEF Busy, Working
  <2>3. Formed'
    BY <1>1, <2>1, <2>2 DEF ReviewInv, Formed
  <2>4. Owned'
    BY <1>1, <2>1, <2>2 DEF ReviewInv, Owned, AwaitsTask, Awaits, Erasing, Leaving, Doing
  <2>5. Alone'
    BY <1>1, <2>1, <2>2 DEF ReviewInv, Alone, Doing
  <2>6. Fitting'
    BY <1>1, <1>2, <2>1, <2>2 DEF ReviewInv, Fitting, Fits, Adds
  <2>7. Heard'
    BY <1>1, <2>1 DEF ReviewInv, Heard, NoResultIsStranded, NoRequestIsStranded, Doing
  <2> QED BY <1>2, <2>3, <2>4, <2>5, <2>6, <2>7 DEF ReviewInv
<1>4. CASE ~stopping /\ IsCurrent(thread.result.generation)
  <2> DEFINE r == thread.result
  <2>1. results' = <<r>> /\ thread' = [thread EXCEPT !.pc = "write"]
    BY <1>1, <1>4 DEF PublishQueues
  <2>2. r.generation = active /\ active # 0 /\ thread.task.generation = active
    BY <1>1, <1>4 DEF IsCurrent
  <2> HIDE DEF r
  <2>3. /\ thread' = [pc |-> thread'.pc, task |-> thread'.task, result |-> thread'.result]
        /\ thread'.pc = "write"
    BY <1>1, <2>1
  <2>4. ~Busy' /\ ~Working'
    BY <2>3 DEF Busy, Working
  <2>5. /\ results' # <<>> /\ Head(results') = r /\ results' = <<Head(results')>>
        /\ r.generation \in Nat \ {0}
    BY <1>1, <2>1, <2>2 DEF IsTask
  <2>6. ~Doing("check")
    BY <1>1, <2>2, CheckIsCurrent DEF ReviewInv, Alone
  <2>7. pending = <<>>
    <3>1. ~Doing("erase")
      BY <2>2, CallForms DEF ReviewInv, Cancelling, Doing
    <3> QED BY <1>1, <2>2, <3>1 DEF ReviewInv, Owned, Alone, Erasing
  <2>8. Formed'
    BY <1>1, <2>3, <2>4, <2>5 DEF ReviewInv, Formed
  <2>9. ~Leaving => AwaitsTask(thread.task)
    BY <1>1, <2>2 DEF ReviewInv, Owned
  <2>10. r.generation = thread.task.generation /\ r.request = thread.task.request
    BY <1>1 DEF r
  <2>11. Leaving' = Leaving
    BY <1>1 DEF Leaving, Doing
  <2>12. Owned'
    BY <1>1, <2>2, <2>4, <2>5, <2>7, <2>9, <2>10, <2>11
       DEF ReviewInv, Owned, AwaitsTask, Awaits
  <2>13. Alone'
    BY <1>1, <2>4, <2>6, <2>7 DEF Alone, Doing
  <2>14. r.outcome \in Spoken /\ ~Leaving /\ session # NoSession =>
            Fits(session.dictionary, session.generation)
    BY <1>1, <2>9 DEF r, ReviewInv, Fitting, AwaitsTask, Awaits
  <2>15. Fitting'
    BY <1>1, <1>2, <2>3, <2>4, <2>5, <2>7, <2>11, <2>14 DEF ReviewInv, Fitting, Fits
  <2>16. Heard'
    BY <1>1, <2>3 DEF ReviewInv, Heard, NoResultIsStranded, NoRequestIsStranded, Doing
  <2> QED BY <1>2, <2>8, <2>12, <2>13, <2>15, <2>16 DEF ReviewInv
<1> QED BY <1>3, <1>4

(* Publish, after the lock: the event loop is woken. *)
LEMMA PublishWritesKeeps ==
    ASSUME ReviewInv, PublishWrites, UNCHANGED reviewVars PROVE ReviewInv'
<1>1. /\ thread.pc = "write" /\ readable'
      /\ UNCHANGED <<calls, session, card, discovery, active, nextGeneration, stopping,
                     pending, results, dictionary>>
      /\ thread' = [pc |-> thread'.pc, task |-> thread'.task, result |-> thread'.result]
      /\ thread'.pc = "check"
  BY DEF PublishWrites, reviewVars, Return, Asleep
<1>2. Calling' /\ Staged' /\ Begins' = Begins
  BY <1>1, ThreadLeaves DEF Rest, Begins
<1>3. ~Busy /\ ~Working /\ ~Busy' /\ ~Working'
  BY <1>1 DEF Busy, Working
<1>4. Formed'
  BY <1>1, <1>3 DEF ReviewInv, Formed
<1>5. Owned'
  BY <1>1, <1>3 DEF ReviewInv, Owned, AwaitsTask, Awaits, Erasing, Leaving, Doing
<1>6. Alone'
  BY <1>1, <1>3 DEF ReviewInv, Alone, Doing
<1>7. Fitting'
  BY <1>1, <1>2, <1>3 DEF ReviewInv, Fitting, Fits, Adds, Leaving, Doing
<1>8. Heard'
  BY <1>1 DEF ReviewInv, Heard, NoResultIsStranded, NoRequestIsStranded, Doing
<1> QED BY <1>2, <1>4, <1>5, <1>6, <1>7, <1>8 DEF ReviewInv

(* All the worker does. *)
LEMMA ThreadKeeps ==
    ASSUME ReviewInv, ThreadStep PROVE ReviewInv'
  BY RunChecksKeeps, ExecuteStartsKeeps, ExecuteLoadsKeeps, ExecuteWorksKeeps,
     PublishQueuesKeeps, PublishWritesKeeps DEF ThreadStep, WorkerStep
-----------------------------------------------------------------------------
(* The accesses of the application thread. *)

(* One access in front of the others. *)
LEMMA ConcatOne ==
    ASSUME NEW S, NEW e \in S, NEW s \in Seq(S), NEW t \in Seq(S), Len(t) = Len(s) + 1,
           t[1] = e, \A i \in 1 .. Len(s) : t[i + 1] = s[i]
    PROVE  <<e>> \o s = t
<1> DEFINE u == <<e>> \o s
<1>1. Len(s) \in Nat
  BY LenProperties
<1>2. u \in Seq(S) /\ Len(u) = 1 + Len(s)
      /\ \A i \in 1 .. 1 + Len(s) : u[i] = IF i <= 1 THEN <<e>>[i] ELSE s[i - 1]
  <2>1. <<e>> \in Seq(S)
    OBVIOUS
  <2> QED BY <2>1, ConcatProperties
<1> HIDE DEF u
<1>3. ASSUME NEW i \in 1 .. Len(u) PROVE u[i] = t[i]
  <2>1. CASE i = 1
    BY <1>1, <1>2, <2>1
  <2>2. CASE i # 1
    <3>1. i - 1 \in 1 .. Len(s) /\ u[i] = s[i - 1] /\ (i - 1) + 1 = i
      BY <1>1, <1>2, <2>2
    <3> QED BY <3>1
  <2> QED BY <2>1, <2>2
<1>4. Len(u) = Len(t)
  BY <1>1, <1>2
<1>5. u = t
  BY <1>2, <1>3, <1>4, SeqEqual
<1> QED BY <1>5 DEF u

LEMMA Prepended ==
    ASSUME NEW e, NEW a, NEW b
    PROVE  /\ <<e>> \o <<>> = <<e>> /\ <<e>> \o <<a>> = <<e, a>>
           /\ <<e>> \o <<a, b>> = <<e, a, b>>
<1> DEFINE S == {e, a, b}
<1>1. <<>> \in Seq(S) /\ e \in S
  OBVIOUS
<1> HIDE DEF S
<1>2. <<e>> \o <<>> = <<e>>
  <2>1. <<e>> \in Seq(S)
    BY <1>1
  <2> QED BY <2>1, ConcatEmptySeq
<1>3. <<e>> \o <<a>> = <<e, a>>
  <2> DEFINE s == <<a>>
             t == <<e, a>>
  <2>1. s \in Seq(S) /\ t \in Seq(S) /\ Len(t) = Len(s) + 1 /\ t[1] = e
    BY DEF S
  <2>2. \A i \in 1 .. Len(s) : t[i + 1] = s[i]
    OBVIOUS
  <2> HIDE DEF s, t
  <2>3. <<e>> \o s = t
    BY <1>1, <2>1, <2>2, ConcatOne
  <2> QED BY <2>3 DEF s, t
<1>4. <<e>> \o <<a, b>> = <<e, a, b>>
  <2> DEFINE s == <<a, b>>
             t == <<e, a, b>>
  <2>1. s \in Seq(S) /\ t \in Seq(S) /\ Len(t) = Len(s) + 1 /\ t[1] = e
    BY DEF S
  <2>2. \A i \in 1 .. Len(s) : t[i + 1] = s[i]
    OBVIOUS
  <2> HIDE DEF s, t
  <2>3. <<e>> \o s = t
    BY <1>1, <2>1, <2>2, ConcatOne
  <2> QED BY <2>3 DEF s, t
<1> QED BY <1>2, <1>3, <1>4

(* A cancel with the destructor's calls behind it. *)
LEMMA StopsAfter ==
    ASSUME NEW e
    PROVE  <<e>> \o StopCall = <<e, Step("stop", 0, NoTask), Step("notify", 0, NoTask),
                                 Step("join", 0, NoTask)>>
<1> PICK a, b, c : /\ a = Step("stop", 0, NoTask) /\ b = Step("notify", 0, NoTask)
                   /\ c = Step("join", 0, NoTask)
  OBVIOUS
<1> DEFINE S == {e, a, b, c}
           s == <<a, b, c>>
           t == <<e, a, b, c>>
<1>1. e \in S /\ s \in Seq(S) /\ t \in Seq(S) /\ Len(t) = Len(s) + 1 /\ t[1] = e
  OBVIOUS
<1>2. \A i \in 1 .. Len(s) : t[i + 1] = s[i]
  OBVIOUS
<1> HIDE DEF S, s, t
<1>3. <<e>> \o s = t
  BY <1>1, <1>2, ConcatOne
<1> QED BY <1>3 DEF s, t, StopCall

(* Nothing of other generations is left of a queue that has none. *)
LEMMA OthersNone ==
    ASSUME NEW q, NEW g, q = <<>> \/ (q = <<Head(q)>> /\ Head(q).generation = g)
    PROVE  Others(q, g) = <<>>
<1> DEFINE kept == {i \in DOMAIN q : q[i].generation # g}
           place(n) == CHOOSE i \in kept : Cardinality({j \in kept : j <= i}) = n
<1>1. kept = {}
  OBVIOUS
<1>2. Cardinality(kept) = 0
  BY <1>1, FS_EmptySet
<1>3. Others(q, g) = [n \in 1 .. Cardinality(kept) |-> q[place(n)]]
  BY DEF Others
<1> HIDE DEF kept, place
<1>4. 1 .. Cardinality(kept) = {}
  BY <1>2
<1> QED BY <1>3, <1>4

(* The steps of the application thread leave the review as it is. *)
Review == <<session, card, discovery>>

(* Cancel, before the lock: the session is no longer the active one. *)
LEMMA CancelClearsKeeps ==
    ASSUME ReviewInv, CancelClears, UNCHANGED reviewVars PROVE ReviewInv'
<1> PICK c : c = Head(calls)
  OBVIOUS
<1> PICK e : e = Step("erase", c.generation, NoTask)
  OBVIOUS
<1>1. /\ UNCHANGED <<session, card, discovery, pending, results, readable, stopping,
                     nextGeneration, thread, dictionary>>
      /\ Doing("clear") /\ calls # <<>>
  BY DEF CancelClears, reviewVars, Doing
<1>2. /\ Cancelling /\ active = c.generation /\ active # 0
      /\ c.generation \in Nat \ {0} /\ c.generation < nextGeneration
      /\ (session # NoSession \/ discovery # 0 => Begins)
  BY <1>1, CallForms DEF ReviewInv, Cancelling
<1>3. active' = 0 /\ calls' = <<e>> \o Tail(calls)
  BY <1>2 DEF CancelClears
<1>4. e.step = "erase" /\ e.generation = c.generation /\ c.step = "clear"
  BY <1>1 DEF Step, Doing
<1>5. \/ calls = <<c>> /\ calls' = <<e>>
      \/ calls = <<c, BeginStep>> /\ calls' = <<e, BeginStep>>
      \/ calls = <<c, BeginStep, calls[3]>> /\ IsCheck(calls[3])
            /\ calls' = <<e, BeginStep, calls[3]>>
      \/ calls = <<c>> \o StopCall /\ calls' = <<e>> \o StopCall
  <2>1. After(c)
    BY <1>2 DEF Cancelling
  <2>2. CASE calls = <<c>>
    <3>1. Tail(calls) = <<>>
      BY <2>2
    <3> QED BY <1>3, <2>2, <3>1, Prepended
  <2>3. CASE calls = <<c, BeginStep>>
    <3>1. Tail(calls) = <<BeginStep>>
      BY <2>3
    <3> QED BY <1>3, <2>3, <3>1, Prepended
  <2>4. CASE calls = <<c, BeginStep, calls[3]>> /\ IsCheck(calls[3])
    <3> PICK k : k = calls[3]
      OBVIOUS
    <3>1. calls = <<c, BeginStep, k>> /\ IsCheck(k)
      BY <2>4
    <3>2. Tail(calls) = <<BeginStep, k>>
      BY <3>1
    <3>4. <<e>> \o <<BeginStep, k>> = <<e, BeginStep, k>>
      BY Prepended
    <3>3. calls' = <<e, BeginStep, k>>
      BY <1>3, <3>2, <3>4
    <3> QED BY <2>4, <3>3
  <2>5. CASE calls = <<c, Step("stop", 0, NoTask), Step("notify", 0, NoTask),
                       Step("join", 0, NoTask)>>
    <3>1. Tail(calls) = StopCall
      BY <2>5 DEF StopCall
    <3>2. calls = <<c>> \o StopCall
      BY <2>5, Prepended DEF StopCall
    <3> QED BY <1>3, <3>1, <3>2
  <2> QED BY <2>1, <2>2, <2>3, <2>4, <2>5 DEF After

<1>6. /\ calls' # <<>> /\ Head(calls') = e /\ After(e)'
      /\ DOMAIN calls' = DOMAIN calls /\ calls[1] = c /\ calls'[1] = e
      /\ \A i \in DOMAIN calls : i = 1 \/ calls'[i] = calls[i]
  <2>1. CASE calls = <<c>> /\ calls' = <<e>>
    BY <2>1 DEF After
  <2>2. CASE calls = <<c, BeginStep>> /\ calls' = <<e, BeginStep>>
    BY <2>2 DEF After
  <2>3. CASE calls = <<c, BeginStep, calls[3]>> /\ IsCheck(calls[3])
            /\ calls' = <<e, BeginStep, calls[3]>>
    <3> PICK k : k = calls[3]
      OBVIOUS
    <3>1. calls = <<c, BeginStep, k>> /\ IsCheck(k) /\ calls' = <<e, BeginStep, k>>
      BY <2>3
    <3>2. Len(calls') = 3 /\ calls'[3] = k
      BY <3>1
    <3> QED BY <3>1, <3>2 DEF After
  <2>4. CASE calls = <<c>> \o StopCall /\ calls' = <<e>> \o StopCall
    <3>1. /\ calls = <<c, Step("stop", 0, NoTask), Step("notify", 0, NoTask),
                       Step("join", 0, NoTask)>>
          /\ calls' = <<e, Step("stop", 0, NoTask), Step("notify", 0, NoTask),
                        Step("join", 0, NoTask)>>
      BY <2>4, StopsAfter
    <3> QED BY <3>1 DEF After
  <2> QED BY <1>5, <2>1, <2>2, <2>3, <2>4
<1>7. Begins' = Begins
  BY <1>4, <1>6 DEF Begins
<1>8. /\ Doing("erase")' /\ ~Doing("clear")' /\ ~Doing("check")' /\ ~Doing("stop")'
      /\ ~Doing("notify")' /\ ~Doing("take")'
      /\ ~Doing("check") /\ ~Doing("erase") /\ ~Doing("notify") /\ ~Doing("take")
  BY <1>1, <1>4, <1>6 DEF Doing
<1>9. ~stopping
  BY <1>1 DEF ReviewInv, Staged, StopCall, Step, Doing
<1>10. \A g : Erasing(g)' <=> c.generation = g
  BY <1>4, <1>6, <1>8 DEF Erasing
<1>11. Cancelling'
  BY <1>1, <1>2, <1>3, <1>4, <1>6, <1>7, <1>8 DEF Cancelling
<1>12. Calling'
  BY <1>11 DEF Calling
<1>13. Staged'
  BY <1>1, <1>2, <1>4, <1>6, <1>7, <1>9 DEF ReviewInv, Staged
<1>14. Formed'
  BY <1>1, <1>2, <1>3 DEF ReviewInv, Formed, Busy, Working
<1>15. Owned'
  <2>1. (\A i \in DOMAIN calls : calls[i].step = "check" => AwaitsTask(calls[i].task))'
    BY <1>1, <1>4, <1>6 DEF ReviewInv, Owned, AwaitsTask, Awaits
  <2>2. pending # <<>> => Head(pending).generation = active /\ active' # active
    BY <1>2, <1>3, <1>8 DEF ReviewInv, Owned, Erasing
  <2>3. results # <<>> => Head(results).generation = active /\ active' # active
    BY <1>2, <1>3, <1>8, <1>9 DEF ReviewInv, Owned, Erasing
  <2>4. Busy' => thread'.task.generation # active'
    BY <1>1, <1>3 DEF ReviewInv, Formed, IsTask, Busy, Working
  <2> QED BY <1>1, <1>2, <1>10, <2>1, <2>2, <2>3, <2>4 DEF Owned
<1>16. Alone'
  BY <1>1, <1>8 DEF ReviewInv, Alone, Busy, Working
<1>17. Fitting'
  <2>1. \A i \in DOMAIN calls' : calls'[i].step = "check" => ~Adds(calls'[i].task)
    <3>1. SUFFICES ASSUME NEW i \in DOMAIN calls, calls'[i].step = "check", Adds(calls'[i].task)
                   PROVE  FALSE
      BY <1>6
    <3>2. calls'[i] = calls[i]
      BY <1>4, <1>6, <3>1
    <3>3. ~Begins
      BY <3>1, <3>2 DEF ReviewInv, Fitting
    <3> QED BY <1>8, <3>1, <3>2, <3>3, CheckIsFirst DEF ReviewInv
  <2>2. results' # <<>> => Head(results').generation # active'
    BY <1>1, <1>3 DEF ReviewInv, Formed
  <2> QED BY <1>1, <1>7, <2>1, <2>2 DEF ReviewInv, Fitting, Fits, Adds, Working
<1>18. Heard'
  BY <1>1, <1>8 DEF ReviewInv, Heard, NoResultIsStranded, NoRequestIsStranded
<1> QED BY <1>12, <1>13, <1>14, <1>15, <1>16, <1>17, <1>18 DEF ReviewInv

(* Cancel, under the lock: what waits of the session and what it was answered go. *)
LEMMA CancelErasesKeeps ==
    ASSUME ReviewInv, CancelErases, UNCHANGED reviewVars PROVE ReviewInv'
<1> PICK c : c = Head(calls)
  OBVIOUS
<1>1. /\ UNCHANGED <<session, card, discovery, active, stopping, nextGeneration, thread,
                     dictionary>>
      /\ Doing("erase") /\ calls # <<>> /\ calls' = Tail(calls) /\ c.step = "erase"
      /\ ~Doing("clear") /\ ~Doing("check")
  BY DEF CancelErases, reviewVars, Doing
<1>2. Cancelling /\ active = 0
  BY <1>1, CallForms DEF ReviewInv, Cancelling
<1>3. ~stopping
  BY <1>1 DEF ReviewInv, Staged, StopCall, Step, Doing
<1>4. pending' = <<>> /\ results' = <<>>
  <2>1. pending # <<>> => Head(pending).generation = c.generation
    BY <1>2 DEF ReviewInv, Formed, IsTask, Owned, Erasing
  <2>2. results # <<>> => results = <<Head(results)>> /\ Head(results).generation = c.generation
    BY <1>2, <1>3 DEF ReviewInv, Formed, Owned, Erasing
  <2>3. Others(results, c.generation) = <<>>
    BY <2>2, OthersNone
  <2> QED BY <2>1, <2>3 DEF CancelErases
<1>5. \/ calls = <<c>> /\ calls' = <<>>
      \/ calls = <<c, BeginStep>> /\ calls' = <<BeginStep>>
      \/ \E k : calls = <<c, BeginStep, k>> /\ IsCheck(k) /\ calls' = <<BeginStep, k>>
      \/ calls = <<c>> \o StopCall /\ calls' = StopCall
  <2>1. After(c)
    BY <1>2 DEF Cancelling
  <2>2. CASE calls = <<c>>
    BY <1>1, <2>2
  <2>3. CASE calls = <<c, BeginStep>>
    BY <1>1, <2>3
  <2>4. CASE calls = <<c, BeginStep, calls[3]>> /\ IsCheck(calls[3])
    <3> PICK k : k = calls[3]
      OBVIOUS
    <3>1. calls = <<c, BeginStep, k>> /\ IsCheck(k)
      BY <2>4
    <3>2. calls' = <<BeginStep, k>>
      BY <1>1, <3>1
    <3> QED BY <3>1, <3>2
  <2>5. CASE calls = <<c, Step("stop", 0, NoTask), Step("notify", 0, NoTask),
                       Step("join", 0, NoTask)>>
    <3>1. calls' = StopCall
      BY <1>1, <2>5 DEF StopCall
    <3> QED BY <2>5, <3>1, StopsAfter
  <2> QED BY <2>1, <2>2, <2>3, <2>4, <2>5 DEF After
<1>6. /\ Calling' /\ \A i \in DOMAIN calls' : i + 1 \in DOMAIN calls /\ calls'[i] = calls[i + 1]
      /\ \A i \in DOMAIN calls : i = 1 \/ (i - 1 \in DOMAIN calls' /\ calls'[i - 1] = calls[i])
      /\ 1 \in DOMAIN calls /\ calls[1] = c
      /\ calls' = <<>> \/ Head(calls').step \in {"begin", "stop"}
  <2>1. CASE calls = <<c>> /\ calls' = <<>>
    BY <2>1 DEF Calling
  <2>2. CASE calls = <<c, BeginStep>> /\ calls' = <<BeginStep>>
    BY <2>2 DEF Calling, Beginning, BeginStep, Step
  <2>3. CASE \E k : calls = <<c, BeginStep, k>> /\ IsCheck(k) /\ calls' = <<BeginStep, k>>
    <3> PICK k : calls = <<c, BeginStep, k>> /\ IsCheck(k) /\ calls' = <<BeginStep, k>>
      BY <2>3
    <3>1. Len(calls') = 2 /\ calls'[2] = k /\ Head(calls').step = "begin"
      BY DEF BeginStep, Step
    <3>2. Beginning'
      BY <3>1 DEF Beginning
    <3> QED BY <3>1, <3>2 DEF Calling
  <2>4. CASE calls = <<c>> \o StopCall /\ calls' = StopCall
    <3> PICK p, n, j : /\ StopCall = <<p, n, j>> /\ <<c>> \o StopCall = <<c, p, n, j>>
                       /\ p.step = "stop"
      BY StopsAfter DEF StopCall, Step
    <3>1. calls = <<c, p, n, j>> /\ calls' = <<p, n, j>>
      BY <2>4
    <3> QED BY <2>4, <3>1 DEF Calling, Leaves
  <2> QED BY <1>5, <2>1, <2>2, <2>3, <2>4
<1>7. Begins' = Begins
  <2>1. c.step # "begin"
    BY <1>1, <1>6 DEF Doing
  <2>2. \A i \in DOMAIN calls : calls[i].step = "begin" => i - 1 \in DOMAIN calls'
    BY <1>6, <2>1
  <2>3. Begins => Begins'
    BY <1>6, <2>1 DEF Begins
  <2>4. Begins' => Begins
    BY <1>6 DEF Begins
  <2>5. Begins \in BOOLEAN /\ Begins' \in BOOLEAN
    BY DEF Begins
  <2> QED BY <2>3, <2>4, <2>5
<1>8. /\ ~Doing("erase")' /\ ~Doing("clear")' /\ ~Doing("check")' /\ ~Doing("notify")
  <2>1. ~Doing("notify")
    BY <1>1 DEF Doing
  <2> QED BY <1>6, <2>1 DEF Doing
<1>9. Formed'
  BY <1>1, <1>4 DEF ReviewInv, Formed, Busy, Working
<1>10. Staged'
  BY <1>1, <1>3, <1>6, <1>7 DEF ReviewInv, Staged
<1>11. Owned'
  <2>1. (\A i \in DOMAIN calls : calls[i].step = "check" => AwaitsTask(calls[i].task))'
    BY <1>1, <1>6 DEF ReviewInv, Owned, AwaitsTask, Awaits
  <2>2. Busy' => thread'.task.generation # active'
    BY <1>1, <1>2 DEF ReviewInv, Formed, IsTask, Busy, Working
  <2> QED BY <1>4, <2>1, <2>2 DEF Owned
<1>12. Alone'
  BY <1>4, <1>8 DEF Alone
<1>13. Fitting'
  <2>1. (\A i \in DOMAIN calls : calls[i].step = "check" => ~Adds(calls[i].task))'
    <3>1. SUFFICES ASSUME NEW i \in DOMAIN calls', calls'[i].step = "check", Adds(calls'[i].task)
                   PROVE  FALSE
      BY DEF Adds
    <3>2. i + 1 \in DOMAIN calls /\ calls'[i] = calls[i + 1]
      BY <1>6, <3>1
    <3>3. ~Begins
      BY <3>1, <3>2 DEF ReviewInv, Fitting
    <3> QED BY <1>1, <3>1, <3>2, <3>3, CheckIsFirst DEF ReviewInv
  <2> QED BY <1>1, <1>4, <1>7, <2>1 DEF ReviewInv, Fitting, Fits, Adds, Working
<1>14. Heard'
  BY <1>1, <1>3, <1>4, <1>8 DEF ReviewInv, Heard, NoResultIsStranded, NoRequestIsStranded
<1> QED BY <1>6, <1>9, <1>10, <1>11, <1>12, <1>13, <1>14 DEF ReviewInv

(* BeginSession: nothing of an earlier session is in the queues. *)
LEMMA BeginSessionKeeps ==
    ASSUME ReviewInv, BeginSession, UNCHANGED reviewVars PROVE ReviewInv'
<1>1. /\ UNCHANGED <<session, card, discovery, stopping, thread, dictionary>>
      /\ Doing("begin") /\ calls # <<>> /\ calls' = Tail(calls)
      /\ active' = nextGeneration /\ nextGeneration' = nextGeneration + 1
      /\ pending' = <<>> /\ results' = <<>>
      /\ ~Doing("clear") /\ ~Doing("erase") /\ ~Doing("stop") /\ ~Doing("notify")
  BY DEF BeginSession, reviewVars, Doing
<1>2. Begins
  BY <1>1, CallForms DEF ReviewInv, Beginning, BeginStep, Step, Begins
<1>3. /\ ~stopping
      /\ nextGeneration \in Nat \ {0}
  <2>1. stopping => ~Begins
    BY DEF ReviewInv, Staged, StopCall, Step, Begins
  <2> QED BY <1>2, <2>1 DEF ReviewInv, Formed
<1>4. \/ calls' = <<>>
      \/ \E k : calls = <<BeginStep, k>> /\ IsCheck(k) /\ calls' = <<k>>
  <2>1. CASE calls = <<BeginStep>>
    BY <1>1, <2>1
  <2>2. CASE calls = <<BeginStep, calls[2]>> /\ IsCheck(calls[2])
    <3> PICK k : k = calls[2]
      OBVIOUS
    <3>1. calls = <<BeginStep, k>> /\ IsCheck(k)
      BY <2>2
    <3> QED BY <1>1, <3>1
  <2> QED BY <1>1, <2>1, <2>2, CallForms DEF ReviewInv, Beginning
<1>5. /\ Calling' /\ ~Begins' /\ ~Doing("erase")' /\ ~Doing("clear")' /\ ~Doing("stop")'
      /\ \A i \in DOMAIN calls' : calls'[i].step = "check" /\ IsTask(calls'[i].task)
            /\ \E n \in DOMAIN calls : calls'[i] = calls[n]
  <2>1. CASE calls' = <<>>
    BY <2>1 DEF Calling, Begins, Doing
  <2>2. CASE \E k : calls = <<BeginStep, k>> /\ IsCheck(k) /\ calls' = <<k>>
    <3> PICK k : calls = <<BeginStep, k>> /\ IsCheck(k) /\ calls' = <<k>>
      BY <2>2
    <3>1. k.step = "check" /\ IsTask(k.task)
      BY DEF IsCheck, Step
    <3>2. Calling'
      BY <3>1 DEF Calling
    <3> QED BY <3>1, <3>2 DEF Begins, Doing
  <2> QED BY <1>4, <2>1, <2>2
<1>6. /\ session # NoSession => session.generation = active'
      /\ discovery # 0 => discovery = active'
      /\ session # NoSession => session.state # "Decision"
  BY <1>1, <1>2 DEF ReviewInv, Staged
<1>7. Busy' => thread'.task.generation # active' /\ Busy
  BY <1>1 DEF ReviewInv, Formed, IsTask, Busy, Working
<1>8. Formed'
  <2>1. active' \in Nat /\ nextGeneration' \in Nat \ {0} /\ active' < nextGeneration'
    BY <1>1, <1>3
  <2>2. Busy => IsTask(thread.task) /\ thread.task.generation < nextGeneration + 1
    BY <1>3 DEF ReviewInv, Formed, IsTask
  <2>3. Busy' = Busy
    BY <1>1 DEF Busy, Working
  <2> QED BY <1>1, <2>1, <2>2, <2>3 DEF ReviewInv, Formed
<1>9. Staged'
  <2>1. \A i \in DOMAIN calls' : calls'[i].step \notin {"stop", "join"}
    BY <1>5
  <2> QED BY <1>1, <1>3, <1>5, <1>6, <2>1 DEF ReviewInv, Staged
<1>10. \A i \in DOMAIN calls' : AwaitsTask(calls'[i].task)
  <2>1. \A i \in DOMAIN calls : calls[i].step = "check" => AwaitsTask(calls[i].task)
    BY DEF ReviewInv, Owned
  <2> QED BY <1>5, <2>1
<1>11. Owned'
  <2>1. (\A i \in DOMAIN calls : calls[i].step = "check" => AwaitsTask(calls[i].task))'
    BY <1>1, <1>10 DEF AwaitsTask, Awaits
  <2> QED BY <1>1, <1>7, <2>1 DEF Owned
<1>12. Alone'
  <2>1. Doing("check")' => Head(calls').generation = active'
    <3> SUFFICES ASSUME Doing("check")' PROVE Head(calls').generation = active'
      OBVIOUS
    <3>1. 1 \in DOMAIN calls' /\ calls'[1] = Head(calls')
      BY <1>4 DEF Doing
    <3>2. AwaitsTask(Head(calls').task)
      BY <3>1, <1>10
    <3>3. Head(calls').generation = Head(calls').task.generation
      BY <1>4 DEF Doing, IsCheck, Step
    <3> QED BY <1>6, <3>2, <3>3 DEF AwaitsTask, Awaits
  <2> QED BY <1>1, <1>7, <2>1 DEF Alone
<1>13. Fitting'
  <2>1. (\A i \in DOMAIN calls : calls[i].step = "check" => ~Adds(calls[i].task))'
    BY <1>2, <1>5 DEF ReviewInv, Fitting, Adds
  <2> QED BY <1>1, <1>5, <1>6, <2>1 DEF ReviewInv, Fitting, Fits, Adds, Working
<1>14. Heard'
  BY <1>1, <1>3 DEF ReviewInv, Heard, NoResultIsStranded, NoRequestIsStranded
<1> QED BY <1>5, <1>8, <1>9, <1>11, <1>12, <1>13, <1>14 DEF ReviewInv

(* Submit: the request waits for the worker, in front of nothing. *)
LEMMA SubmitKeeps ==
    ASSUME ReviewInv, Submit, UNCHANGED reviewVars PROVE ReviewInv'
<1> PICK c : c = Head(calls)
  OBVIOUS
<1>1. /\ UNCHANGED <<session, card, discovery, active, results, stopping, nextGeneration,
                     thread, dictionary>>
      /\ Doing("check") /\ c.step = "check"
  BY DEF Submit, reviewVars, Doing
<1>2. /\ calls = <<c>> /\ IsCheck(c) /\ ~Begins /\ c.generation = active /\ AwaitsTask(c.task)
      /\ c.task.generation = active /\ IsTask(c.task)
  <2>1. c.generation = c.task.generation /\ IsTask(c.task)
    BY <1>1, CheckIsCurrent DEF IsCheck, Step
  <2> QED BY <1>1, <2>1, CheckIsCurrent
<1>3. ~stopping /\ active # 0
  <2>1. session # NoSession \/ discovery # 0
    BY <1>2 DEF AwaitsTask, Awaits
  <2>2. card # "quit"
    BY <2>1 DEF ReviewInv, Staged
  <2> QED BY <1>2, <2>2 DEF ReviewInv, Staged, IsTask
<1>4. pending' = <<c.task>> /\ calls' = <<Step("notify", c.generation, NoTask)>>
  <2>1. Tail(calls) = <<>>
    BY <1>2
  <2>2. calls' = <<Step("notify", c.generation, NoTask)>> \o <<>> /\ pending' = <<c.task>>
    BY <1>2, <1>3, <2>1 DEF Submit, IsCurrent
  <2> QED BY <2>2, Prepended
<1>5. /\ Head(calls').step = "notify" /\ calls' = <<Head(calls')>>
      /\ \A i \in DOMAIN calls' : calls'[i].step = "notify"
  BY <1>4 DEF Step
<1>6. /\ Doing("notify")' /\ ~Doing("erase")' /\ ~Doing("clear")' /\ ~Doing("check")'
      /\ ~Doing("stop")' /\ ~Begins' /\ Calling'
  BY <1>4, <1>5 DEF Doing, Begins, Calling
<1>7. /\ results = <<>>
      /\ Busy => thread.task.generation # active
  BY <1>1, <1>2 DEF ReviewInv, Alone
<1>8. /\ pending' # <<>> /\ Head(pending') = c.task /\ pending' = <<Head(pending')>>
  BY <1>4
<1>9. Formed'
  BY <1>1, <1>2, <1>8 DEF ReviewInv, Formed, Busy, Working
<1>10. Staged'
  BY <1>1, <1>2, <1>3, <1>5, <1>6 DEF ReviewInv, Staged
<1>11. Owned'
  BY <1>1, <1>2, <1>5, <1>7, <1>8 DEF Owned, AwaitsTask, Awaits, Busy, Working
<1>12. Alone'
  BY <1>1, <1>2, <1>6, <1>7, <1>8 DEF Alone, Busy, Working
<1>13. Fitting'
  <2>1. Adds(c.task) => Fits(c.task.dictionary, c.task.generation) /\ ~Working
    BY <1>1, <1>2 DEF ReviewInv, Fitting
  <2> QED BY <1>1, <1>5, <1>7, <1>8, <2>1 DEF ReviewInv, Fitting, Fits, Adds, Working
<1>14. Heard'
  BY <1>1, <1>6, <1>7 DEF Heard, NoResultIsStranded, NoRequestIsStranded
<1> QED BY <1>6, <1>9, <1>10, <1>11, <1>12, <1>13, <1>14 DEF ReviewInv

(* The rest of a call that begins nothing and asks nothing. *)
LEMMA PlainKeeps ==
    ASSUME ReviewInv, UNCHANGED <<session, card, discovery, active, nextGeneration, pending,
                                  results, dictionary>>,
           calls' = Tail(calls),
           Doing("notify") \/ Doing("drain") \/ Doing("join"),
           UNCHANGED stopping,
           thread' = thread \/ (thread.pc = "asleep" /\ thread' = [thread EXCEPT !.pc = "check"]),
           thread'.pc = "asleep" => ~Doing("notify"),
           readable' = readable \/ Doing("drain")
    PROVE  ReviewInv'
<1>1. \/ Doing("notify") /\ calls = <<Head(calls)>> /\ calls' = <<>>
      \/ Doing("notify") /\ calls = Tail(StopCall) /\ calls' = Tail(Tail(StopCall))
      \/ Doing("drain") /\ calls = TakeCall /\ calls' = Tail(TakeCall)
      \/ Doing("join") /\ calls = Tail(Tail(StopCall)) /\ calls' = <<>>
  <2>1. Doing("notify") => calls = <<Head(calls)>> \/ calls = Tail(StopCall)
    BY CallForms DEF ReviewInv
  <2>2. calls = <<Head(calls)>> => calls' = <<>>
    <3> PICK h : h = Head(calls)
      OBVIOUS
    <3> QED OBVIOUS
  <2>3. Tail(Tail(Tail(StopCall))) = <<>>
    BY DEF StopCall
  <2> QED BY <2>1, <2>2, <2>3, CallForms DEF ReviewInv
<1>2. /\ \A i \in DOMAIN calls : calls[i].step \notin {"check", "begin", "erase", "clear", "stop"}
      /\ \A i \in DOMAIN calls' : calls'[i].step \in {"take", "join"}
      /\ (\E i \in DOMAIN calls' : calls'[i].step = "join")
            => \E i \in DOMAIN calls : calls[i].step = "join"
      /\ Calling'
  <2>1. CASE Doing("notify") /\ calls = <<Head(calls)>> /\ calls' = <<>>
    BY <2>1 DEF Doing, Calling
  <2>2. CASE calls = Tail(StopCall) /\ calls' = Tail(Tail(StopCall))
    BY <2>2 DEF Calling, Leaves, StopCall, Step
  <2>3. CASE calls = TakeCall /\ calls' = Tail(TakeCall)
    BY <2>3 DEF Calling, TakeCall, Step
  <2>4. CASE calls = Tail(Tail(StopCall)) /\ calls' = <<>>
    BY <2>4 DEF Calling, StopCall, Step
  <2> QED BY <1>1, <2>1, <2>2, <2>3, <2>4
<1>3. ~Begins /\ ~Begins'
  BY <1>2 DEF Begins
<1>4. /\ ~Doing("erase")' /\ ~Doing("clear")' /\ ~Doing("stop")' /\ ~Doing("check")'
      /\ ~Doing("notify")'
      /\ ~Doing("erase") /\ ~Doing("clear") /\ ~Doing("stop") /\ ~Doing("take")
      /\ (Doing("drain") => Doing("take")')
  <2>1. calls' # <<>> => Head(calls') = calls'[1] /\ 1 \in DOMAIN calls'
    BY <1>1 DEF TakeCall, StopCall
  <2>2. Doing("drain") => calls' = Tail(TakeCall)
    BY CallForms DEF ReviewInv
  <2>3. calls' = Tail(TakeCall) => Doing("take")'
    BY DEF Doing, TakeCall, Step
  <2> QED BY <1>2, <2>1, <2>2, <2>3 DEF Doing
<1>5. /\ Busy' = Busy /\ Working' = Working
      /\ Busy => thread' = thread
      /\ thread'.pc = "publish" => thread' = thread
      /\ thread' = [pc |-> thread'.pc, task |-> thread'.task, result |-> thread'.result]
      /\ thread'.pc \in {"asleep", "check", "write", "exited", "execute", "load", "work",
                         "publish"}
      /\ thread.pc = "write" => thread'.pc = "write"
  BY DEF ReviewInv, Formed, Busy, Working
<1>6. Formed'
  BY <1>5 DEF ReviewInv, Formed
<1>7. Staged'
  <2>1. stopping => \/ calls' = <<>> \/ calls' = Tail(StopCall) \/ calls' = Tail(Tail(StopCall))
    <3>1. stopping => ~Doing("drain")
      BY DEF ReviewInv, Staged, StopCall, Step, Doing
    <3> QED BY <1>1, <3>1
  <2> QED BY <1>2, <1>3, <2>1 DEF ReviewInv, Staged
<1>8. Owned'
  <2>1. (\A i \in DOMAIN calls : calls[i].step = "check" => AwaitsTask(calls[i].task))'
    BY <1>2
  <2> QED BY <1>4, <1>5, <2>1 DEF ReviewInv, Owned, AwaitsTask, Awaits, Erasing, Leaving
<1>9. Alone'
  BY <1>4, <1>5 DEF ReviewInv, Alone
<1>10. Fitting'
  <2>1. (\A i \in DOMAIN calls : calls[i].step = "check" => ~Adds(calls[i].task))'
    BY <1>2
  <2>2. thread'.pc \in {"load", "work"} => thread' = thread
    BY <1>5 DEF Busy, Working
  <2> QED BY <1>3, <1>4, <1>5, <2>1, <2>2 DEF ReviewInv, Fitting, Fits, Adds, Leaving, Busy
<1>11. Heard'
  <2>1. NoResultIsStranded'
    BY <1>4, <1>5 DEF ReviewInv, Heard, NoResultIsStranded
  <2>2. NoRequestIsStranded'
    <3>1. thread'.pc = "asleep" => thread' = thread
      BY DEF ReviewInv, Formed
    <3> QED BY <3>1 DEF ReviewInv, Heard, NoRequestIsStranded
  <2> QED BY <2>1, <2>2 DEF Heard
<1> QED BY <1>2, <1>6, <1>7, <1>8, <1>9, <1>10, <1>11 DEF ReviewInv

(* condition.notify_one. *)
LEMMA NotifyWorkerKeeps ==
    ASSUME ReviewInv, NotifyWorker, UNCHANGED reviewVars PROVE ReviewInv'
<1>1. thread = [pc |-> thread.pc, task |-> thread.task, result |-> thread.result]
  BY DEF ReviewInv, Formed
<1>2. thread'.pc # "asleep"
  BY <1>1 DEF NotifyWorker
<1> QED BY <1>2, PlainKeeps DEF NotifyWorker, reviewVars

(* TakeResults drains the pipe and has still to look at the results. *)
LEMMA DrainKeeps ==
    ASSUME ReviewInv, Drain, UNCHANGED reviewVars PROVE ReviewInv'
  BY PlainKeeps DEF Drain, reviewVars, Doing

(* The destructor's join returns. *)
LEMMA JoinKeeps ==
    ASSUME ReviewInv, Join, UNCHANGED reviewVars PROVE ReviewInv'
  BY PlainKeeps DEF Join, reviewVars, Doing

(* The destructor, under the lock. *)
LEMMA StopKeeps ==
    ASSUME ReviewInv, Stop, UNCHANGED reviewVars PROVE ReviewInv'
<1>1. /\ UNCHANGED <<session, card, discovery, results, readable, nextGeneration, thread,
                     dictionary>>
      /\ Doing("stop") /\ stopping' = TRUE /\ pending' = <<>> /\ active' = 0
  BY DEF Stop, reviewVars
<1>2. calls = StopCall /\ calls' = Tail(StopCall)
  BY <1>1, CallForms DEF ReviewInv, Stop
<1>3. /\ \A i \in DOMAIN calls' : calls'[i].step \in {"notify", "join"}
      /\ \E i \in DOMAIN calls : calls[i].step = "stop"
      /\ Calling'
  BY <1>2 DEF Calling, Leaves, StopCall, Step
<1>4. /\ Doing("notify")' /\ ~Doing("check")' /\ ~Doing("erase")'
      /\ ~Doing("erase") /\ ~Doing("take")
  BY <1>2 DEF StopCall, Step, Doing
<1>5. card = "quit"
  BY <1>3 DEF ReviewInv, Staged
<1>6. session = NoSession /\ discovery = 0
  BY <1>5 DEF ReviewInv, Staged
<1>7. Busy' = Busy /\ Working' = Working
  BY <1>1 DEF Busy, Working
<1>8. Formed'
  BY <1>1, <1>7 DEF ReviewInv, Formed
<1>9. Staged'
  BY <1>1, <1>2, <1>5, <1>6 DEF ReviewInv, Staged
<1>10. Owned'
  <2>1. Busy => thread.task.generation # 0
    BY DEF ReviewInv, Formed, IsTask
  <2>2. results # <<>> => Head(results).generation # 0
    BY DEF ReviewInv, Formed
  <2> QED BY <1>1, <1>3, <1>7, <2>1, <2>2 DEF Owned
<1>11. Alone'
  BY <1>1, <1>4, <1>7 DEF ReviewInv, Alone
<1>12. Fitting'
  BY <1>1, <1>3, <1>6, <1>7 DEF ReviewInv, Fitting, Fits, Adds
<1>13. Heard'
  BY <1>1, <1>4 DEF ReviewInv, Heard, NoResultIsStranded, NoRequestIsStranded
<1> QED BY <1>3, <1>8, <1>9, <1>10, <1>11, <1>12, <1>13 DEF ReviewInv

(* All shared accesses of the application thread. *)
LEMMA CallKeeps ==
    ASSUME ReviewInv, CallStep PROVE ReviewInv'
  BY CancelClearsKeeps, CancelErasesKeeps, BeginSessionKeeps, SubmitKeeps, NotifyWorkerKeeps,
     DrainKeeps, StopKeeps, JoinKeeps DEF CallStep, CallerStep
-----------------------------------------------------------------------------
(* What the user and the results do to the review. *)

(* A request of session s. *)
IsRequest(s, t) ==
    /\ IsTask(t) /\ t.generation = s.generation /\ t.request = s.request
    /\ t.dictionary = s.dictionary

(* The session goes on as n: it asks the worker or has nothing to ask. *)
GoesOn(s, n) ==
    /\ IsSession(n.session)
    /\ n.session.generation = s.generation /\ n.session.dictionary = s.dictionary
    /\ \/ n.session.state # "Checking" /\ n.calls = <<>>
       \/ /\ n.session.state = "Checking"
          /\ \E t : IsRequest(n.session, t) /\ ~Adds(t) /\ n.calls = SubmitCall(t)

(* A session that scans on asks for the rest of its scope or is complete. *)
LEMMA ScanNextGoesOn ==
    ASSUME NEW s, NEW d, IsSession(s)
    PROVE  GoesOn(s, ScanNext(s, d)) /\ ScanNext(s, d).session.state \in {"Checking", "Complete"}
<1>1. CASE s.scan >= s.end
  <2> DEFINE n == ScanNext(s, d)
             u == [s EXCEPT !.state = "Complete", !.current = FALSE]
  <2>1. n.session = u /\ n.calls = <<>>
    BY <1>1 DEF ScanNext
  <2>2. IsSession(u) /\ u.generation = s.generation /\ u.dictionary = s.dictionary
        /\ u.state = "Complete"
    BY DEF IsSession, SessionFields
  <2> HIDE DEF n, u
  <2>3. GoesOn(s, n) /\ n.session.state = "Complete"
    BY <2>1, <2>2 DEF GoesOn
  <2> QED BY <2>3 DEF n
<1>2. CASE ~(s.scan >= s.end)
  <2> DEFINE n == ScanNext(s, d)
             u == [s EXCEPT !.state = "Checking", !.current = FALSE, !.request = @ + 1]
             t == Task(u, "Scan", TextFrom(d, s.scan, s.end), s.ignored)
  <2>1. n.session = u /\ n.calls = SubmitCall(t)
    BY <1>2 DEF ScanNext
  <2>2. IsSession(u) /\ u.generation = s.generation /\ u.dictionary = s.dictionary
        /\ u.state = "Checking"
    <3>1. /\ u = [f \in SessionFields |-> u[f]] /\ u.generation = s.generation
          /\ u.dictionary = s.dictionary /\ u.state = "Checking"
          /\ u.request = s.request + 1
      BY DEF IsSession, SessionFields
    <3> HIDE DEF u
    <3>2. u.request \in Nat
      BY <3>1 DEF IsSession
    <3> QED BY <3>1, <3>2 DEF IsSession
  <2>3. t.generation = u.generation /\ t.request = u.request /\ t.dictionary = u.dictionary
        /\ t.operation = "Scan"
    BY DEF Task
  <2> HIDE DEF n, u, t
  <2>4. IsRequest(u, t) /\ ~Adds(t)
    BY <2>2, <2>3 DEF IsRequest, IsTask, IsSession, Operations, Adds
  <2>5. GoesOn(s, n) /\ n.session.state = "Checking"
    BY <2>1, <2>2, <2>4 DEF GoesOn
  <2> QED BY <2>5 DEF n
<1> QED BY <1>1, <1>2

(* With nothing of it under way, a session may decide, end or ask again. *)
LEMMA ProceedKeeps ==
    ASSUME ReviewInv, UNCHANGED sharedVars, session # NoSession, UNCHANGED <<card, discovery>>,
           ~Begins, ~stopping, pending = <<>>, results' = <<>>,
           Busy => thread.task.generation # session.generation,
           IsSession(session'), session'.generation = session.generation,
           session'.dictionary = session.dictionary,
           session'.state = "Decision" =>
                Fits(session.dictionary, session.generation) /\ ~Working,
           \/ session'.state # "Checking" /\ calls' = <<>>
           \/ /\ session'.state = "Checking"
              /\ \E t : /\ IsRequest(session', t) /\ calls' = SubmitCall(t)
                        /\ Adds(t) => Fits(session.dictionary, session.generation) /\ ~Working
    PROVE  ReviewInv'
<1>1. /\ UNCHANGED <<active, pending, readable, stopping, nextGeneration, thread, dictionary>>
      /\ Busy' = Busy /\ Working' = Working
  BY DEF sharedVars, Busy, Working
<1>2. /\ session' # NoSession /\ card = "review" /\ discovery = 0
      /\ session.generation = active /\ session'.generation = active
  BY DEF ReviewInv, Staged, IsSession, NoSession
<1>3. \/ calls' = <<>>
      \/ \E t : /\ session'.state = "Checking"
                /\ IsRequest(session', t) /\ calls' = <<Step("check", t.generation, t)>>
                /\ Adds(t) => Fits(session.dictionary, session.generation) /\ ~Working
  BY DEF SubmitCall
<1>4. /\ Calling' /\ ~Begins' /\ ~Doing("erase")' /\ ~Doing("clear")' /\ ~Doing("take")'
      /\ \A i \in DOMAIN calls' :
            /\ calls'[i].step = "check" /\ AwaitsTask(calls[i].task)'
            /\ Adds(calls'[i].task) => /\ Fits(calls'[i].task.dictionary, calls'[i].task.generation)
                                       /\ ~Working
      /\ calls' # <<>> => Head(calls').generation = active
  <2>1. CASE calls' = <<>>
    BY <2>1 DEF Calling, Begins, Doing
  <2>2. CASE calls' # <<>>
    <3> PICK t : /\ session'.state = "Checking"
                 /\ IsRequest(session', t) /\ calls' = <<Step("check", t.generation, t)>>
                 /\ Adds(t) => Fits(session.dictionary, session.generation) /\ ~Working
      BY <1>3, <2>2
    <3> PICK k : k = Step("check", t.generation, t)
      OBVIOUS
    <3>1. calls' = <<k>> /\ k.step = "check" /\ k.task = t /\ k.generation = t.generation
      BY DEF Step
    <3>2. IsCheck(k)
      BY <3>1 DEF IsCheck, IsRequest
    <3>3. Head(calls') = k /\ calls' = <<Head(calls')>> /\ \A i \in DOMAIN calls' : calls'[i] = k
      BY <3>1
    <3>4. AwaitsTask(t)'
      BY <1>2 DEF AwaitsTask, Awaits, IsRequest
    <3>5. Calling'
      BY <3>2, <3>3 DEF Calling
    <3>6. Adds(t) => Fits(t.dictionary, t.generation) /\ ~Working
      BY DEF IsRequest
    <3>7. t.generation = active
      BY <1>2 DEF IsRequest
    <3> QED BY <3>1, <3>3, <3>4, <3>5, <3>6, <3>7 DEF Begins, Doing
  <2> QED BY <2>1, <2>2
<1>5. Formed'
  BY <1>1 DEF ReviewInv, Formed
<1>6. Staged'
  BY <1>1, <1>2, <1>4 DEF ReviewInv, Staged
<1>7. Owned'
  <2>1. (\A i \in DOMAIN calls : calls[i].step = "check" => AwaitsTask(calls[i].task))'
    BY <1>4
  <2> QED BY <1>1, <1>2, <2>1 DEF Owned
<1>8. Alone'
  BY <1>1, <1>2, <1>4 DEF Alone, Doing
<1>9. Fitting'
  BY <1>1, <1>4 DEF ReviewInv, Fitting, Fits
<1>10. Heard'
  BY <1>1, <1>4 DEF ReviewInv, Heard, NoResultIsStranded, NoRequestIsStranded
<1> QED BY <1>4, <1>5, <1>6, <1>7, <1>8, <1>9, <1>10 DEF ReviewInv

(* The same for a session that goes on as ScanNext or a result has it. *)
LEMMA GoesOnKeeps ==
    ASSUME ReviewInv, UNCHANGED sharedVars, session # NoSession, UNCHANGED <<card, discovery>>,
           ~Begins, ~stopping, pending = <<>>, results' = <<>>,
           Busy => thread.task.generation # session.generation,
           NEW s, NEW n, GoesOn(s, n), Goes(n),
           s.generation = session.generation, s.dictionary = session.dictionary,
           n.session.state = "Decision" =>
                Fits(session.dictionary, session.generation) /\ ~Working
    PROVE  ReviewInv'
<1>1. /\ IsSession(session') /\ session'.generation = session.generation
      /\ session'.dictionary = session.dictionary
      /\ session' = n.session /\ calls' = n.calls
  BY DEF GoesOn, Goes
<1>2. \/ session'.state # "Checking" /\ calls' = <<>>
      \/ /\ session'.state = "Checking"
         /\ \E t : /\ IsRequest(session', t) /\ calls' = SubmitCall(t)
                   /\ Adds(t) => Fits(session.dictionary, session.generation) /\ ~Working
  BY <1>1 DEF GoesOn
<1> QED BY <1>1, <1>2, ProceedKeeps

(* After a decision or a replacement the session scans on. *)
LEMMA AdvanceGoesOn ==
    ASSUME NEW s, IsSession(s), NEW d
    PROVE  GoesOn(s, AdvancePast(s, d)) /\ AdvancePast(s, d).session.state # "Decision"
<1> DEFINE u == [s EXCEPT !.scan = @ + 1]
<1>1. IsSession(u) /\ u.generation = s.generation /\ u.dictionary = s.dictionary
  BY DEF IsSession, SessionFields
<1>2. AdvancePast(s, d) = ScanNext(u, d)
  BY DEF AdvancePast
<1> HIDE DEF u
<1> QED BY <1>1, <1>2, ScanNextGoesOn DEF GoesOn

(* A replacement moves the scope and scans on. *)
LEMMA ApplyGoesOn ==
    ASSUME NEW s, IsSession(s), NEW ps, NEW replacement, Apply(s, ps, replacement)
    PROVE  \E n : GoesOn(s, n) /\ Goes(n) /\ n.session.state # "Decision"
<1> DEFINE d == Replaced(doc, ps, replacement)
           delta == (Len(replacement) - 1) * Cardinality(ps)
           u == [s EXCEPT !.end = @ + delta, !.scan = @ + Len(replacement)]
<1>1. Goes(ScanNext(u, d))
  BY DEF Apply
<1> HIDE DEF d, delta
<1>2. IsSession(u) /\ u.generation = s.generation /\ u.dictionary = s.dictionary
  BY DEF IsSession, SessionFields
<1> HIDE DEF u
<1>3. GoesOn(s, ScanNext(u, d)) /\ ScanNext(u, d).session.state # "Decision"
  BY <1>2, ScanNextGoesOn DEF GoesOn
<1> QED BY <1>1, <1>3

Decides == Replace \/ ReplaceEvery \/ Ignore \/ IgnoreAll \/ AddToDictionary

(* The five decisions. *)
LEMMA DecidesKeeps ==
    ASSUME ReviewInv, Decides, UNCHANGED sharedVars, UNCHANGED results PROVE ReviewInv'
<1>1. /\ Idle /\ card = "review" /\ session.state = "Decision" /\ UNCHANGED <<card, discovery>>
  BY DEF Decides, Replace, ReplaceEvery, Ignore, IgnoreAll, AddToDictionary, Deciding
<1>2. calls = <<>> /\ session # NoSession /\ ~Begins
  BY <1>1 DEF Idle, ReviewInv, Staged, Begins
<1>3. /\ pending = <<>> /\ results' = <<>> /\ ~stopping
      /\ (Busy => thread.task.generation # session.generation)
      /\ Fits(session.dictionary, session.generation) /\ ~Working
      /\ IsSession(session)
  BY <1>1, <1>2, DecisionIsQuiet DEF ReviewInv, Fitting, Formed
<1>4. ASSUME NEW s, IsSession(s), s.generation = session.generation,
             s.dictionary = session.dictionary, NEW n, GoesOn(s, n), Goes(n)
      PROVE  ReviewInv'
  BY <1>1, <1>2, <1>3, <1>4, GoesOnKeeps
<1>5. ASSUME NEW s, IsSession(s), s.generation = session.generation,
             s.dictionary = session.dictionary, NEW operation \in Operations, NEW text,
             Asks(s, operation, text)
      PROVE  ReviewInv'
  <2> DEFINE t == Task(session', operation, text, {Word(s.scan)})
  <2>1. session' = [s EXCEPT !.state = "Checking", !.request = @ + 1] /\ calls' = SubmitCall(t)
    BY <1>5 DEF Asks
  <2>2. t.generation = session'.generation /\ t.request = session'.request
        /\ t.dictionary = session'.dictionary /\ t.operation = operation
    BY DEF Task
  <2> HIDE DEF t
  <2>3. /\ session' = [f \in SessionFields |-> session'[f]] /\ session'.generation = s.generation
        /\ session'.dictionary = s.dictionary /\ session'.state = "Checking"
        /\ session'.request = s.request + 1
    BY <1>5, <2>1 DEF IsSession, SessionFields
  <2>4. IsSession(session')
    BY <1>5, <2>3 DEF IsSession
  <2>5. IsRequest(session', t)
    BY <1>5, <2>2, <2>4 DEF IsRequest, IsTask, IsSession
  <2> QED BY <1>1, <1>2, <1>3, <1>5, <2>1, <2>3, <2>4, <2>5, ProceedKeeps
<1>6. CASE Replace
  <2> PICK r : Apply(session, {session.scan}, r)
    BY <1>6 DEF Replace
  <2> QED BY <1>3, <1>4, ApplyGoesOn
<1>7. CASE ReplaceEvery
  <2> PICK r : Asks([session EXCEPT !.all = TRUE, !.replacement = r], "FindMatches",
                    TextFrom(doc, session.scan, session.end))
    BY <1>7 DEF ReplaceEvery
  <2> DEFINE s == [session EXCEPT !.all = TRUE, !.replacement = r]
             text == TextFrom(doc, session.scan, session.end)
  <2>1. IsSession(s) /\ s.generation = session.generation /\ s.dictionary = session.dictionary
    BY <1>3 DEF IsSession, SessionFields
  <2>2. Asks(s, "FindMatches", text) /\ "FindMatches" \in Operations
    BY DEF Operations
  <2> HIDE DEF s, text
  <2> QED BY <2>1, <2>2, <1>5
<1>8. CASE Ignore
  <2>1. Goes(AdvancePast(session, doc))
    BY <1>8 DEF Ignore
  <2> QED BY <1>3, <1>4, <2>1, AdvanceGoesOn
<1>9. CASE IgnoreAll
  <2> DEFINE s == [session EXCEPT !.ignored = @ \cup {Word(session.scan)}]
  <2>1. Goes(AdvancePast(s, doc))
    BY <1>9 DEF IgnoreAll
  <2>2. IsSession(s) /\ s.generation = session.generation /\ s.dictionary = session.dictionary
    BY <1>3 DEF IsSession, SessionFields
  <2> HIDE DEF s
  <2> QED BY <1>4, <2>1, <2>2, AdvanceGoesOn
<1>10. CASE AddToDictionary
  <2>1. Asks(session, "AddPersonalWord", <<>>) /\ "AddPersonalWord" \in Operations
    BY <1>10 DEF AddToDictionary, Operations
  <2> QED BY <1>3, <1>5, <2>1
<1> QED BY <1>6, <1>7, <1>8, <1>9, <1>10 DEF Decides

(* Nothing is under way that nobody waits for. *)
LEMMA Unawaited ==
    ASSUME ReviewInv, calls = <<>> \/ Doing("take"), ~stopping, \A r : ~Awaits(r)
    PROVE  /\ pending = <<>> /\ results = <<>>
           /\ Busy => thread.task.generation # active
<1>1. ~Leaving /\ ~Doing("erase")
  BY DEF Leaving, Doing
<1> QED BY <1>1 DEF ReviewInv, Owned, AwaitsTask, Erasing

(* Between calls, and before results are taken, nothing of a call is in the way. *)
LEMMA Resting ==
    ASSUME ReviewInv, calls = <<>> \/ Doing("take")
    PROVE  /\ ~Begins /\ ~Doing("erase") /\ ~Doing("notify") /\ ~Doing("check") /\ ~Leaving
           /\ pending # <<>> => Head(pending).generation = active
           /\ results # <<>> => Head(results).generation = active \/ stopping
           /\ thread.pc = "asleep" => pending = <<>> /\ ~stopping
<1>1. ~Begins
  <2>1. Doing("take") => calls = Tail(TakeCall)
    BY CallForms DEF ReviewInv
  <2> QED BY <2>1 DEF Begins, TakeCall, Step
<1>2. ~Doing("erase") /\ ~Doing("notify") /\ ~Doing("check") /\ ~Leaving
  BY DEF Doing, Leaving
<1> QED BY <1>1, <1>2 DEF ReviewInv, Owned, Erasing, Heard, NoRequestIsStranded, Formed

(* The parts of the invariant the calls have no part in. *)
LEMMA SharedKeeps ==
    ASSUME ReviewInv, UNCHANGED sharedVars, results' = results \/ results' = <<>>,
           session' = NoSession \/ IsSession(session'), discovery' \in Nat
    PROVE  Formed' /\ Busy' = Busy /\ Working' = Working
  BY DEF ReviewInv, Formed, sharedVars, Busy, Working

(* A session, or a search for dictionaries, is begun: what was under way is
   cancelled first, unless there is nothing. *)
LEMMA BeginKeeps ==
    ASSUME ReviewInv, UNCHANGED sharedVars, calls = <<>> \/ Doing("take"), ~stopping,
           \/ results' = <<>>
           \/ results' = results /\ calls = <<>>,
           \/ /\ IsSession(session') /\ session'.generation = nextGeneration
              /\ session'.state # "Decision" /\ card' = "review" /\ discovery' = 0
           \/ /\ session' = NoSession /\ card' = "discovering" /\ discovery' = nextGeneration,
           NEW c, c = Step("clear", active, NoTask), NEW k,
           \/ calls' = <<c, BeginStep>> \/ calls' = <<c, BeginStep, k>>
           \/ calls' = <<BeginStep>> \/ calls' = <<BeginStep, k>>,
           IsCheck(k), ~Adds(k.task),
           calls' = <<c, BeginStep, k>> \/ calls' = <<BeginStep, k>> => AwaitsTask(k.task)',
           calls' = <<c, BeginStep>> \/ calls' = <<c, BeginStep, k>> => active # 0,
           calls' = <<BeginStep>> \/ calls' = <<BeginStep, k>> =>
                /\ pending = <<>> /\ results' = <<>>
                /\ Busy => thread.task.generation # active
    PROVE  ReviewInv'
<1>1. /\ UNCHANGED <<active, pending, readable, stopping, nextGeneration, thread, dictionary>>
      /\ discovery' \in Nat /\ nextGeneration \in Nat \ {0} /\ active < nextGeneration
      /\ active \in Nat
  BY DEF sharedVars, ReviewInv, Formed
<1>2. Formed' /\ Busy' = Busy /\ Working' = Working
  BY <1>1, SharedKeeps
<1>3. /\ c.step = "clear" /\ c.generation = active /\ k.step = "check" /\ BeginStep.step = "begin"
  BY DEF Step, IsCheck, BeginStep
<1>4. /\ Begins' /\ ~Doing("erase")' /\ ~Doing("check")' /\ ~Doing("notify")' /\ ~Doing("stop")'
      /\ \A i \in DOMAIN calls' :
            /\ calls'[i].step \in {"clear", "begin", "check"}
            /\ calls'[i].step = "check" => calls'[i] = k /\ AwaitsTask(k.task)'
  BY <1>3 DEF Begins, Doing
<1>5. /\ ~Begins /\ (pending # <<>> => Head(pending).generation = active)
      /\ (results # <<>> => Head(results).generation = active)
      /\ (thread.pc = "asleep" => pending = <<>>)
  BY Resting
<1>6. Calling'
  <2>1. CASE calls' = <<c, BeginStep>> \/ calls' = <<c, BeginStep, k>>
    <3>1. Head(calls') = c /\ Doing("clear")'
      BY <1>3, <2>1 DEF Doing
    <3>2. After(c)'
      <4>1. calls' = <<c, BeginStep, k>> => Len(calls') = 3 /\ calls'[3] = k
        OBVIOUS
      <4> QED BY <2>1, <4>1 DEF After
    <3>3. Cancelling'
      BY <1>1, <1>3, <1>4, <2>1, <3>1, <3>2 DEF Cancelling
    <3> QED BY <3>3 DEF Calling
  <2>2. CASE calls' = <<BeginStep>>
    BY <2>2 DEF Calling, Beginning
  <2>3. CASE calls' = <<BeginStep, k>>
    <3>1. Len(calls') = 2 /\ calls'[2] = k
      BY <2>3
    <3> QED BY <2>3, <3>1 DEF Calling, Beginning
  <2> QED BY <2>1, <2>2, <2>3
<1>7. Staged'
  <2>1. session' # NoSession => session'.generation # 0
    BY <1>1 DEF NoSession
  <2>2. IsSession(session') => session' # NoSession
    BY DEF IsSession, NoSession
  <2>3. \A i \in DOMAIN calls' : calls'[i].step \notin {"stop", "join"}
    BY <1>4
  <2> QED BY <1>1, <1>4, <2>2, <2>3 DEF Staged
<1>8. Doing("clear")' \/ (pending = <<>> /\ results' = <<>>
                             /\ (Busy => thread.task.generation # active))
  BY <1>3 DEF Doing
<1>9. Owned'
  <2>1. (\A i \in DOMAIN calls : calls[i].step = "check" => AwaitsTask(calls[i].task))'
    BY <1>4 DEF AwaitsTask, Awaits
  <2> QED BY <1>1, <1>2, <1>5, <1>8, <2>1 DEF Owned, Leaving
<1>10. Alone'
  BY <1>1, <1>2, <1>4 DEF ReviewInv, Alone
<1>11. Fitting'
  <2>1. (\A i \in DOMAIN calls : calls[i].step = "check" => ~Adds(calls[i].task))'
    BY <1>4
  <2>2. session' # NoSession => session'.state # "Decision"
    OBVIOUS
  <2>3. results' # <<>> => Doing("clear")'
    BY <1>8
  <2> QED BY <1>1, <1>2, <2>1, <2>2, <2>3 DEF ReviewInv, Fitting, Fits, Leaving, Adds
<1>12. Heard'
  <2>1. NoResultIsStranded'
    BY <1>1 DEF ReviewInv, Heard, NoResultIsStranded, Doing
  <2> QED BY <1>1, <1>5, <2>1 DEF Heard, NoRequestIsStranded
<1> QED BY <1>2, <1>6, <1>7, <1>9, <1>10, <1>11, <1>12 DEF ReviewInv

(* The calls of a session begun, with a session before it and a request after it or not. *)
OneAfterAnother(a, b, k) ==
    /\ (<<>> \o <<b>>) \o <<>> = <<b>> /\ (<<>> \o <<b>>) \o <<k>> = <<b, k>>
    /\ (<<a>> \o <<b>>) \o <<>> = <<a, b>> /\ (<<a>> \o <<b>>) \o <<k>> = <<a, b, k>>
LEMMA Appended ==
    ASSUME NEW a, NEW b, NEW k
    PROVE  OneAfterAnother(a, b, k)
<1> DEFINE S == {a, b, k}
<1>1. <<>> \in Seq(S) /\ <<a>> \in Seq(S) /\ <<b>> \in Seq(S) /\ <<k>> \in Seq(S)
      /\ <<a, b>> \in Seq(S) /\ <<b, k>> \in Seq(S)
  OBVIOUS
<1> HIDE DEF S
<1>2. <<>> \o <<b>> = <<b>> /\ <<b>> \o <<>> = <<b>> /\ <<a, b>> \o <<>> = <<a, b>>
  BY <1>1, ConcatEmptySeq
<1>3. <<b>> \o <<k>> = <<b, k>> /\ <<a>> \o <<b>> = <<a, b>>
      /\ <<a>> \o <<b, k>> = <<a, b, k>>
  BY Prepended, Zenon
<1>4. (<<a>> \o <<b>>) \o <<k>> = <<a>> \o (<<b>> \o <<k>>)
  BY <1>1, ConcatAssociative
<1> QED BY <1>2, <1>3, <1>4 DEF OneAfterAnother

(* A new session scans its scope. *)
LEMMA FreshGoesOn ==
    ASSUME ReviewInv, NEW d \in Dictionaries, NEW from, NEW text,
           NEW s, s = [NoSession EXCEPT !.generation = nextGeneration, !.dictionary = d,
                         !.start = from.start, !.end = from.end, !.scan = from.start]
    PROVE  GoesOn(s, ScanNext(s, text)) /\ ScanNext(s, text).session.state # "Decision"
           /\ s.generation = nextGeneration
<1> DEFINE u == [s EXCEPT !.state = "Complete"]
<1>1. nextGeneration \in Nat \ {0}
  BY DEF ReviewInv, Formed
<1>2. /\ s = [f \in SessionFields |-> s[f]] /\ s.generation = nextGeneration
      /\ s.dictionary = d /\ s.request = 0
  BY DEF NoSession, SessionFields
<1>3. IsSession(u) /\ u.generation = s.generation /\ u.dictionary = s.dictionary
  <2>1. u = [f \in SessionFields |-> u[f]] /\ u.generation = nextGeneration
        /\ u.dictionary = d /\ u.request = 0 /\ u.state = "Complete"
    BY <1>2 DEF SessionFields
  <2> HIDE DEF u
  <2> QED BY <1>1, <1>2, <2>1 DEF IsSession
<1>4. ScanNext(s, text) = ScanNext(u, text)
  <2>1. u.scan = s.scan /\ u.end = s.end
    BY <1>2 DEF SessionFields
  <2>2. [s EXCEPT !.state = "Complete", !.current = FALSE]
            = [u EXCEPT !.state = "Complete", !.current = FALSE]
    BY <1>2 DEF SessionFields
  <2>3. [s EXCEPT !.state = "Checking", !.current = FALSE, !.request = @ + 1]
            = [u EXCEPT !.state = "Checking", !.current = FALSE, !.request = @ + 1]
    <3>1. {"state", "current", "request"} \subseteq SessionFields
      BY DEF SessionFields
    <3>2. DOMAIN s = SessionFields
      BY <1>2
    <3> QED BY <3>1, <3>2
  <2>4. u.ignored = s.ignored
    BY <1>2 DEF SessionFields
  <2> HIDE DEF u
  <2> QED BY <2>1, <2>2, <2>3, <2>4, Zenon DEF ScanNext
<1> HIDE DEF u
<1>5. GoesOn(u, ScanNext(u, text)) /\ ScanNext(u, text).session.state # "Decision"
  BY <1>3, ScanNextGoesOn
<1> QED BY <1>2, <1>3, <1>4, <1>5 DEF GoesOn

(* StartSpellcheckSession. *)
LEMMA StartKeeps ==
    ASSUME ReviewInv, UNCHANGED sharedVars, NEW d \in Dictionaries, StartSpellcheckSession(d),
           calls = <<>> \/ Doing("take"), ~stopping, discovery' = 0,
           \/ results' = <<>>
           \/ results' = results /\ calls = <<>>,
           session = NoSession => /\ pending = <<>> /\ results' = <<>>
                                  /\ Busy => thread.task.generation # active
    PROVE  ReviewInv'
<1> DEFINE from == IF session = NoSession THEN scope
                   ELSE [start |-> session.start, end |-> session.end]
           s == [NoSession EXCEPT !.generation = nextGeneration, !.dictionary = d,
                   !.start = from.start, !.end = from.end, !.scan = from.start]
           n == ScanNext(s, doc)
<1>1. /\ session' = n.session /\ calls' = DropSession \o BeginCall \o n.calls
      /\ card' = "review"
  BY DEF StartSpellcheckSession
<1> HIDE DEF from
<1>2. GoesOn(s, n) /\ n.session.state # "Decision" /\ s.generation = nextGeneration
  <2> PICK u : u = s
    OBVIOUS
  <2>1. u = [NoSession EXCEPT !.generation = nextGeneration, !.dictionary = d,
               !.start = from.start, !.end = from.end, !.scan = from.start]
    OBVIOUS
  <2>2. n = ScanNext(u, doc)
    OBVIOUS
  <2> HIDE DEF n, s
  <2>3. GoesOn(u, ScanNext(u, doc)) /\ ScanNext(u, doc).session.state # "Decision"
        /\ u.generation = nextGeneration
    BY <2>1, FreshGoesOn, Zenon
  <2> QED BY <2>2, <2>3
<1> HIDE DEF n, s
<1>3. /\ IsSession(session') /\ session'.generation = nextGeneration
      /\ session'.state # "Decision"
  BY <1>1, <1>2 DEF GoesOn
<1>4. \/ n.calls = <<>>
      \/ \E t : /\ session'.state = "Checking" /\ IsRequest(session', t) /\ ~Adds(t)
                /\ n.calls = <<Step("check", t.generation, t)>>
  BY <1>1, <1>2 DEF GoesOn, SubmitCall
<1> PICK c : c = Step("clear", active, NoTask)
  OBVIOUS
<1> PICK b : b = BeginStep
  OBVIOUS
<1>5. BeginCall = <<b>>
  BY DEF BeginCall, BeginStep
<1>6. \/ session = NoSession /\ DropSession = <<>>
      \/ session # NoSession /\ DropSession = <<c>> /\ active # 0
  <2>1. session # NoSession => session.generation = active /\ session.generation # 0
    BY Resting DEF ReviewInv, Staged, Formed, IsSession
  <2> QED BY <2>1 DEF DropSession, CancelCall
<1>10. /\ b.step = "begin" /\ c.step = "clear" /\ b = BeginStep
       /\ \A e, t : Step("check", e, t).step = "check"
  BY DEF BeginStep, Step
<1>11. ASSUME NEW k
       PROVE  /\ (<<>> \o <<b>>) \o <<>> = <<b>> /\ (<<>> \o <<b>>) \o <<k>> = <<b, k>>
              /\ (<<c>> \o <<b>>) \o <<>> = <<c, b>>
              /\ (<<c>> \o <<b>>) \o <<k>> = <<c, b, k>>
  <2>1. OneAfterAnother(c, b, k)
    BY Appended, Zenon
  <2> QED BY <2>1, Zenon DEF OneAfterAnother
<1>7. session' # NoSession
  BY <1>3 DEF IsSession, NoSession
<1>8. CASE n.calls = <<>>
  <2> PICK t : t = [NoTask EXCEPT !.generation = nextGeneration]
    OBVIOUS
  <2> PICK k : k = Step("check", t.generation, t)
    OBVIOUS
  <2>1. IsCheck(k) /\ ~Adds(k.task)
    <3>1. t.generation = nextGeneration /\ t.operation = "Discover"
      BY DEF NoTask
    <3>2. IsTask(t) /\ ~Adds(t)
      BY <3>1 DEF IsTask, Operations, Adds, ReviewInv, Formed
    <3> QED BY <3>2 DEF IsCheck, Step
  <2>2. (<<>> \o <<b>>) \o <<>> = <<b>> /\ (<<c>> \o <<b>>) \o <<>> = <<c, b>>
    BY <1>11
  <2>3. calls' = (DropSession \o <<b>>) \o <<>>
    BY <1>1, <1>5, <1>8
  <2>4. calls' = <<b>> \/ calls' = <<c, b>>
    BY <1>6, <2>2, <2>3
  <2>5. calls' = <<b>> => session = NoSession
    BY <1>10, <1>6, <2>2, <2>3
  <2>6. calls' # <<c, b, k>> /\ calls' # <<b, k>>
    <3>1. CASE calls' = <<b>> BY <3>1
    <3>2. CASE calls' = <<c, b>> BY <1>10, <3>2
    <3> QED BY <2>4, <3>1, <3>2
  <2>7. calls' = <<c, b>> => active # 0
    BY <1>10, <1>6, <2>2, <2>3
  <2> QED BY <1>3, <2>1, <2>4, <2>5, <2>6, <2>7, <1>1, <1>10, BeginKeeps
<1>9. CASE n.calls # <<>>
  <2> PICK t : /\ session'.state = "Checking" /\ IsRequest(session', t) /\ ~Adds(t)
               /\ n.calls = <<Step("check", t.generation, t)>>
    BY <1>4, <1>9
  <2> PICK k : k = Step("check", t.generation, t)
    OBVIOUS
  <2>1. IsCheck(k) /\ ~Adds(k.task) /\ k.task = t
    BY DEF IsCheck, Step, IsRequest
  <2>2. (<<>> \o <<b>>) \o <<k>> = <<b, k>> /\ (<<c>> \o <<b>>) \o <<k>> = <<c, b, k>>
    BY <1>11
  <2>3. calls' = (DropSession \o <<b>>) \o <<k>>
    BY <1>1, <1>5
  <2>4. calls' = <<b, k>> \/ calls' = <<c, b, k>>
    BY <1>6, <2>2, <2>3
  <2>5. calls' = <<b, k>> => session = NoSession
    BY <1>10, <1>6, <2>2, <2>3
  <2>6. calls' # <<c, b>> /\ calls' # <<b>>
    BY <1>10, <2>4
  <2>7. calls' = <<c, b, k>> => active # 0
    BY <1>10, <1>6, <2>2, <2>3
  <2>8. AwaitsTask(t)'
    BY <1>7 DEF AwaitsTask, Awaits, IsRequest
  <2>9. AwaitsTask(k.task)'
    BY <2>1, <2>8 DEF AwaitsTask, Awaits
  <2> QED BY <1>3, <2>1, <2>4, <2>5, <2>6, <2>7, <2>9, <1>1, <1>10, BeginKeeps
<1> QED BY <1>8, <1>9

(* The review, or the search, ends: what is under way is cancelled or the
   destructor takes it, unless there is nothing. *)
LEMMA EndKeeps ==
    ASSUME ReviewInv, UNCHANGED sharedVars, calls = <<>> \/ Doing("take"), ~stopping,
           \/ results' = <<>>
           \/ results' = results /\ calls = <<>>,
           session' = NoSession, discovery' = 0, card' # "review",
           NEW c, c = Step("clear", active, NoTask),
           NEW a, NEW b, NEW e, StopCall = <<a, b, e>>,
           \/ calls' = <<>> \/ calls' = <<c>>
           \/ (calls' = StopCall \/ calls' = <<c, a, b, e>>) /\ card' = "quit",
           calls' = <<c>> \/ calls' = <<c, a, b, e>> => active # 0,
           calls' = <<>> => /\ pending = <<>> /\ results' = <<>>
                            /\ Busy => thread.task.generation # active
    PROVE  ReviewInv'
<1>1. /\ UNCHANGED <<active, pending, readable, stopping, nextGeneration, thread, dictionary>>
      /\ nextGeneration \in Nat \ {0} /\ active < nextGeneration /\ active \in Nat
  BY DEF sharedVars, ReviewInv, Formed
<1>2. Formed' /\ Busy' = Busy /\ Working' = Working
  BY SharedKeeps
<1>3. /\ c.step = "clear" /\ c.generation = active
      /\ a = Step("stop", 0, NoTask) /\ b = Step("notify", 0, NoTask)
      /\ e = Step("join", 0, NoTask)
      /\ a.step = "stop" /\ b.step = "notify" /\ e.step = "join"
  BY DEF Step, StopCall
<1>4. /\ \A i \in DOMAIN calls' : calls'[i].step \in {"clear", "stop", "notify", "join"}
      /\ (\E i \in DOMAIN calls' : calls'[i].step \in {"stop", "join"}) => card' = "quit"
      /\ calls' # <<>> => Doing("clear")' \/ Doing("stop")'
      /\ ~Doing("erase")' /\ ~Doing("check")' /\ ~Doing("notify")' /\ ~Doing("take")'
  <2>1. CASE calls' = <<>> \/ calls' = <<c>>
    BY <1>3, <2>1 DEF Doing
  <2>2. CASE calls' = <<a, b, e>> /\ card' = "quit"
    BY <1>3, <2>2 DEF Doing
  <2>3. CASE calls' = <<c, a, b, e>> /\ card' = "quit"
    BY <1>3, <2>3 DEF Doing
  <2> QED BY <2>1, <2>2, <2>3
<1>5. ~Begins'
  BY <1>4 DEF Begins
<1>6. /\ (pending # <<>> => Head(pending).generation = active)
      /\ (results # <<>> => Head(results).generation = active)
      /\ (thread.pc = "asleep" => pending = <<>>)
  BY Resting
<1>7. Calling'
  <2>1. CASE calls' = <<c>> \/ calls' = <<c, a, b, e>>
    <3>1. Head(calls') = c /\ Doing("clear")'
      BY <1>3, <2>1 DEF Doing
    <3>2. After(c)'
      BY <1>3, <2>1 DEF After
    <3>3. Cancelling'
      BY <1>1, <1>3, <1>4, <2>1, <3>1, <3>2 DEF Cancelling
    <3> QED BY <3>3 DEF Calling
  <2>2. CASE calls' = <<>> \/ calls' = StopCall
    BY <2>2 DEF Calling, Leaves
  <2> QED BY <2>1, <2>2
<1>8. Staged'
  BY <1>1, <1>4, <1>5 DEF Staged
<1>9. Owned'
  <2>1. (\A i \in DOMAIN calls : calls[i].step = "check" => AwaitsTask(calls[i].task))'
    BY <1>4
  <2>2. calls' # <<>> => Leaving'
    BY <1>4 DEF Leaving
  <2> QED BY <1>1, <1>2, <1>6, <2>1, <2>2 DEF Owned
<1>10. Alone'
  BY <1>1, <1>2, <1>4 DEF ReviewInv, Alone
<1>11. Fitting'
  <2>1. (\A i \in DOMAIN calls : calls[i].step = "check" => ~Adds(calls[i].task))'
    BY <1>4
  <2> QED BY <1>1, <1>2, <2>1 DEF ReviewInv, Fitting, Fits, Adds
<1>12. Heard'
  <2>1. NoResultIsStranded'
    BY <1>1 DEF ReviewInv, Heard, NoResultIsStranded, Doing
  <2> QED BY <1>1, <1>6, <2>1 DEF Heard, NoRequestIsStranded
<1> QED BY <1>2, <1>7, <1>8, <1>9, <1>10, <1>11, <1>12 DEF ReviewInv

(* What a drop of the session or of the search cancels is the active session. *)
LEMMA DropForms ==
    ASSUME ReviewInv, calls = <<>> \/ Doing("take")
    PROVE  /\ session # NoSession =>
                /\ DropSession = <<Step("clear", active, NoTask)>> /\ active # 0
                /\ discovery = 0
           /\ session = NoSession => DropSession = <<>>
           /\ discovery # 0 => discovery = active
<1>1. session # NoSession => session.generation = active /\ session.generation # 0
                             /\ discovery = 0
  BY Resting DEF ReviewInv, Staged, Formed, IsSession
<1>2. discovery # 0 => discovery = active
  BY Resting DEF ReviewInv, Staged
<1> QED BY <1>1, <1>2 DEF DropSession, CancelCall

(* No review and no search waits for anything. *)
LEMMA NobodyAwaits ==
    ASSUME session = NoSession, discovery = 0
    PROVE  \A r : ~Awaits(r)
  BY DEF Awaits

(* CloseSpellcheck, whatever the card shows. *)
LEMMA CloseKeeps ==
    ASSUME ReviewInv, CloseSpellcheck, UNCHANGED sharedVars, UNCHANGED results
    PROVE  ReviewInv'
<1>1. /\ calls = <<>> /\ card # "quit" /\ card' = "closed" /\ discovery' = 0
      /\ session' = NoSession
      /\ calls' = DropSession \o (IF discovery = 0 THEN <<>> ELSE CancelCall(discovery))
  BY DEF CloseSpellcheck, Idle
<1>2. ~stopping
  BY <1>1 DEF ReviewInv, Staged
<1> PICK c : c = Step("clear", active, NoTask)
  OBVIOUS
<1> PICK a, b, e : StopCall = <<a, b, e>>
  BY DEF StopCall
<1>3. <<c>> \o <<>> = <<c>> /\ <<>> \o <<c>> = <<c>> /\ <<>> \o <<>> = <<>>
  <2>1. <<c>> \in Seq({c}) /\ <<>> \in Seq({c})
    OBVIOUS
  <2> QED BY <2>1, ConcatEmptySeq
<1>4. CASE session # NoSession
  <2>1. calls' = <<c>> /\ active # 0
    BY <1>1, <1>3, <1>4, DropForms
  <2>2. calls' # <<>>
    BY <2>1
  <2> QED BY <1>1, <1>2, <2>1, <2>2, EndKeeps
<1>5. CASE session = NoSession /\ discovery # 0
  <2>1. calls' = <<c>> /\ active # 0
    BY <1>1, <1>3, <1>5, DropForms DEF CancelCall
  <2>2. calls' # <<>>
    BY <2>1
  <2> QED BY <1>1, <1>2, <2>1, <2>2, EndKeeps
<1>6. CASE session = NoSession /\ discovery = 0
  <2>1. calls' = <<>>
    BY <1>1, <1>3, <1>6, DropForms
  <2>2. pending = <<>> /\ results = <<>> /\ (Busy => thread.task.generation # active)
    BY <1>1, <1>2, <1>6, NobodyAwaits, Unawaited
  <2> QED BY <1>1, <1>2, <2>1, <2>2, EndKeeps
<1> QED BY <1>4, <1>5, <1>6

(* The application ends, whatever is under way. *)
LEMMA QuitKeeps ==
    ASSUME ReviewInv, Quit, UNCHANGED sharedVars, UNCHANGED results
    PROVE  ReviewInv'
<1>1. /\ calls = <<>> /\ card # "quit" /\ card' = "quit" /\ discovery' = 0
      /\ session' = NoSession /\ calls' = DropSession \o StopCall
  BY DEF Quit, Idle
<1>2. ~stopping
  BY <1>1 DEF ReviewInv, Staged
<1> PICK c : c = Step("clear", active, NoTask)
  OBVIOUS
<1> PICK a, b, e : /\ a = Step("stop", 0, NoTask) /\ b = Step("notify", 0, NoTask)
                   /\ e = Step("join", 0, NoTask)
  OBVIOUS
<1>3. StopCall = <<a, b, e>>
  BY DEF StopCall
<1>4. <<c>> \o StopCall = <<c, a, b, e>> /\ <<>> \o StopCall = StopCall
  <2>1. <<c>> \o StopCall = <<c, Step("stop", 0, NoTask), Step("notify", 0, NoTask),
                              Step("join", 0, NoTask)>>
    BY StopsAfter, Zenon
  <2>2. StopCall \in Seq({a, b, e})
    BY <1>3
  <2> QED BY <2>1, <2>2, ConcatEmptySeq
<1>5. CASE session # NoSession
  <2>1. calls' = <<c, a, b, e>> /\ active # 0
    BY <1>1, <1>4, <1>5, DropForms
  <2>2. calls' # <<>>
    BY <2>1
  <2> QED BY <1>1, <1>2, <1>3, <2>1, <2>2, EndKeeps
<1>6. CASE session = NoSession
  <2>1. calls' = <<a, b, e>>
    BY <1>1, <1>3, <1>4, <1>6, DropForms
  <2>2. calls' # <<>> /\ calls' # <<c>> /\ calls' # <<c, a, b, e>>
    BY <2>1
  <2> QED BY <1>1, <1>2, <1>3, <2>1, <2>2, EndKeeps
<1> QED BY <1>5, <1>6

(* OpenSpellcheck begins a search for dictionaries. *)
LEMMA OpenKeeps ==
    ASSUME ReviewInv, OpenSpellcheck, UNCHANGED sharedVars, UNCHANGED results
    PROVE  ReviewInv'
<1> PICK t : t = [NoTask EXCEPT !.generation = nextGeneration, !.request = 1]
  OBVIOUS
<1> PICK c : c = Step("clear", active, NoTask)
  OBVIOUS
<1> PICK k : k = Step("check", t.generation, t)
  OBVIOUS
<1>1. /\ calls = <<>> /\ card = "closed" /\ card' = "discovering"
      /\ discovery' = nextGeneration /\ session' = session
      /\ calls' = BeginCall \o SubmitCall(t)
  BY DEF OpenSpellcheck, Idle
<1>2. nextGeneration \in Nat \ {0}
  BY DEF ReviewInv, Formed
<1>3. session = NoSession /\ discovery = 0 /\ ~stopping
  BY <1>1 DEF ReviewInv, Staged
<1>4. pending = <<>> /\ results = <<>> /\ (Busy => thread.task.generation # active)
  BY <1>1, <1>3, NobodyAwaits, Unawaited
<1>5. calls' = <<BeginStep, k>>
  <2>1. <<Step("begin", 0, NoTask)>> \o <<k>> = <<Step("begin", 0, NoTask), k>>
    <3> PICK b : b = Step("begin", 0, NoTask)
      OBVIOUS
    <3>1. <<b>> \o <<k>> = <<b, k>>
      BY Prepended, Zenon
    <3> QED BY <3>1
  <2> QED BY <1>1, <2>1 DEF BeginCall, BeginStep, SubmitCall
<1>6. t.generation = nextGeneration /\ t.operation = "Discover"
  BY DEF NoTask
<1>7. IsCheck(k) /\ ~Adds(k.task) /\ k.task = t
  <2>1. IsTask(t) /\ ~Adds(t)
    BY <1>2, <1>6 DEF IsTask, Operations, Adds
  <2> QED BY <2>1 DEF IsCheck, Step
<1>8. AwaitsTask(k.task)'
  BY <1>1, <1>2, <1>3, <1>6, <1>7 DEF AwaitsTask, Awaits
<1>9. calls' # <<c, BeginStep>> /\ calls' # <<c, BeginStep, k>>
  <2>1. BeginStep.step = "begin" /\ c.step = "clear"
    BY DEF BeginStep, Step
  <2> QED BY <1>5, <2>1
<1> QED BY <1>1, <1>3, <1>4, <1>5, <1>7, <1>8, <1>9, BeginKeeps

(* Another dictionary: the session before it is cancelled. *)
LEMMA ChangeKeeps ==
    ASSUME ReviewInv, ChangeDictionary, UNCHANGED sharedVars, UNCHANGED results
    PROVE  ReviewInv'
<1>1. calls = <<>> /\ card = "review" /\ discovery' = discovery
  BY DEF ChangeDictionary, Idle
<1>2. session # NoSession /\ discovery = 0 /\ ~stopping
  BY <1>1 DEF ReviewInv, Staged
<1> PICK d \in Dictionaries : StartSpellcheckSession(d)
  BY DEF ChangeDictionary
<1> QED BY <1>1, <1>2, StartKeeps

(* ProcessSpellcheckResults begins to take. *)
LEMMA PollKeeps ==
    ASSUME ReviewInv, Poll, UNCHANGED sharedVars, UNCHANGED results
    PROVE  ReviewInv'
<1>1. /\ calls = <<>> /\ card # "quit" /\ calls' = TakeCall
      /\ UNCHANGED <<session, card, discovery>>
  BY DEF Poll, Idle, reviewVars
<1>2. /\ UNCHANGED <<active, pending, readable, stopping, nextGeneration, thread, dictionary,
                     results>>
      /\ ~stopping /\ session \in {NoSession} \cup {session}
  BY <1>1 DEF sharedVars, ReviewInv, Staged
<1>3. /\ \A i \in DOMAIN calls' : calls'[i].step \in {"drain", "take"}
      /\ Doing("drain")' /\ ~Doing("erase")' /\ ~Doing("clear")' /\ ~Doing("stop")'
      /\ ~Doing("check")' /\ ~Doing("notify")' /\ Calling' /\ ~Begins'
  BY <1>1 DEF TakeCall, Step, Doing, Calling, Begins
<1>4. ~Begins /\ ~Doing("erase") /\ ~Leaving /\ ~Doing("notify")
  BY <1>1, Resting
<1>5. Busy' = Busy /\ Working' = Working
  BY <1>2 DEF Busy, Working
<1>6. Formed'
  BY <1>1, <1>2, <1>5 DEF ReviewInv, Formed
<1>7. Staged'
  BY <1>1, <1>2, <1>3, <1>4 DEF ReviewInv, Staged
<1>8. Owned'
  <2>1. (\A i \in DOMAIN calls : calls[i].step = "check" => AwaitsTask(calls[i].task))'
    BY <1>3
  <2> QED BY <1>1, <1>2, <1>4, <1>5, <2>1 DEF ReviewInv, Owned, AwaitsTask, Awaits, Erasing
<1>9. Alone'
  BY <1>2, <1>3, <1>5 DEF ReviewInv, Alone
<1>10. Fitting'
  <2>1. (\A i \in DOMAIN calls : calls[i].step = "check" => ~Adds(calls[i].task))'
    BY <1>3
  <2> QED BY <1>1, <1>2, <1>4, <1>5, <2>1 DEF ReviewInv, Fitting, Fits, Adds
<1>11. Heard'
  <2>1. ~Doing("take")
    BY <1>1 DEF Doing
  <2> QED BY <1>2, <1>4, <2>1 DEF ReviewInv, Heard, NoResultIsStranded, NoRequestIsStranded
<1> QED BY <1>3, <1>6, <1>7, <1>8, <1>9, <1>10, <1>11 DEF ReviewInv

(* All the user does, and the poll. *)
LEMMA UserKeeps ==
    ASSUME ReviewInv, UserStep \/ PollStep PROVE ReviewInv'
<1>1. CASE UserStep
  <2>1. UNCHANGED sharedVars /\ UNCHANGED results
    BY <1>1 DEF UserStep
  <2>2. OpenSpellcheck \/ CloseSpellcheck \/ ChangeDictionary \/ Decides \/ Quit
    BY <1>1 DEF UserStep, CardStep, Decides
  <2> QED BY <2>1, <2>2, OpenKeeps, CloseKeeps, ChangeKeeps, DecidesKeeps, QuitKeeps
<1>2. CASE PollStep
  BY <1>2, PollKeeps DEF PollStep
<1> QED BY <1>1, <1>2

(* What is taken while somebody waits is the answer, and nothing else is left. *)
LEMMA TakenForms ==
    ASSUME ReviewInv, Doing("take")
    PROVE  /\ calls = <<Head(calls)>> /\ Tail(calls) = <<>> /\ ~stopping
           /\ results # <<>> =>
                /\ results = <<Head(results)>> /\ Awaits(Head(results)) /\ Answers(Head(results))
                /\ pending = <<>> /\ ~Busy /\ Head(results).generation = active
                /\ Head(results).outcome \in Spoken /\ session # NoSession =>
                        Fits(session.dictionary, session.generation)
<1>1. calls = Tail(TakeCall)
  BY CallForms DEF ReviewInv
<1>2. calls = <<Step("take", 0, NoTask)>>
  BY <1>1 DEF TakeCall
<1>3. ~stopping
  BY <1>2 DEF ReviewInv, Staged, StopCall, Step
<1>4. ~Leaving /\ (results # <<>> => Head(results).generation = active)
  BY <1>3, Resting
<1>5. results # <<>> => /\ results = <<Head(results)>> /\ Awaits(Head(results))
                        /\ pending = <<>> /\ ~Busy
  BY <1>4 DEF ReviewInv, Owned, Alone, Formed
<1>6. results # <<>> => Answers(Head(results))
  BY <1>5 DEF Awaits, Answers, ReviewInv, Staged
<1>7. results # <<>> /\ Head(results).outcome \in Spoken /\ session # NoSession =>
        Fits(session.dictionary, session.generation)
  BY <1>4 DEF ReviewInv, Fitting
<1> QED BY <1>2, <1>3, <1>4, <1>5, <1>6, <1>7

(* Nothing was there to take. *)
LEMMA NothingTaken ==
    ASSUME ReviewInv, Doing("take"), Awaited = {}, calls' = Tail(calls), results' = <<>>,
           UNCHANGED reviewVars, UNCHANGED sharedVars
    PROVE  ReviewInv'
<1>1. results = <<>>
  <2> SUFFICES ASSUME results # <<>> PROVE FALSE
    OBVIOUS
  <2>1. 1 \in DOMAIN results /\ results[1] = Head(results) /\ Answers(Head(results))
    BY TakenForms
  <2> QED BY <2>1 DEF Awaited
<1>2. /\ UNCHANGED <<active, pending, readable, stopping, nextGeneration, thread, dictionary,
                     results, session, card, discovery>>
      /\ calls' = <<>>
  BY <1>1, TakenForms DEF sharedVars, reviewVars
<1>3. /\ ~Begins /\ ~Doing("erase") /\ ~Leaving
      /\ thread.pc = "asleep" => pending = <<>> /\ ~stopping
  BY Resting
<1>4. /\ Calling' /\ ~Begins' /\ ~Doing("erase")' /\ ~Doing("check")' /\ ~Leaving'
  BY <1>2 DEF Calling, Begins, Doing, Leaving
<1>5. Busy' = Busy /\ Working' = Working
  BY <1>2 DEF Busy, Working
<1>6. Formed'
  BY <1>2, <1>5 DEF ReviewInv, Formed
<1>7. Staged'
  BY <1>2, <1>3, <1>4 DEF ReviewInv, Staged
<1>8. Owned'
  <2>1. (\A i \in DOMAIN calls : calls[i].step = "check" => AwaitsTask(calls[i].task))'
    BY <1>2
  <2> QED BY <1>2, <1>3, <1>5, <2>1 DEF ReviewInv, Owned, AwaitsTask, Awaits, Erasing
<1>9. Alone'
  BY <1>2, <1>4, <1>5 DEF ReviewInv, Alone
<1>10. Fitting'
  <2>1. (\A i \in DOMAIN calls : calls[i].step = "check" => ~Adds(calls[i].task))'
    BY <1>2
  <2> QED BY <1>1, <1>2, <1>3, <1>5, <2>1 DEF ReviewInv, Fitting, Fits, Adds
<1>11. Heard'
  BY <1>1, <1>2, <1>3 DEF Heard, NoResultIsStranded, NoRequestIsStranded
<1> QED BY <1>4, <1>6, <1>7, <1>8, <1>9, <1>10, <1>11 DEF ReviewInv

(* A session that stops to show something. *)
LEMMA ShowsGoesOn ==
    ASSUME NEW s, NEW u, IsSession(u), u.generation = s.generation,
           u.dictionary = s.dictionary, u.state # "Checking"
    PROVE  GoesOn(s, [session |-> u, calls |-> <<>>])
  BY DEF GoesOn

(* The awaited answer moves the session on. *)
LEMMA HandleKeeps ==
    ASSUME ReviewInv, UNCHANGED sharedVars, session # NoSession, UNCHANGED <<card, discovery>>,
           Doing("take"), results' = <<>>, NEW i \in Awaited, HandleResult(results[i])
    PROVE  ReviewInv'
<1> PICK r : r = results[i]
  OBVIOUS
<1>1. results # <<>> /\ r = Head(results) /\ HandleResult(r)
  <2>1. results # <<>>
    BY DEF Awaited
  <2>2. results = <<Head(results)>> /\ i \in DOMAIN results
    BY <2>1, TakenForms DEF Awaited
  <2> QED BY <2>1, <2>2
<1>2. /\ pending = <<>> /\ ~Busy /\ ~Working /\ ~stopping /\ ~Begins /\ IsSession(session)
      /\ r.outcome \in Spoken => Fits(session.dictionary, session.generation)
  BY <1>1, TakenForms, Resting DEF Busy, ReviewInv, Formed
<1>3. ASSUME NEW s, NEW n, GoesOn(s, n), Goes(n), s.generation = session.generation,
             s.dictionary = session.dictionary,
             n.session.state = "Decision" => r.outcome \in Spoken
      PROVE  ReviewInv'
  BY <1>2, <1>3, GoesOnKeeps
<1>4. ASSUME NEW u, u = Fail(session), Goes([session |-> u, calls |-> <<>>]) PROVE ReviewInv'
  <2>1. IsSession(u) /\ u.generation = session.generation /\ u.dictionary = session.dictionary
        /\ u.state = "Failed"
    BY <1>2, <1>4 DEF Fail, IsSession, SessionFields
  <2>2. GoesOn(session, [session |-> u, calls |-> <<>>])
    BY <2>1, ShowsGoesOn
  <2> QED BY <1>3, <1>4, <2>1, <2>2
<1>5. CASE r.outcome = "Failed" /\ Goes([session |-> Fail(session), calls |-> <<>>])
  BY <1>4, <1>5
<1>6. CASE r.outcome = "Added" /\ Goes(AdvancePast(session, doc))
  BY <1>2, <1>3, <1>6, AdvanceGoesOn
<1>7. CASE /\ r.outcome = "NotAdded"
           /\ Goes([session |-> [session EXCEPT !.state = "Decision"], calls |-> <<>>])
  <2> PICK u : u = [session EXCEPT !.state = "Decision"]
    OBVIOUS
  <2>1. IsSession(u) /\ u.generation = session.generation /\ u.dictionary = session.dictionary
        /\ u.state = "Decision"
    BY <1>2 DEF IsSession, SessionFields
  <2>2. GoesOn(session, [session |-> u, calls |-> <<>>])
    BY <2>1, ShowsGoesOn
  <2> QED BY <1>3, <1>7, <2>1, <2>2 DEF Spoken
<1>8. CASE /\ r.outcome = "Matches"
           /\ \/ \E ps : Apply([session EXCEPT !.all = FALSE], ps, session.replacement)
              \/ Goes([session |-> Fail(session), calls |-> <<>>])
  <2>1. CASE \E ps : Apply([session EXCEPT !.all = FALSE], ps, session.replacement)
    <3> PICK s : s = [session EXCEPT !.all = FALSE]
      OBVIOUS
    <3> PICK ps : Apply(s, ps, session.replacement)
      BY <2>1
    <3>1. IsSession(s) /\ s.generation = session.generation
          /\ s.dictionary = session.dictionary
      BY <1>2 DEF IsSession, SessionFields
    <3>2. PICK n : GoesOn(s, n) /\ Goes(n) /\ n.session.state # "Decision"
      BY <3>1, ApplyGoesOn
    <3> QED BY <1>3, <3>1, <3>2
  <2>2. CASE Goes([session |-> Fail(session), calls |-> <<>>])
    BY <1>4, <2>2
  <2> QED BY <1>8, <2>1, <2>2
<1>9. CASE /\ r.outcome = "Complete"
           /\ Goes([session |-> [session EXCEPT !.scan = session.end, !.state = "Complete"],
                    calls |-> <<>>])
  <2> PICK u : u = [session EXCEPT !.scan = session.end, !.state = "Complete"]
    OBVIOUS
  <2>1. IsSession(u) /\ u.generation = session.generation /\ u.dictionary = session.dictionary
        /\ u.state = "Complete"
    BY <1>2 DEF IsSession, SessionFields
  <2>2. GoesOn(session, [session |-> u, calls |-> <<>>])
    BY <2>1, ShowsGoesOn
  <2> QED BY <1>3, <1>9, <2>1, <2>2
<1>10. CASE /\ r.outcome = "Occurrence"
            /\ Goes([session |-> IF r.position < session.end - session.scan
                                 THEN [session EXCEPT !.scan = @ + r.position,
                                         !.current = TRUE, !.state = "Decision"]
                                 ELSE Fail(session),
                     calls |-> <<>>])
  <2> PICK u : u = [session EXCEPT !.scan = @ + r.position, !.current = TRUE,
                                   !.state = "Decision"]
    OBVIOUS
  <2>1. CASE r.position < session.end - session.scan
    <3>1. IsSession(u) /\ u.generation = session.generation
          /\ u.dictionary = session.dictionary /\ u.state = "Decision"
      BY <1>2 DEF IsSession, SessionFields
    <3>2. GoesOn(session, [session |-> u, calls |-> <<>>])
      BY <3>1, ShowsGoesOn
    <3>3. Goes([session |-> u, calls |-> <<>>])
      BY <1>10, <2>1
    <3> QED BY <1>3, <1>10, <3>1, <3>2, <3>3 DEF Spoken
  <2>2. CASE ~(r.position < session.end - session.scan)
    BY <1>4, <1>10, <2>2
  <2> QED BY <2>1, <2>2
<1> QED BY <1>1, <1>5, <1>6, <1>7, <1>8, <1>9, <1>10 DEF HandleResult

(* Results taken by a session, by the search for dictionaries, or by nobody. *)
LEMMA TakeKeeps ==
    ASSUME ReviewInv, TakeStep PROVE ReviewInv'
<1>1. Doing("take") /\ results' = <<>> /\ UNCHANGED sharedVars
  BY DEF TakeStep, TakeResults
<1>2. CASE Awaited = {} /\ calls' = Tail(calls) /\ UNCHANGED reviewVars
  BY <1>1, <1>2, NothingTaken
<1>3. CASE /\ session # NoSession /\ \E i \in Awaited : HandleResult(results[i])
           /\ UNCHANGED <<outside, card, discovery, scope>>
  BY <1>1, <1>3, HandleKeeps
<1>4. CASE /\ session = NoSession /\ discovery' = 0
           /\ \E i \in Awaited :
                \/ \E d \in Dictionaries : StartSpellcheckSession(d)
                \/ card' = "failed" /\ calls' = <<>> /\ session' = session
  <2>1. results # <<>>
    BY <1>4 DEF Awaited
  <2>2. pending = <<>> /\ ~Busy /\ ~stopping
    BY <1>1, <2>1, TakenForms
  <2>3. CASE \E d \in Dictionaries : StartSpellcheckSession(d)
    BY <1>1, <1>4, <2>2, <2>3, StartKeeps
  <2>4. CASE card' = "failed" /\ calls' = <<>> /\ session' = session
    <3> PICK c : c = Step("clear", active, NoTask)
      OBVIOUS
    <3> PICK a, b, e : StopCall = <<a, b, e>>
      BY DEF StopCall
    <3>1. calls' # <<c>> /\ calls' # <<c, a, b, e>>
      BY <2>4
    <3> QED BY <1>1, <1>4, <2>2, <2>4, <3>1, EndKeeps
  <2> QED BY <1>4, <2>3, <2>4
<1> QED BY <1>1, <1>2, <1>3, <1>4 DEF TakeStep, TakeResults
-----------------------------------------------------------------------------
(* The application starts with no review and a worker asleep. *)
LEMMA InitReview ==
    ASSUME Init PROVE ReviewInv
<1>1. /\ active = 0 /\ pending = <<>> /\ results = <<>> /\ stopping = FALSE
      /\ nextGeneration = 1 /\ calls = <<>> /\ card = "closed" /\ discovery = 0
      /\ session = NoSession /\ thread.pc = "asleep"
      /\ thread = [pc |-> thread.pc, task |-> thread.task, result |-> thread.result]
      /\ dictionary = [loaded |-> NoDictionary, generation |-> 0, read |-> 0]
  BY DEF Init, WorkerInit, Asleep
<1>2. ~Busy /\ ~Working /\ ~Begins
  BY <1>1 DEF Busy, Working, Begins
<1>7. dictionary = [loaded |-> dictionary.loaded, generation |-> dictionary.generation,
                     read |-> dictionary.read]
  BY <1>1
<1>3. Formed
  <2>1. thread.pc # "publish" /\ pending = <<>> /\ results = <<>>
    BY <1>1
  <2>2. active \in Nat /\ nextGeneration \in Nat \ {0} /\ discovery \in Nat
        /\ active < nextGeneration /\ stopping \in BOOLEAN
    <3>1. active = 0 /\ nextGeneration = 1 /\ discovery = 0
      BY <1>1
    <3>2. stopping \in BOOLEAN
      BY <1>1, Zenon
    <3> QED BY <3>1, <3>2
  <2>3. session = NoSession /\ thread.pc = "asleep"
        /\ thread = [pc |-> thread.pc, task |-> thread.task, result |-> thread.result]
    BY <1>1
  <2> QED BY <1>2, <1>7, <2>1, <2>2, <2>3, Zenon DEF Formed
<1>4. Calling /\ Staged
  BY <1>1, <1>2 DEF Calling, Staged
<1>5. Owned /\ Alone
  BY <1>1, <1>2 DEF Owned, Alone, Doing
<1>6. Fitting /\ Heard
  BY <1>1, <1>2 DEF Fitting, Heard, NoResultIsStranded, NoRequestIsStranded
<1> QED BY <1>3, <1>4, <1>5, <1>6 DEF ReviewInv

(* Every step keeps the invariant. *)
LEMMA NextReview ==
    ASSUME ReviewInv, [Next]_vars PROVE ReviewInv'
<1>1. CASE Next
  <2>1. CASE ThreadStep
    BY <2>1, ThreadKeeps
  <2>2. CASE CallStep
    BY <2>2, CallKeeps
  <2>3. CASE UserStep \/ PollStep
    BY <2>3, UserKeeps
  <2>4. CASE TakeStep
    BY <2>4, TakeKeeps
  <2> QED BY <1>1, <2>1, <2>2, <2>3, <2>4 DEF Next
<1>2. CASE UNCHANGED vars
  <2>1. UNCHANGED <<active, pending, results, readable, stopping, nextGeneration, thread,
                    dictionary, calls, session, card, discovery>>
    BY <1>2 DEF vars, workerVars, reviewVars
  <2>2. Busy' = Busy /\ Working' = Working /\ Begins' = Begins
    BY <2>1 DEF Busy, Working, Begins
  <2>3. Formed'
    BY <2>1, <2>2 DEF ReviewInv, Formed
  <2>4. Calling'
    BY <2>1, <2>2 DEF ReviewInv, Calling, Cancelling, Beginning, After, Leaves, Doing
  <2>5. Staged'
    BY <2>1, <2>2 DEF ReviewInv, Staged
  <2>6. Owned'
    BY <2>1, <2>2 DEF ReviewInv, Owned, AwaitsTask, Awaits, Erasing, Leaving, Doing
  <2>7. Alone'
    BY <2>1, <2>2 DEF ReviewInv, Alone, Doing
  <2>8. Fitting'
    BY <2>1, <2>2 DEF ReviewInv, Fitting, Fits, Adds, Leaving, Doing
  <2>9. Heard'
    BY <2>1 DEF ReviewInv, Heard, NoResultIsStranded, NoRequestIsStranded, Doing
  <2> QED BY <2>3, <2>4, <2>5, <2>6, <2>7, <2>8, <2>9 DEF ReviewInv
<1> QED BY <1>1, <1>2

(* A review has one request under way, in one place, from the first state on. *)
THEOREM OneRequestUnderWay == Spec => []ReviewInv
<1>1. Init => ReviewInv
  BY InitReview
<1>2. ReviewInv /\ [Next]_vars => ReviewInv'
  BY NextReview
<1> QED BY <1>1, <1>2, PTL DEF Spec

(* Whatever the two threads interleave - a publish between a drain and a take,
   a cancel while a dictionary loads, the destructor at any point - no result
   stays in the queue with nothing to wake the event loop, and the worker does
   not wait while a request or the order to stop is there for it
   (SpellcheckWorker::Publish, TakeResults, Submit, Run). *)
THEOREM NothingIsLeftBehind == Spec => []NothingIsStranded
<1>1. ReviewInv => NothingIsStranded
  BY DEF ReviewInv, Heard, NothingIsStranded
<1> QED BY <1>1, OneRequestUnderWay, PTL

(* What a result and a dictionary belong to follows from where the one request is. *)
LEMMA BelongingHolds ==
    ASSUME ReviewInv PROVE AnswersBelong
<1>1. WorksWithOwnDictionary
  <2> SUFFICES ASSUME thread.pc = "work", thread.task.operation \in {"Scan", "AddPersonalWord"}
               PROVE  /\ dictionary.loaded = thread.task.dictionary
                      /\ dictionary.read = thread.task.generation
    BY DEF WorksWithOwnDictionary
  <2>1. Working /\ IsTask(thread.task)
    BY DEF ReviewInv, Formed, Busy, Working
  <2>2. thread.task.dictionary # NoDictionary
    BY <2>1, NoDictionaryAssumption DEF IsTask
  <2> QED BY <2>1, <2>2 DEF ReviewInv, Fitting, Adds
<1>2. \A i, j \in Awaited : i = j
  <2> SUFFICES ASSUME NEW i \in Awaited, NEW j \in Awaited PROVE i = j
    OBVIOUS
  <2>1. results # <<>> /\ i \in DOMAIN results /\ j \in DOMAIN results
    BY DEF Awaited
  <2>2. results = <<Head(results)>>
    BY <2>1 DEF ReviewInv, Formed
  <2> QED BY <2>1, <2>2
<1>3. ASSUME session # NoSession, NEW i \in Awaited PROVE session.state = "Checking"
  <2>1. results # <<>> /\ i \in DOMAIN results /\ Answers(results[i])
    BY DEF Awaited
  <2> PICK r : r = Head(results)
    OBVIOUS
  <2>2. results = <<r>> /\ results[i] = r
    BY <2>1 DEF ReviewInv, Formed
  <2>3. r.generation = session.generation /\ r.request = session.request
    BY <1>3, <2>1, <2>2 DEF Answers
  <2>4. card = "review" /\ ~stopping
    BY <1>3 DEF ReviewInv, Staged
  <2>5. r.generation = active \/ Erasing(r.generation)
    BY <2>1, <2>4 DEF ReviewInv, Owned
  <2>6. r.generation < nextGeneration
    <3>1. Doing("erase") => Cancelling
      BY CallForms DEF ReviewInv
    <3> QED BY <2>5, <3>1 DEF Erasing, Cancelling, ReviewInv, Formed
  <2>7. ~Begins /\ r.generation = active
    <3>1. Begins => r.generation = nextGeneration
      BY <1>3, <2>3 DEF ReviewInv, Staged
    <3>2. nextGeneration \in Nat
      BY DEF ReviewInv, Formed
    <3>3. ~Begins
      BY <2>6, <3>1, <3>2
    <3> QED BY <1>3, <2>3, <3>3 DEF ReviewInv, Staged
  <2>8. ~Leaving
    <3>1. ~Doing("clear")
      BY <1>3, <2>7, CallForms DEF ReviewInv, Cancelling
    <3>2. ~Doing("stop")
      <4>1. Doing("stop") => calls = StopCall
        BY CallForms DEF ReviewInv
      <4>2. calls = StopCall => calls[1].step = "stop" /\ 1 \in DOMAIN calls
        BY DEF StopCall, Step
      <4> QED BY <2>4, <4>1, <4>2 DEF ReviewInv, Staged
    <3> QED BY <3>1, <3>2 DEF Leaving
  <2>9. Awaits(r)
    BY <2>1, <2>7, <2>8 DEF ReviewInv, Owned
  <2> QED BY <1>3, <2>9 DEF Awaits
<1>4. AnswersAreAwaited
  BY <1>2, <1>3 DEF AnswersAreAwaited
<1> QED BY <1>1, <1>4 DEF AnswersBelong

(* The worker compares and adds with the dictionary of the review that asked,
   read for it, although the dictionary outlives reviews and a cancelled one
   may still be loading; and the answers a review meets are to the request it
   waits for, none of them left over and never two
   (SpellcheckWorker::Execute, SpellcheckSession::ProcessResults). *)
THEOREM AnswersBelongToTheReview == Spec => []AnswersBelong
<1>1. ReviewInv => AnswersBelong
  BY BelongingHolds
<1> QED BY <1>1, OneRequestUnderWay, PTL
=============================================================================
