------------------------- MODULE ApplicationProofs -------------------------
(***************************************************************************)
(* Theorems about Application, for every value of the constants.           *)
(*                                                                         *)
(* Every handler of DocumentWorkspace takes a good state to a good state;  *)
(* the inductive invariant is that the application's record is good, since *)
(* every action hands it to one handler, or changes it in a field no part  *)
(* of Good relates to another.  The second part is about a session without *)
(* a spelling review, of which more holds.                                 *)
(***************************************************************************)
EXTENDS Application, SequenceTheorems, WellFoundedInduction, TLAPS
-----------------------------------------------------------------------------
(* The strip: what Append and RemoveAt do to a sequence without            *)
(* repetitions, and the least number of a set                              *)

\* A nonempty set of natural numbers has a least element.
LEMMA LeastNatural ==
  ASSUME NEW T, T \subseteq Nat, T # {}
  PROVE  \E m \in T : \A n \in T : m <= n
  <1> DEFINE R == OpToRel(<, Nat)
  <1>1. IsWellFoundedOn(R, Nat) BY NatLessThanWellFounded, Zenon
  <1>2. \A x, y \in Nat : <<x, y>> \in R <=> x < y BY DEF OpToRel
  <1> HIDE DEF R
  <1>3. PICK x \in T : \A y \in T : ~ (<<y, x>> \in R) BY <1>1, WFMin
  <1>4. \A n \in T : x <= n
    <2>1. \A n \in T : ~ (n < x) BY <1>2, <1>3
    <2> QED BY <2>1
  <1> QED BY <1>4

\* Appending a new element adds it to a sequence without repetitions.
LEMMA AppendNew ==
  ASSUME NEW A, NEW q \in Seq(A), NEW x \in A, x \notin ToSet(q),
         IsInjective(q)
  PROVE  /\ Append(q, x) \in Seq(A)
         /\ ToSet(Append(q, x)) = ToSet(q) \cup {x}
         /\ IsInjective(Append(q, x))
  <1>1. /\ Append(q, x) \in Seq(A)
        /\ Len(Append(q, x)) = Len(q) + 1
        /\ \A i \in 1 .. Len(q) : Append(q, x)[i] = q[i]
        /\ Append(q, x)[Len(q) + 1] = x
    BY AppendProperties
  <1>2. DOMAIN q = 1 .. Len(q) /\ DOMAIN Append(q, x) = 1 .. Len(q) + 1
        /\ Len(q) \in Nat
    BY <1>1, LenProperties
  <1>3. ToSet(Append(q, x)) = ToSet(q) \cup {x}
    BY <1>1, <1>2 DEF ToSet
  <1>4. IsInjective(Append(q, x))
    BY <1>1, <1>2 DEF ToSet, IsInjective
  <1> QED BY <1>1, <1>3, <1>4

\* RemoveAt closes the gap: the elements before it stay, the others move up.
LEMMA RemoveAtElements ==
  ASSUME NEW A, NEW q \in Seq(A), NEW i \in 1 .. Len(q)
  PROVE  /\ RemoveAt(q, i) \in Seq(A)
         /\ Len(RemoveAt(q, i)) = Len(q) - 1
         /\ \A j \in 1 .. Len(q) - 1 :
              RemoveAt(q, i)[j] = IF j < i THEN q[j] ELSE q[j + 1]
  <1>1. Len(q) \in Nat /\ i \in Int /\ q \in [1 .. Len(q) -> A]
    BY LenProperties
  <1> DEFINE l == SubSeq(q, 1, i - 1)
             r == SubSeq(q, i + 1, Len(q))
  <1>2. \A j \in 1 .. i - 1 : q[j] \in A BY <1>1
  <1>3. \A j \in i + 1 .. Len(q) : q[j] \in A BY <1>1
  <1>4. /\ l \in Seq(A) /\ Len(l) = i - 1
        /\ \A j \in 1 .. i - 1 : l[j] = q[j]
    <2>1. /\ l \in Seq(A)
          /\ Len(l) = IF 1 <= i - 1 THEN (i - 1) - 1 + 1 ELSE 0
          /\ \A j \in 1 .. (i - 1) - 1 + 1 : l[j] = q[1 + j - 1]
      <3>1. i - 1 \in Int /\ 1 \in Int BY <1>1
      <3> QED BY <1>2, <3>1, SubSeqProperties
    <2> HIDE DEF l
    <2>2. \A j \in 1 .. i - 1 : j \in 1 .. (i - 1) - 1 + 1 /\ 1 + j - 1 = j
      BY <1>1
    <2>3. Len(l) = i - 1 BY <1>1, <2>1
    <2> QED BY <2>1, <2>2, <2>3
  <1>5. /\ r \in Seq(A) /\ Len(r) = Len(q) - i
        /\ \A j \in 1 .. Len(q) - i : r[j] = q[j + i]
    <2>1. /\ r \in Seq(A)
          /\ Len(r) = IF i + 1 <= Len(q) THEN Len(q) - (i + 1) + 1 ELSE 0
          /\ \A j \in 1 .. Len(q) - (i + 1) + 1 : r[j] = q[i + 1 + j - 1]
      <3>1. i + 1 \in Int /\ Len(q) \in Int BY <1>1
      <3> QED BY <1>3, <3>1, SubSeqProperties
    <2> HIDE DEF r
    <2>2. \A j \in 1 .. Len(q) - i :
            j \in 1 .. Len(q) - (i + 1) + 1 /\ i + 1 + j - 1 = j + i
      BY <1>1
    <2>3. (IF i + 1 <= Len(q) THEN Len(q) - (i + 1) + 1 ELSE 0) = Len(q) - i
      <3>1. \A n \in Nat : \A k \in 1 .. n :
              (IF k + 1 <= n THEN n - (k + 1) + 1 ELSE 0) = n - k
        OBVIOUS
      <3> QED BY <1>1, <3>1
    <2>4. Len(r) = Len(q) - i BY <2>1, <2>3
    <2> QED BY <2>1, <2>2, <2>4
  <1>6. RemoveAt(q, i) = l \o r BY Zenon DEF RemoveAt
  <1> HIDE DEF l, r
  <1> DEFINE c == l \o r
  <1>7. /\ c \in Seq(A) /\ Len(c) = Len(l) + Len(r)
        /\ \A j \in 1 .. Len(l) + Len(r) :
             c[j] = IF j <= Len(l) THEN l[j] ELSE r[j - Len(l)]
    BY <1>4, <1>5, ConcatProperties
  <1> HIDE DEF c
  <1>8. Len(c) = Len(q) - 1 BY <1>1, <1>4, <1>5, <1>7
  <1>9. ASSUME NEW j \in 1 .. Len(q) - 1
        PROVE  c[j] = IF j < i THEN q[j] ELSE q[j + 1]
    <2>1. c[j] = IF j <= i - 1 THEN l[j] ELSE r[j - (i - 1)]
      BY <1>1, <1>4, <1>5, <1>7
    <2>2. CASE j < i
      <3>1. j <= i - 1 /\ j \in 1 .. i - 1 BY <1>1, <2>2
      <3> QED BY <1>4, <2>1, <2>2, <3>1
    <2>3. CASE ~ (j < i)
      <3>1. /\ ~ (j <= i - 1) /\ j - (i - 1) \in 1 .. Len(q) - i
            /\ j - (i - 1) + i = j + 1
        BY <1>1, <2>3
      <3> QED BY <1>5, <2>1, <2>3, <3>1
    <2> QED BY <2>2, <2>3
  <1>10. RemoveAt(q, i) = c BY <1>6 DEF c
  <1> QED BY <1>7, <1>8, <1>9, <1>10

\* Removing a position removes its element, and only that.
LEMMA RemoveOne ==
  ASSUME NEW A, NEW q \in Seq(A), NEW i \in DOMAIN q, IsInjective(q)
  PROVE  /\ RemoveAt(q, i) \in Seq(A)
         /\ ToSet(RemoveAt(q, i)) = ToSet(q) \ {q[i]}
         /\ IsInjective(RemoveAt(q, i))
  <1> DEFINE n == Len(q)
             c == RemoveAt(q, i)
  <1>1. n \in Nat /\ DOMAIN q = 1 .. n /\ i \in 1 .. n BY LenProperties
  <1>2. /\ c \in Seq(A) /\ Len(c) = n - 1
        /\ \A j \in 1 .. n - 1 : c[j] = IF j < i THEN q[j] ELSE q[j + 1]
    BY <1>1, RemoveAtElements
  <1>3. DOMAIN c = 1 .. n - 1 BY <1>2, LenProperties
  <1> HIDE DEF c, n
  <1>4. \A a, b \in 1 .. n : q[a] = q[b] => a = b BY <1>1 DEF IsInjective
  <1>5. \A j \in 1 .. n - 1 : j \in 1 .. n /\ j + 1 \in 1 .. n BY <1>1
  <1>6. ToSet(c) = ToSet(q) \ {q[i]}
    <2>1. ASSUME NEW j \in 1 .. n - 1 PROVE c[j] \in ToSet(q) \ {q[i]}
      <3>1. CASE j < i
        <4>1. c[j] = q[j] /\ j # i BY <1>1, <1>2, <3>1
        <4> QED BY <1>1, <1>4, <1>5, <4>1 DEF ToSet
      <3>2. CASE ~ (j < i)
        <4>1. c[j] = q[j + 1] /\ j + 1 # i BY <1>1, <1>2, <3>2
        <4> QED BY <1>1, <1>4, <1>5, <4>1 DEF ToSet
      <3> QED BY <3>1, <3>2
    <2>2. ASSUME NEW j \in 1 .. n, q[j] # q[i] PROVE q[j] \in ToSet(c)
      <3>1. CASE j < i
        <4>1. j \in 1 .. n - 1 /\ c[j] = q[j] BY <1>1, <1>2, <3>1
        <4> QED BY <1>3, <4>1 DEF ToSet
      <3>2. CASE j > i
        <4>1. j - 1 \in 1 .. n - 1 /\ ~ (j - 1 < i) /\ (j - 1) + 1 = j
          BY <1>1, <3>2
        <4>2. c[j - 1] = q[j] BY <1>2, <4>1
        <4> QED BY <1>3, <4>1, <4>2 DEF ToSet
      <3>3. j # i BY <2>2
      <3> QED BY <1>1, <3>1, <3>2, <3>3
    <2> QED BY <1>1, <1>3, <2>1, <2>2 DEF ToSet
  <1>7. IsInjective(c)
    <2>1. ASSUME NEW j \in 1 .. n - 1, NEW k \in 1 .. n - 1, c[j] = c[k]
          PROVE  j = k
      <3> DEFINE at(m) == IF m < i THEN m ELSE m + 1
      <3>1. at(j) \in 1 .. n /\ c[j] = q[at(j)] BY <1>1, <1>2, <1>5
      <3>2. at(k) \in 1 .. n /\ c[k] = q[at(k)] BY <1>1, <1>2, <1>5
      <3>3. at(j) = at(k) BY <1>4, <2>1, <3>1, <3>2
      <3> QED BY <1>1, <3>3
    <2> QED BY <1>3, <2>1 DEF IsInjective
  <1> QED BY <1>2, <1>6, <1>7 DEF c
-----------------------------------------------------------------------------
(* What a good state is *)

StripIsTabs(s) == ToSet(s.strip) = DOMAIN s.tab /\ IsInjective(s.strip)

TabsHaveDocuments(s) == DOMAIN s.tab \subseteq DOMAIN s.docs

OneTab(s) ==
  \A a, b \in DOMAIN s.tab :
    s.tab[a].path = s.tab[b].path /\ s.tab[a].path # NoPath => a = b

NoOverlap(s) == ~ (s.large # NoLarge /\ s.prompt # NoPrompt)

Pending(s) ==
  /\ s.prompt # NoPrompt     => s.prompt.tab \in DOMAIN s.tab
  /\ s.large # NoLarge       => s.large.path \in Paths
  /\ s.external # NoExternal => s.external.path \in Paths
  /\ s.opening # NoOpening   => s.opening.rest # << >>

Good(s) == /\ IsState(s) /\ StripIsTabs(s) /\ TabsHaveDocuments(s)
           /\ OneTab(s) /\ NoOverlap(s) /\ Pending(s)

\* The three parts of Room.
DocRoom(s)   == \E d \in DocIds : d \notin LiveDocs(s)
GenRoom(s)   == \E g \in Gens : g \notin LiveGens(s)
StampRoom(s) == \E t \in Stamps : t \notin LiveStamps(s)

\* n refers to no document and no prompt generation that s does not.
Keeps(s, n) == /\ LiveDocs(n) \subseteq LiveDocs(s) \cup {NoDoc}
               /\ LiveGens(n) \subseteq LiveGens(s) \cup {NoGen}

USE DEF NoDoc, NoGen, NoStamp

\* A handler that refers to nothing new leaves the room there was.
LEMMA KeepsRoom ==
  ASSUME NEW s, NEW n, Keeps(s, n)
  PROVE  /\ DocRoom(s) => DocRoom(n)
         /\ GenRoom(s) => GenRoom(n)
  BY DEF Keeps, DocRoom, GenRoom, DocIds, Gens

\* Keeping is transitive.
LEMMA KeepsThrough ==
  ASSUME NEW s, NEW m, NEW n, Keeps(s, m), Keeps(m, n)
  PROVE  Keeps(s, n)
  BY DEF Keeps
-----------------------------------------------------------------------------
(* ApplicationEditor *)

\* n has the tabs and the pending decisions of s, and documents of the same names.
SameTabs(s, n) ==
  /\ DOMAIN n.docs = DOMAIN s.docs /\ n.tab = s.tab /\ n.strip = s.strip
  /\ n.prompt = s.prompt /\ n.large = s.large /\ n.external = s.external
  /\ n.opening = s.opening

\* What does not touch tabs, pending decisions or the set of retained documents
\* keeps a state good.
LEMMA EditorGood ==
  ASSUME NEW s, Good(s), NEW n, IsState(n), SameTabs(s, n)
  PROVE  Good(n)
  BY DEF SameTabs, Good, StripIsTabs, TabsHaveDocuments, OneTab, NoOverlap, Pending

\* An operation on the contents of the retained documents.
LEMMA ContentsGood ==
  ASSUME NEW s, Good(s), NEW f \in [DOMAIN s.docs -> Document], NEW p \in BOOLEAN,
         NEW n, n = [s EXCEPT !.docs = f, !.paste = p]
  PROVE  Good(n)
  <1>1. IsState(n) BY DEF Good, IsState, States
  <1>2. SameTabs(s, n) BY DEF Good, IsState, States, SameTabs
  <1> QED BY <1>1, <1>2, EditorGood, Zenon

\* ActivateDocument: another document becomes the edited one, or nothing
\* happens, or it throws.
LEMMA ActivateDocumentGood ==
  ASSUME NEW s, Good(s), NEW id \in DocIds
  PROVE  Good(ActivateDocument(s, id))
  <1>1. CASE ActivateDocument(s, id) = s BY <1>1
  <1>2. ASSUME NEW n,
               \/ n = [s EXCEPT !.fault = TRUE]
               \/ n = [s EXCEPT !.editing = id, !.paste = FALSE]
        PROVE  Good(n)
    <2>1. IsState(n)
      <3>1. CASE n = [s EXCEPT !.fault = TRUE]
        BY <3>1 DEF Good, IsState, States
      <3>2. CASE n = [s EXCEPT !.editing = id, !.paste = FALSE]
        BY <3>2 DEF Good, IsState, States
      <3> QED BY <1>2, <3>1, <3>2
    <2>2. SameTabs(s, n)
      BY <1>2 DEF Good, IsState, States, SameTabs
    <2> QED BY <2>1, <2>2, EditorGood, Zenon
  <1> QED BY <1>1, <1>2 DEF ActivateDocument

\* CreateDocument retains one more document and opens no tab.
LEMMA CreateDocumentGood ==
  ASSUME NEW s, Good(s), NEW id \in DocIds
  PROVE  /\ Good(CreateDocument(s, id))
         /\ DOMAIN CreateDocument(s, id).docs = DOMAIN s.docs \cup {id}
         /\ CreateDocument(s, id).tab = s.tab
         /\ CreateDocument(s, id).prompt = s.prompt
  <1>1. AtSavePoint(Empty) \in Document
    BY DocumentConstants DEF AtSavePoint, Document
  <1> QED BY <1>1 DEF Good, IsState, States, StripIsTabs, TabsHaveDocuments, OneTab,
         NoOverlap, Pending, CreateDocument

\* LoadInitialBuffer fills the edited document.
LEMMA LoadInitialBufferGood ==
  ASSUME NEW s, Good(s), NEW text \in Texts
  PROVE  Good(LoadInitialBuffer(s, text))
  <1> DEFINE f == [s.docs EXCEPT ![s.editing] = AtSavePoint(text)]
  <1>1. s.docs \in [DOMAIN s.docs -> Document] BY DEF Good, IsState, States
  <1>2. AtSavePoint(text) \in Document BY DEF AtSavePoint, Document
  <1>3. f \in [DOMAIN s.docs -> Document] BY <1>1, <1>2
  <1>4. LoadInitialBuffer(s, text) = [s EXCEPT !.docs = f, !.paste = FALSE]
    BY DEF LoadInitialBuffer
  <1> HIDE DEF f
  <1> QED BY <1>3, <1>4, ContentsGood, Zenon

\* Any edit of the active document.
LEMMA EditTextGood ==
  ASSUME NEW s, Good(s), NEW text \in Texts
  PROVE  Good(EditText(s, text))
  <1> DEFINE f == [s.docs EXCEPT ![s.editing].text  = text,
                                 ![s.editing].clean = FALSE]
  <1>1. s.docs \in [DOMAIN s.docs -> Document] BY DEF Good, IsState, States
  <1>2. f \in [DOMAIN s.docs -> Document] BY <1>1 DEF Document
  <1>3. EditText(s, text) = [s EXCEPT !.docs = f, !.paste = FALSE]
    <2>1. "docs" \in DOMAIN s /\ "paste" \in DOMAIN s BY DEF Good, IsState, States
    <2> QED BY <2>1 DEF EditText
  <1> HIDE DEF f
  <1> QED BY <1>2, <1>3, ContentsGood, Zenon

\* Undo back to the save point.
LEMMA UndoToSavePointGood ==
  ASSUME NEW s, Good(s)
  PROVE  Good(UndoToSavePoint(s))
  <1> DEFINE f == [s.docs EXCEPT ![s.editing] =
                     AtSavePoint(s.docs[s.editing].saved)]
  <1>1. s.docs \in [DOMAIN s.docs -> Document] BY DEF Good, IsState, States
  <1>2. \A d \in DOMAIN s.docs : AtSavePoint(s.docs[d].saved) \in Document
    BY <1>1 DEF AtSavePoint, Document
  <1>3. f \in [DOMAIN s.docs -> Document] BY <1>1, <1>2
  <1>4. UndoToSavePoint(s) = [s EXCEPT !.docs = f, !.paste = FALSE]
    BY DEF UndoToSavePoint
  <1> HIDE DEF f
  <1> QED BY <1>3, <1>4, ContentsGood, Zenon

\* MarkSaved moves the save point of a retained document.
LEMMA MarkSavedGood ==
  ASSUME NEW s, Good(s), NEW id \in DOMAIN s.docs
  PROVE  Good(MarkSaved(s, id))
  <1> DEFINE f == [s.docs EXCEPT ![id] = AtSavePoint(s.docs[id].text)]
  <1>1. s.docs \in [DOMAIN s.docs -> Document] /\ s.paste \in BOOLEAN
    BY DEF Good, IsState, States
  <1>2. AtSavePoint(s.docs[id].text) \in Document BY <1>1 DEF AtSavePoint, Document
  <1>3. f \in [DOMAIN s.docs -> Document] BY <1>1, <1>2
  <1>4. MarkSaved(s, id) = [s EXCEPT !.docs = f, !.paste = s.paste]
    BY DEF MarkSaved, Good, IsState, States
  <1> HIDE DEF f
  <1> QED BY <1>1, <1>3, <1>4, ContentsGood, Zenon

\* The paste and the spelling card.
LEMMA CardGood ==
  ASSUME NEW s, Good(s)
  PROVE  /\ Good(RequestClipboardPaste(s))
         /\ Good(OpenSpellcheck(s))
         /\ Good(StartSpellcheckSession(s))
         /\ Good(CloseSpellcheck(s))
  <1>1. ASSUME NEW n, n \in {RequestClipboardPaste(s), OpenSpellcheck(s),
                             StartSpellcheckSession(s), CloseSpellcheck(s)}
        PROVE  Good(n)
    <2>1. \/ n = [s EXCEPT !.paste = TRUE]
          \/ n = [s EXCEPT !.spell = "loading", !.scope = s.editing]
          \/ n = [s EXCEPT !.spell = "review", !.paste = FALSE]
          \/ n = [s EXCEPT !.spell = "closed", !.scope = NoDoc]
      BY <1>1 DEF RequestClipboardPaste, OpenSpellcheck, StartSpellcheckSession,
           CloseSpellcheck
    <2>2. s \in States(DOMAIN s.docs, DOMAIN s.tab) /\ {s.editing, NoDoc} \subseteq TabRef
      BY DEF Good, IsState, States, TabRef
    <2>3. n \in States(DOMAIN s.docs, DOMAIN s.tab)
      <3>1. CASE n = [s EXCEPT !.paste = TRUE]
        BY <2>2, <3>1 DEF States
      <3>4. CASE n = [s EXCEPT !.spell = "review", !.paste = FALSE]
        BY <2>2, <3>4 DEF States
      <3>2. CASE n = [s EXCEPT !.spell = "loading", !.scope = s.editing]
        BY <2>2, <3>2 DEF States
      <3>3. CASE n = [s EXCEPT !.spell = "closed", !.scope = NoDoc]
        BY <2>2, <3>3 DEF States
      <3> QED BY <2>1, <3>1, <3>2, <3>3, <3>4
    <2>4. SameTabs(s, n)
      <3>1. {"docs", "tab", "strip", "prompt", "large", "external", "opening"} \subseteq DOMAIN s
        BY <2>2 DEF States
      <3> QED BY <2>1, <3>1 DEF SameTabs
    <2>5. IsState(n)
      <3>1. DOMAIN n.docs = DOMAIN s.docs /\ n.tab = s.tab BY <2>4 DEF SameTabs
      <3> QED BY <2>3, <3>1 DEF Good, IsState
    <2> QED BY <2>4, <2>5, EditorGood, Zenon
  <1>2. Good(RequestClipboardPaste(s)) BY <1>1
  <1>3. Good(OpenSpellcheck(s)) BY <1>1
  <1>4. Good(StartSpellcheckSession(s)) BY <1>1
  <1>5. Good(CloseSpellcheck(s)) BY <1>1
  <1> QED BY <1>2, <1>3, <1>4, <1>5

\* The clipboard's answer is an edit, or is dropped.
LEMMA HandleClipboardResultGood ==
  ASSUME NEW s, Good(s), NEW text \in Texts
  PROVE  Good(HandleClipboardResult(s, text))
  BY EditTextGood DEF HandleClipboardResult
-----------------------------------------------------------------------------
(* Tabs *)

\* One more queued shell request.
LEMMA QueueGood ==
  ASSUME NEW s, Good(s), NEW request \in Request
  PROVE  Good(Queue(s, request))
  <1>1. s.requests \in Seq(Request) BY DEF Good, IsState, States
  <1>2. Append(s.requests, request) \in Seq(Request) BY <1>1
  <1> QED BY <1>2 DEF Good, IsState, States, StripIsTabs, TabsHaveDocuments, OneTab,
         NoOverlap, Pending, Queue

\* Activate changes what is shown, never which tabs and documents there are.
LEMMA ActivateGood ==
  ASSUME NEW s, Good(s), NEW id \in DocIds
  PROVE  /\ Good(Activate(s, id))
         /\ Activate(s, id).tab = s.tab
         /\ Activate(s, id).prompt = s.prompt
         /\ Activate(s, id).docs = s.docs
         /\ Activate(s, id).strip = s.strip
  <1> DEFINE n == ActivateDocument(s, id)
  <1>1. Good(n) BY ActivateDocumentGood
  <1>2. /\ n.tab = s.tab /\ n.prompt = s.prompt /\ n.docs = s.docs
        /\ n.strip = s.strip
    BY DEF Good, IsState, States, ActivateDocument
  <1> HIDE DEF n
  <1>3. [n EXCEPT !.active = id] = Activate(s, id) BY DEF n, Activate
  <1>4. Good([n EXCEPT !.active = id]) BY <1>1 DEF Good, IsState, States, StripIsTabs, TabsHaveDocuments, OneTab,
         NoOverlap, Pending
  <1>5. \A f \in {"tab", "prompt", "docs", "strip"} :
          [n EXCEPT !.active = id][f] = n[f]
    BY <1>1 DEF Good, IsState, States
  <1> QED BY <1>2, <1>3, <1>4, <1>5

\* ShowTab activates an open tab or does nothing.
LEMMA ShowTabGood ==
  ASSUME NEW s, Good(s), NEW id
  PROVE  Good(ShowTab(s, id))
  <1>1. HasTab(s, id) => id \in DocIds BY DEF Good, IsState, HasTab
  <1> QED BY <1>1, ActivateGood DEF ShowTab

\* AppendTab: a document without a tab gets one, bound to a path that no
\* other tab has.
LEMMA AppendTabGood ==
  ASSUME NEW s, Good(s), NEW id \in DOMAIN s.docs \ DOMAIN s.tab,
         NEW record \in Tab, record.path # NoPath => BoundTo(s, record.path) = {}
  PROVE  Good(AppendTab(s, id, record))
  <1>1. id \in DocIds BY DEF Good, IsState
  <1>2. s.strip \in Seq(DocIds) BY DEF Good, IsState, States
  <1>3. /\ Append(s.strip, id) \in Seq(DocIds)
        /\ ToSet(Append(s.strip, id)) = DOMAIN s.tab \cup {id}
        /\ IsInjective(Append(s.strip, id))
    BY <1>1, <1>2, AppendNew DEF Good, StripIsTabs
  <1> DEFINE newTab == [t \in DOMAIN s.tab \cup {id} |->
                       IF t = id THEN record ELSE s.tab[t]]
             n   == AppendTab(s, id, record)
  <1>4. newTab \in [DOMAIN s.tab \cup {id} -> Tab]
    BY DEF Good, IsState, States
  <1>5. /\ IsState(n) /\ n.strip = Append(s.strip, id) /\ n.tab = newTab
        /\ n.docs = s.docs /\ n.large = s.large /\ n.prompt = s.prompt
        /\ n.external = s.external /\ n.opening = s.opening
    BY <1>1, <1>3, <1>4 DEF Good, IsState, States, AppendTab
  <1>6. OneTab(n)
    BY <1>5 DEF Good, OneTab, BoundTo
  <1> QED
    BY <1>3, <1>5, <1>6
    DEF Good, StripIsTabs, TabsHaveDocuments, NoOverlap, Pending

\* The first position of an open tab's document in the strip.
LEMMA IndexOfTab ==
  ASSUME NEW s, Good(s), NEW id \in DOMAIN s.tab
  PROVE  /\ IndexOf(s, id) \in DOMAIN s.strip
         /\ s.strip[IndexOf(s, id)] = id
  BY DEF Good, StripIsTabs, ToSet, IndexOf

\* A tab and its document go together; without a prompt nothing names them.
LEMMA ForgetClosedGood ==
  ASSUME NEW s, Good(s), NEW id \in DOMAIN s.tab, s.prompt = NoPrompt
  PROVE  /\ Good(ForgetTab(CloseDocument(s, id), id))
         /\ DOMAIN ForgetTab(CloseDocument(s, id), id).tab = DOMAIN s.tab \ {id}
         /\ DOMAIN s.docs \ {id}
              \subseteq DOMAIN ForgetTab(CloseDocument(s, id), id).docs
         /\ ForgetTab(CloseDocument(s, id), id).prompt = NoPrompt
  <1> DEFINE m == CloseDocument(s, id)
             n == ForgetTab(m, id)
             i == IndexOf(s, id)
  <1>1. /\ IsState(m) /\ m.strip = s.strip /\ m.tab = s.tab
        /\ DOMAIN s.docs \ {id} \subseteq DOMAIN m.docs
        /\ m.prompt = NoPrompt /\ m.large = s.large
        /\ m.external = s.external /\ m.opening = s.opening
    BY DEF Good, IsState, States, CloseDocument
  <1>2. i \in DOMAIN s.strip /\ s.strip[i] = id BY IndexOfTab
  <1>3. IndexOf(m, id) = i BY <1>1 DEF IndexOf
  <1>4. s.strip \in Seq(DocIds) BY DEF Good, IsState, States
  <1>5. /\ RemoveAt(s.strip, i) \in Seq(DocIds)
        /\ ToSet(RemoveAt(s.strip, i)) = DOMAIN s.tab \ {id}
        /\ IsInjective(RemoveAt(s.strip, i))
    BY <1>2, <1>4, RemoveOne DEF Good, StripIsTabs
  <1> HIDE DEF m, i
  <1>6. [t \in DOMAIN m.tab \ {id} |-> m.tab[t]] \in [DOMAIN s.tab \ {id} -> Tab]
    BY <1>1 DEF IsState, States
  <1>7. /\ IsState(n) /\ n.strip = RemoveAt(s.strip, i)
        /\ n.tab = [t \in DOMAIN s.tab \ {id} |-> s.tab[t]]
        /\ n.docs = m.docs /\ n.prompt = NoPrompt /\ n.large = m.large
        /\ n.external = m.external /\ n.opening = m.opening
    BY <1>1, <1>3, <1>5, <1>6 DEF IsState, States, ForgetTab
  <1>8. OneTab(n) BY <1>7 DEF Good, OneTab
  <1>9. DOMAIN n.tab = DOMAIN s.tab \ {id} BY <1>7
  <1> QED
    BY <1>1, <1>5, <1>7, <1>8, <1>9
    DEF m, Good, StripIsTabs, TabsHaveDocuments, NoOverlap, Pending

\* An unused identity is to be had while there is room.
LEMMA FreshIdentity ==
  ASSUME NEW s
  PROVE  /\ DocRoom(s) => FreshDoc(s) \in DocIds \ LiveDocs(s)
         /\ GenRoom(s) => FreshGen(s) \in Gens \ LiveGens(s)
         /\ StampRoom(s) => FreshStamp(s) \in Stamps \ LiveStamps(s)
  BY DEF DocRoom, GenRoom, StampRoom, FreshDoc, FreshGen, FreshStamp

\* What RemoveTab activates next to the closed tab is in the strip.
LEMMA NeighbourInStrip ==
  ASSUME NEW s, Good(s), NEW id \in DOMAIN s.tab, Len(s.strip) # 1
  PROVE  LET i == IndexOf(s, id)
         IN  s.strip[IF i < Len(s.strip) THEN i + 1 ELSE i - 1] \in DocIds
  <1> DEFINE i == IndexOf(s, id)
             j == IF i < Len(s.strip) THEN i + 1 ELSE i - 1
  <1>1. s.strip \in Seq(DocIds) BY DEF Good, IsState, States
  <1>2. /\ Len(s.strip) \in Nat /\ DOMAIN s.strip = 1 .. Len(s.strip)
        /\ s.strip \in [1 .. Len(s.strip) -> DocIds]
    BY <1>1, LenProperties
  <1>3. i \in 1 .. Len(s.strip) BY <1>2, IndexOfTab
  <1> HIDE DEF i
  <1>4. j \in 1 .. Len(s.strip)
    <2>1. \A n \in Nat : \A k \in 1 .. n :
            n # 1 => (IF k < n THEN k + 1 ELSE k - 1) \in 1 .. n
      OBVIOUS
    <2> QED BY <1>2, <1>3, <2>1
  <1> HIDE DEF j
  <1>5. s.strip[j] \in DocIds BY <1>2, <1>4
  <1> QED BY <1>5 DEF i, j

\* RemoveTab, of the last tab (a fresh one replaces it) or of any other.
LEMMA RemoveTabGood ==
  ASSUME NEW s, Good(s), DocRoom(s), NEW id \in DOMAIN s.tab,
         s.prompt = NoPrompt
  PROVE  Good(RemoveTab(s, id))
  <1> DEFINE fresh == FreshDoc(s)
             created == Activate(CreateDocument(s, fresh), fresh)
             gone == ForgetTab(CloseDocument(created, id), id)
             i == IndexOf(s, id)
             next == s.strip[IF i < Len(s.strip) THEN i + 1 ELSE i - 1]
             base == IF id = s.active THEN Activate(s, next) ELSE s
             left == ForgetTab(CloseDocument(base, id), id)
  <1>1. fresh \in DocIds /\ fresh \notin LiveDocs(s) BY FreshIdentity
  <1>2. fresh \notin DOMAIN s.docs BY <1>1 DEF LiveDocs
  <1>3. fresh \notin DOMAIN s.tab /\ fresh # id
    BY <1>2 DEF Good, TabsHaveDocuments
  <1>4. CASE Len(s.strip) = 1
    <2> HIDE DEF fresh
    <2>1. /\ Good(created) /\ created.tab = s.tab
          /\ created.prompt = NoPrompt
          /\ DOMAIN created.docs = DOMAIN s.docs \cup {fresh}
      BY <1>1, CreateDocumentGood, ActivateGood
    <2> HIDE DEF created
    <2>2. /\ Good(gone)
          /\ DOMAIN gone.tab = DOMAIN s.tab \ {id}
          /\ DOMAIN created.docs \ {id} \subseteq DOMAIN gone.docs
      BY <2>1, ForgetClosedGood
    <2>3. fresh \in DOMAIN gone.docs \ DOMAIN gone.tab
      BY <1>3, <2>1, <2>2
    <2> HIDE DEF gone
    <2>4. Untitled \in Tab /\ Untitled.path = NoPath
      BY DEF Untitled, Tab, PathRef
    <2>5. Good(AppendTab(gone, fresh, Untitled))
      BY <2>2, <2>3, <2>4, AppendTabGood
    <2> QED BY <1>4, <2>5 DEF gone, created, fresh, RemoveTab
  <1>5. CASE Len(s.strip) # 1
    <2>1. next \in DocIds BY <1>5, NeighbourInStrip
    <2> HIDE DEF next
    <2>2. Good(base) /\ base.tab = s.tab /\ base.prompt = NoPrompt
      BY <2>1, ActivateGood
    <2> HIDE DEF base
    <2>3. Good(left) BY <2>2, ForgetClosedGood
    <2> HIDE DEF left
    <2>4. Good([left EXCEPT !.active = left.editing]) BY <2>3 DEF Good, IsState, States, StripIsTabs, TabsHaveDocuments, OneTab,
         NoOverlap, Pending
    <2> QED BY <1>5, <2>4 DEF left, base, next, RemoveTab
  <1> QED BY <1>4, <1>5
-----------------------------------------------------------------------------
(* The dirty-close prompt *)

\* BeginPrompt comes up only where no other decision is, so it never
\* overlaps a large-file card.
LEMMA BeginPromptGood ==
  ASSUME NEW s, Good(s), GenRoom(s), NEW id \in DOMAIN s.tab,
         NEW kind \in {"tab", "window"}
  PROVE  Good(BeginPrompt(s, kind, id))
  <1> DEFINE n == [s EXCEPT !.prompt = [kind |-> kind, tab |-> id,
                                        awaiting |-> FALSE],
                            !.gen    = FreshGen(s)]
  <1>1. FreshGen(s) \in GenRef BY FreshIdentity DEF GenRef
  <1>2. id \in TabRef BY DEF Good, IsState, TabRef
  <1>3. CASE s.large = NoLarge
    <2>1. Good(n) BY <1>1, <1>2, <1>3 DEF Good, IsState, States, StripIsTabs, TabsHaveDocuments, OneTab,
         NoOverlap, Pending, Prompt
    <2> HIDE DEF n
    <2>2. Good(ShowTab(n, id)) BY <2>1, ShowTabGood
    <2> QED BY <2>2 DEF n, BeginPrompt
  <1>4. CASE s.large # NoLarge BY <1>4 DEF BeginPrompt
  <1> QED BY <1>3, <1>4

\* ClearDirtyCloseState forgets the walk; the prompt and the tabs stay.
LEMMA ClearDirtyCloseStateGood ==
  ASSUME NEW s, Good(s)
  PROVE  /\ Good(ClearDirtyCloseState(s))
         /\ ClearDirtyCloseState(s).prompt = s.prompt
         /\ ClearDirtyCloseState(s).tab = s.tab
         /\ Keeps(s, ClearDirtyCloseState(s))
  <1>1. Good(ClearDirtyCloseState(s)) BY DEF Good, IsState, States, StripIsTabs, TabsHaveDocuments, OneTab,
         NoOverlap, Pending, ClearDirtyCloseState, GenRef
  <1>2. /\ ClearDirtyCloseState(s).prompt = s.prompt
        /\ ClearDirtyCloseState(s).tab = s.tab
        /\ Keeps(s, ClearDirtyCloseState(s))
    BY DEF Good, IsState, States, ClearDirtyCloseState, Keeps, LiveDocs,
           LiveGens
  <1> QED BY <1>1, <1>2

\* The dirty-close prompt comes down.
LEMMA NoPromptGood ==
  ASSUME NEW s, Good(s)
  PROVE  /\ Good([s EXCEPT !.prompt = NoPrompt])
         /\ Keeps(s, [s EXCEPT !.prompt = NoPrompt])
  <1>1. NoPrompt \in Prompt /\ NoPrompt.tab = NoDoc
    BY DEF NoPrompt, Prompt, TabRef
  <1>2. Good([s EXCEPT !.prompt = NoPrompt]) BY <1>1 DEF Good, IsState, States, StripIsTabs, TabsHaveDocuments, OneTab,
         NoOverlap, Pending
  <1>3. Keeps(s, [s EXCEPT !.prompt = NoPrompt])
    BY <1>1 DEF Good, IsState, States, Keeps, LiveDocs, LiveGens
  <1> QED BY <1>2, <1>3

\* A Save As intent and its request.
LEMMA SlotGood ==
  ASSUME NEW s, Good(s), NEW intent \in SaveAsIntent
  PROVE  Good(Queue([s EXCEPT !.slot = intent], "ShowSaveAs"))
  <1>1. Good([s EXCEPT !.slot = intent]) BY DEF Good, IsState, States, StripIsTabs, TabsHaveDocuments, OneTab,
         NoOverlap, Pending
  <1>2. "ShowSaveAs" \in Request BY DEF Request
  <1> QED BY <1>1, <1>2, QueueGood

\* QueueShowSaveAs names the prompted tab, or the active one.
LEMMA QueueShowSaveAsGood ==
  ASSUME NEW s, Good(s)
  PROVE  Good(QueueShowSaveAs(s))
  <1> DEFINE intent ==
        [tab |-> IF s.prompt # NoPrompt THEN s.prompt.tab ELSE s.active,
         gen |-> IF s.prompt.awaiting THEN s.gen ELSE NoGen]
  <1>1. /\ s.prompt.tab \in TabRef /\ s.active \in TabRef
        /\ s.gen \in GenRef /\ NoGen \in GenRef
    BY DEF Good, IsState, States, Prompt, TabRef, GenRef
  <1>2. intent \in SaveAsIntent BY <1>1 DEF SaveAsIntent
  <1> HIDE DEF intent
  <1>3. Good(Queue([s EXCEPT !.slot = intent], "ShowSaveAs"))
    BY <1>2, SlotGood
  <1> QED BY <1>3 DEF intent, QueueShowSaveAs

\* The walk's next document has a tab and is not resolved: it is the least
\* such dirty one of the strip.
LEMMA NextWindowCloseDirtyOpen ==
  ASSUME NEW s, Good(s), UnresolvedDirty(s) # {}
  PROVE  NextWindowCloseDirty(s) \in DOMAIN s.tab \ s.resolved
  <1> DEFINE T == UnresolvedDirty(s)
  <1>1. s.strip \in Seq(DocIds) BY DEF Good, IsState, States
  <1>2. T \subseteq DOMAIN s.strip BY DEF UnresolvedDirty
  <1>3. DOMAIN s.strip = 1 .. Len(s.strip) /\ Len(s.strip) \in Nat
    BY <1>1, LenProperties
  <1>4. T \subseteq Nat BY <1>2, <1>3
  <1> HIDE DEF T
  <1>5. \E i \in T : \A j \in T : i <= j BY <1>4, LeastNatural DEF T
  <1>6. (CHOOSE i \in T : \A j \in T : i <= j) \in T BY <1>5
  <1> QED
    BY <1>2, <1>6
    DEF T, UnresolvedDirty, NextWindowCloseDirty, Good, StripIsTabs, ToSet

\* The walk asks about the next dirty tab, or accepts the close.
LEMMA AdvanceOrAcceptWindowCloseGood ==
  ASSUME NEW s, Good(s), GenRoom(s)
  PROVE  Good(AdvanceOrAcceptWindowClose(s))
  <1> DEFINE n == [s EXCEPT !.gen = NoGen]
             id == NextWindowCloseDirty(s)
  <1>1. Good(n) BY DEF Good, IsState, States, StripIsTabs, TabsHaveDocuments, OneTab,
         NoOverlap, Pending, GenRef
  <1>2. n.tab = s.tab /\ Keeps(s, n)
    BY DEF Good, IsState, States, Keeps, LiveDocs, LiveGens
  <1> HIDE DEF n
  <1>3. GenRoom(n) BY <1>2, KeepsRoom
  <1>4. CASE UnresolvedDirty(s) # {}
    <2>1. id \in DOMAIN n.tab BY <1>2, <1>4, NextWindowCloseDirtyOpen
    <2> HIDE DEF id
    <2>2. Good(BeginPrompt(n, "window", id))
      BY <1>1, <1>3, <2>1, BeginPromptGood
    <2> QED BY <1>4, <2>2 DEF n, id, AdvanceOrAcceptWindowClose
  <1>5. CASE UnresolvedDirty(s) = {}
    <2>1. Good(ClearDirtyCloseState(s)) BY ClearDirtyCloseStateGood
    <2>2. "AcceptClose" \in Request BY DEF Request
    <2>3. Good(Queue(ClearDirtyCloseState(s), "AcceptClose"))
      BY <2>1, <2>2, QueueGood
    <2> QED BY <1>5, <2>3 DEF AdvanceOrAcceptWindowClose
  <1> QED BY <1>4, <1>5

\* PerformClose: the tab goes away, or the walk goes on.
LEMMA PerformCloseGood ==
  ASSUME NEW s, Good(s), DocRoom(s), GenRoom(s)
  PROVE  Good(PerformClose(s))
  <1> DEFINE id     == s.prompt.tab
             closed == [s EXCEPT !.prompt = NoPrompt]
             more   == closed.resolved \cup
                         (IF HasDocument(s, id) /\ Modified(s, id)
                          THEN {id} ELSE {})
             asked  == [closed EXCEPT !.resolved = more]
  <1>1. Good(closed) /\ Keeps(s, closed) BY NoPromptGood
  <1>2. closed.prompt = NoPrompt BY DEF Good, IsState, States
  <1>3. id \in DOMAIN s.docs => id \in DocIds BY DEF Good, IsState
  <1> HIDE DEF id, closed
  <1>4. CASE s.prompt.kind = "window"
    <2>1. more \subseteq DocIds
      BY <1>1, <1>3 DEF Good, IsState, States, HasDocument
    <2> HIDE DEF more
    <2>2. Good(asked) BY <1>1, <2>1 DEF Good, IsState, States, StripIsTabs, TabsHaveDocuments, OneTab,
         NoOverlap, Pending
    <2>3. LiveGens(asked) = LiveGens(closed)
      BY <1>1 DEF Good, IsState, States, LiveGens
    <2> HIDE DEF asked
    <2>4. GenRoom(asked) BY <1>1, <2>3, KeepsRoom DEF GenRoom
    <2>5. Good(AdvanceOrAcceptWindowClose(asked))
      BY <2>2, <2>4, AdvanceOrAcceptWindowCloseGood
    <2> QED BY <1>4, <2>5 DEF asked, more, closed, id, PerformClose
  <1>5. CASE s.prompt.kind # "window"
    <2> DEFINE c == ClearDirtyCloseState(closed)
    <2>1. /\ Good(c) /\ c.prompt = NoPrompt /\ c.tab = closed.tab
          /\ Keeps(closed, c)
      BY <1>1, <1>2, ClearDirtyCloseStateGood
    <2>2. closed.tab = s.tab BY DEF closed, Good, IsState, States
    <2> HIDE DEF c
    <2>3. DocRoom(c) BY <1>1, <2>1, KeepsRoom
    <2>4. id \in DOMAIN s.tab => Good(RemoveTab(c, id))
      BY <2>1, <2>2, <2>3, RemoveTabGood
    <2> QED BY <1>5, <2>1, <2>4 DEF c, closed, id, PerformClose, HasTab
  <1> QED BY <1>4, <1>5

\* Cancel on the dirty-close card.
LEMMA DismissPromptGood ==
  ASSUME NEW s, Good(s)
  PROVE  Good(DismissPrompt(s))
  <1>1. Good([s EXCEPT !.prompt = NoPrompt]) BY NoPromptGood
  <1> QED BY <1>1, ClearDirtyCloseStateGood DEF DismissPrompt

\* Whether a prompt that is on screen waits for a Save As.
LEMMA AwaitingGood ==
  ASSUME NEW s, Good(s), s.prompt # NoPrompt, NEW b \in BOOLEAN
  PROVE  Good([s EXCEPT !.prompt.awaiting = b])
  <1> DEFINE p == [s.prompt EXCEPT !.awaiting = b]
  <1>1. p \in Prompt /\ p.tab = s.prompt.tab
    BY DEF Good, IsState, States, Prompt
  <1>2. [s EXCEPT !.prompt.awaiting = b] = [s EXCEPT !.prompt = p] OBVIOUS
  <1> HIDE DEF p
  <1>3. s.large = NoLarge /\ s.prompt.tab \in DOMAIN s.tab
    BY DEF Good, NoOverlap, Pending
  <1> QED BY <1>1, <1>2, <1>3 DEF Good, IsState, States, StripIsTabs, TabsHaveDocuments, OneTab,
         NoOverlap, Pending

\* Save on the card of an untitled tab.
LEMMA AwaitSaveAsGood ==
  ASSUME NEW s, Good(s), s.prompt # NoPrompt
  PROVE  Good(AwaitSaveAs(s))
  BY AwaitingGood, QueueShowSaveAsGood DEF AwaitSaveAs

\* The card takes answers again after a Save As that came to nothing.
LEMMA NotifySaveIncompleteGood ==
  ASSUME NEW s, Good(s), s.prompt # NoPrompt
  PROVE  Good(NotifySaveIncomplete(s))
  BY AwaitingGood DEF NotifySaveIncomplete
-----------------------------------------------------------------------------
(* Saving *)

\* What showing a tab leaves alone.
LEMMA ShowTabKeeps ==
  ASSUME NEW s, Good(s), NEW id
  PROVE  LET n == ShowTab(s, id)
         IN  /\ n.tab = s.tab /\ n.prompt = s.prompt /\ n.docs = s.docs
             /\ n.gen = s.gen /\ n.external = s.external /\ n.disk = s.disk
             /\ n.large = s.large /\ n.opening = s.opening
             /\ Keeps(s, n)
  <1> DEFINE n == ShowTab(s, id)
  <1>1. /\ n.tab = s.tab /\ n.prompt = s.prompt /\ n.docs = s.docs
        /\ n.gen = s.gen /\ n.external = s.external /\ n.disk = s.disk
        /\ n.large = s.large /\ n.opening = s.opening
        /\ n.resolved = s.resolved /\ n.dialogs = s.dialogs
        /\ n.slot = s.slot /\ n.scope = s.scope
    <2>1. CASE n = s BY <2>1
    <2>2. CASE n = Activate(s, id)
      <3>1. CASE ActivateDocument(s, id) = s
        BY <2>2, <3>1 DEF Good, IsState, States, Activate
      <3>2. CASE ActivateDocument(s, id) = [s EXCEPT !.fault = TRUE]
        BY <2>2, <3>2 DEF Good, IsState, States, Activate
      <3>3. CASE ActivateDocument(s, id)
                   = [s EXCEPT !.editing = id, !.paste = FALSE]
        BY <2>2, <3>3 DEF Good, IsState, States, Activate
      <3> QED BY <3>1, <3>2, <3>3 DEF ActivateDocument
    <2> QED BY <2>1, <2>2 DEF ShowTab
  <1> HIDE DEF n
  <1>2. Keeps(s, n) BY <1>1 DEF Keeps, LiveDocs, LiveGens
  <1> QED BY <1>1, <1>2 DEF n

\* BeginExternalChange captures an open tab and a path.
LEMMA BeginExternalChangeGood ==
  ASSUME NEW s, Good(s), NEW id \in DOMAIN s.tab, NEW path \in Paths,
         NEW origin \in GenRef
  PROVE  /\ Good(BeginExternalChange(s, id, path, origin))
         /\ BeginExternalChange(s, id, path, origin).prompt = s.prompt
  <1> DEFINE n == [s EXCEPT !.external = [tab |-> id, path |-> path,
                                          gen |-> origin]]
  <1>1. id \in TabRef /\ path \in PathRef
    BY DEF Good, IsState, TabRef, PathRef
  <1>2. Good(n) BY <1>1 DEF Good, IsState, States, StripIsTabs, TabsHaveDocuments, OneTab,
         NoOverlap, Pending, ExternalChange
  <1>3. n.prompt = s.prompt BY DEF Good, IsState, States
  <1> HIDE DEF n
  <1>4. Good(ShowTab(n, id)) /\ ShowTab(n, id).prompt = s.prompt
    BY <1>2, <1>3, ShowTabGood, ShowTabKeeps
  <1> QED BY <1>4 DEF n, BeginExternalChange

\* A successful save binds its tab to a path that no other tab has
\* ("Save As must not create a second binding").
LEMMA StoredGood ==
  ASSUME NEW s, Good(s), StampRoom(s), NEW id \in DOMAIN s.tab,
         NEW path \in Paths, BoundTo(s, path) \ {id} = {}
  PROVE  LET n == Stored(s, id, path)
         IN  /\ Good(n) /\ Keeps(s, n)
             /\ n.prompt = s.prompt /\ n.gen = s.gen
             /\ n.external = s.external
             /\ DOMAIN n.tab = DOMAIN s.tab
  <1> DEFINE m     == MarkSaved(s, id)
             stamp == FreshStamp(s)
             bound == [path |-> path, stamp |-> stamp]
             file  == FileOf(s.docs[id].text, stamp)
             newDisk  == [m.disk EXCEPT ![path] = file]
             newTab   == [m.tab EXCEPT ![id] = bound]
             n     == [m EXCEPT !.disk = newDisk, !.tab = newTab]
  <1>1. id \in DOMAIN s.docs BY DEF Good, TabsHaveDocuments
  <1>2. Good(m) BY <1>1, MarkSavedGood
  <1>3. /\ m.tab = s.tab /\ m.disk = s.disk /\ m.strip = s.strip
        /\ DOMAIN m.docs = DOMAIN s.docs /\ m.prompt = s.prompt
        /\ m.gen = s.gen /\ m.external = s.external
        /\ m.resolved = s.resolved /\ m.dialogs = s.dialogs
        /\ m.slot = s.slot /\ m.scope = s.scope /\ m.opening = s.opening
    BY DEF Good, IsState, States, MarkSaved
  <1>4. stamp \in Stamps BY FreshIdentity
  <1>5. bound \in Tab /\ bound.path = path BY <1>4 DEF Tab, PathRef
  <1>6. file \in File
    BY <1>1, <1>4 DEF Good, IsState, States, Document, File, FileOf
  <1> HIDE DEF m, stamp, bound, file
  <1>7. newDisk \in Disk BY <1>2, <1>6 DEF Good, IsState, States, Disk
  <1>8. newTab \in [DOMAIN s.tab -> Tab] /\ newTab[id] = bound
        /\ \A t \in DOMAIN s.tab \ {id} : newTab[t] = s.tab[t]
    BY <1>2, <1>3, <1>5 DEF Good, IsState, States
  <1> HIDE DEF newDisk, newTab
  <1>9. IsState(n) /\ n.tab = newTab /\ n.docs = m.docs /\ n.strip = m.strip
        /\ n.prompt = m.prompt /\ n.large = m.large
        /\ n.external = m.external /\ n.opening = m.opening
        /\ n.gen = m.gen /\ n.resolved = m.resolved /\ n.dialogs = m.dialogs
        /\ n.slot = m.slot /\ n.scope = m.scope
    BY <1>2, <1>3, <1>7, <1>8 DEF Good, IsState, States
  <1> HIDE DEF n
  <1>10. OneTab(n)
    <2> SUFFICES ASSUME NEW a \in DOMAIN s.tab, NEW b \in DOMAIN s.tab,
                        newTab[a].path = newTab[b].path, newTab[a].path # NoPath
                 PROVE  a = b
      BY <1>8, <1>9 DEF OneTab
    <2>1. \A t \in DOMAIN s.tab \ {id} : s.tab[t].path # path
      BY DEF BoundTo
    <2>2. CASE a # id /\ b # id
      BY <1>8, <2>2 DEF Good, OneTab
    <2>3. CASE a = id \/ b = id
      BY <1>5, <1>8, <2>1, <2>3
    <2> QED BY <2>2, <2>3
  <1>11. Good(n)
    BY <1>2, <1>3, <1>8, <1>9, <1>10
    DEF Good, StripIsTabs, TabsHaveDocuments, NoOverlap, Pending
  <1>12. Keeps(s, n) BY <1>3, <1>9 DEF Keeps, LiveDocs, LiveGens
  <1>13. Stored(s, id, path) = n
    BY DEF n, newTab, newDisk, file, bound, stamp, m, Stored
  <1> QED BY <1>3, <1>8, <1>9, <1>11, <1>12, <1>13

\* A save leaves a good state, whatever becomes of it, ...
LEMMA SaveToPathGood ==
  ASSUME NEW s, Good(s), StampRoom(s), NEW id, NEW path \in Paths,
         NEW unconditional, NEW origin \in GenRef, NEW io
  PROVE  /\ Good(SaveToPath(s, id, path, unconditional, origin, io))
         /\ SaveToPath(s, id, path, unconditional, origin, io).prompt = s.prompt
  <1> DEFINE status == SaveStatus(s, id, path, unconditional, io)
             n      == SaveToPath(s, id, path, unconditional, origin, io)
  <1>1. status # "refused" =>
          id \in DOMAIN s.tab /\ BoundTo(s, path) \ {id} = {}
    BY DEF SaveStatus, HasTab
  <1>2. /\ status = "success" => n = Stored(s, id, path)
        /\ status = "changed" => n = BeginExternalChange(s, id, path, origin)
        /\ status \notin {"success", "changed"} => n = s
    BY DEF SaveToPath
  <1> HIDE DEF status, n
  <1>3. CASE status = "success" BY <1>1, <1>2, <1>3, StoredGood DEF n
  <1>4. CASE status = "changed"
    BY <1>1, <1>2, <1>4, BeginExternalChangeGood DEF n
  <1>5. CASE status \notin {"success", "changed"} BY <1>2, <1>5 DEF n
  <1> QED BY <1>3, <1>4, <1>5

\* ... and one that succeeds refers to nothing new.
LEMMA SaveToPathKeeps ==
  ASSUME NEW s, Good(s), StampRoom(s), NEW id, NEW path \in Paths,
         NEW unconditional, NEW origin \in GenRef, NEW io,
         SaveStatus(s, id, path, unconditional, io) = "success"
  PROVE  LET n == SaveToPath(s, id, path, unconditional, origin, io)
         IN  /\ Keeps(s, n) /\ n.gen = s.gen /\ n.prompt = s.prompt
             /\ n.external = s.external /\ DOMAIN n.tab = DOMAIN s.tab
  <1>1. id \in DOMAIN s.tab /\ BoundTo(s, path) \ {id} = {}
    BY DEF SaveStatus, HasTab
  <1>2. SaveToPath(s, id, path, unconditional, origin, io) = Stored(s, id, path)
    BY DEF SaveToPath
  <1> QED BY <1>1, <1>2, StoredGood

\* The conflict card comes down.
LEMMA NoExternalGood ==
  ASSUME NEW s, Good(s)
  PROVE  LET n == [s EXCEPT !.external = NoExternal]
         IN  /\ Good(n) /\ Keeps(s, n) /\ n.prompt = s.prompt
             /\ n.tab = s.tab /\ n.gen = s.gen
  <1>1. NoExternal \in ExternalChange /\ NoExternal.tab = NoDoc
        /\ NoExternal.gen = NoGen
    BY DEF NoExternal, ExternalChange, TabRef, PathRef, GenRef
  <1> DEFINE n == [s EXCEPT !.external = NoExternal]
  <1>2. Good(n) BY <1>1 DEF Good, IsState, States, StripIsTabs, TabsHaveDocuments, OneTab,
         NoOverlap, Pending
  <1>3. Keeps(s, n) /\ n.prompt = s.prompt /\ n.tab = s.tab /\ n.gen = s.gen
    BY <1>1 DEF Good, IsState, States, Keeps, LiveDocs, LiveGens
  <1> QED BY <1>2, <1>3

\* A Save As settles the conflict of its own tab, or changes nothing.
LEMMA SettleGood ==
  ASSUME NEW s, Good(s), NEW id
  PROVE  /\ Good(Settle(s, id)) /\ Keeps(s, Settle(s, id))
         /\ Settle(s, id).prompt = s.prompt
  <1>1. Keeps(s, s) BY DEF Keeps
  <1> QED BY <1>1, NoExternalGood DEF Settle

\* ApplySaveResult, whichever prompt, card or tab is left by then.
LEMMA ApplySaveResultGood ==
  ASSUME NEW s, Good(s), DocRoom(s), GenRoom(s), StampRoom(s),
         NEW id, NEW accepted \in BOOLEAN, NEW path,
         accepted => path \in Paths,
         NEW origin \in GenRef, NEW io
  PROVE  Good(ApplySaveResult(s, id, accepted, path, origin, io))
  <1> DEFINE saved   == SaveToPath(s, id, path, FALSE, origin, io)
             success == SaveStatus(s, id, path, FALSE, io) = "success"
             settled == Settle(saved, id)
             GaveUp(n) ==
               IF Continues(s, id, origin) THEN NotifySaveIncomplete(n) ELSE n
  <1>1. Continues(s, id, origin) => s.prompt # NoPrompt
    BY DEF Continues, NoPrompt
  <1>2. ASSUME NEW n, Good(n), n.prompt = s.prompt PROVE Good(GaveUp(n))
    BY <1>1, <1>2, NotifySaveIncompleteGood
  <1>3. CASE ~ accepted
    <2>1. Good(GaveUp(s)) BY <1>2
    <2> QED BY <1>3, <2>1 DEF ApplySaveResult
  <1>4. CASE accepted
    <2>1. Good(saved) /\ saved.prompt = s.prompt
      <3>1. path \in Paths BY <1>4
      <3>2. \A b : /\ Good(SaveToPath(s, id, path, b, origin, io))
                  /\ SaveToPath(s, id, path, b, origin, io).prompt = s.prompt
        BY <3>1, SaveToPathGood
      <3> QED BY <3>2, Zenon
    <2>2. success => Keeps(s, saved) BY <1>4, SaveToPathKeeps
    <2> HIDE DEF saved, success
    <2>3. Good(settled) /\ Keeps(saved, settled) BY <2>1, SettleGood
    <2> HIDE DEF settled
    <2>4. success => DocRoom(settled) /\ GenRoom(settled)
      BY <2>2, <2>3, KeepsRoom
    <2>5. success => Good(PerformClose(settled))
      BY <2>3, <2>4, PerformCloseGood
    <2>6. Good(GaveUp(saved)) BY <1>2, <2>1
    <2> HIDE DEF GaveUp
    <2>7. ApplySaveResult(s, id, accepted, path, origin, io)
            \in {s, saved, settled, GaveUp(saved)}
                  \cup (IF success THEN {PerformClose(settled)} ELSE {})
      BY <1>4 DEF ApplySaveResult, saved, settled, success, GaveUp
    <2> QED BY <2>1, <2>3, <2>5, <2>6, <2>7
  <1> QED BY <1>3, <1>4
-----------------------------------------------------------------------------
(* Opening *)

\* LoadOpenedDocument: a readable file that no tab has gets a tab.
LEMMA LoadOpenedDocumentGood ==
  ASSUME NEW s, Good(s), NEW id \in DocIds \ LiveDocs(s), NEW path \in Paths,
         BoundTo(s, path) = {}, s.disk[path].exists
  PROVE  Good(LoadOpenedDocument(s, id, path))
  <1> DEFINE record == [path |-> path, stamp |-> s.disk[path].stamp]
             m      == CreateDocument(s, id)
             n      == AppendTab(m, id, record)
             a      == Activate(n, id)
  <1>1. s.disk[path] \in File
    BY DEF Good, IsState, States, Disk, Absent
  <1>2. record \in Tab /\ record.path = path /\ s.disk[path].text \in Texts
    BY <1>1 DEF Tab, PathRef, File
  <1>3. id \notin DOMAIN s.tab
    BY DEF LiveDocs, Good, TabsHaveDocuments
  <1>4. Good(m) /\ id \in DOMAIN m.docs /\ m.tab = s.tab
    BY CreateDocumentGood
  <1>5. BoundTo(m, path) = {} BY <1>4 DEF BoundTo
  <1> HIDE DEF record, m
  <1>6. Good(n) BY <1>2, <1>3, <1>4, <1>5, AppendTabGood
  <1> HIDE DEF n
  <1>7. Good(a) BY <1>6, ActivateGood
  <1> HIDE DEF a
  <1>8. Good(LoadInitialBuffer(a, s.disk[path].text))
    BY <1>2, <1>7, LoadInitialBufferGood
  <1> QED BY <1>8 DEF a, n, m, record, LoadOpenedDocument

\* BeginLargeFilePrompt comes up only where no other decision is.
LEMMA BeginLargeFilePromptGood ==
  ASSUME NEW s, Good(s), NEW path \in Paths, NEW rest \in Seq(Names)
  PROVE  Good(BeginLargeFilePrompt(s, path, rest))
  <1>1. [path |-> path, rest |-> rest] \in LargeOpen
    BY DEF LargeOpen, PathRef
  <1>2. CASE ~ DecisionActive(s)
    <2>1. s.prompt = NoPrompt BY <1>2 DEF DecisionActive
    <2>2. Good([s EXCEPT !.large = [path |-> path, rest |-> rest]])
      BY <1>1, <2>1 DEF Good, IsState, States, StripIsTabs, TabsHaveDocuments, OneTab,
         NoOverlap, Pending
    <2> QED BY <1>2, <2>2 DEF BeginLargeFilePrompt
  <1>3. CASE DecisionActive(s) BY <1>3 DEF BeginLargeFilePrompt
  <1> QED BY <1>2, <1>3

\* What is left of an OpenPathList call.
LEMMA OpeningGood ==
  ASSUME NEW s, Good(s), NEW rest \in Seq(Names), rest # << >>,
         NEW last \in TabRef
  PROVE  Good([s EXCEPT !.opening = [rest |-> rest, last |-> last]])
  BY DEF Good, IsState, States, StripIsTabs, TabsHaveDocuments, OneTab,
         NoOverlap, Pending, Opening

\* OpenPathList begins with at least one name.
LEMMA OpenPathListGood ==
  ASSUME NEW s, Good(s), NEW names \in Seq(Names), names # << >>
  PROVE  Good(OpenPathList(s, names))
  BY OpeningGood DEF OpenPathList, TabRef

\* The last opened tab is shown and the list is done.
LEMMA ShowLastGood ==
  ASSUME NEW s, Good(s), NEW last \in TabRef
  PROVE  Good(ShowLast(s, last))
  <1> DEFINE n == IF last # NoDoc /\ last # s.active THEN Activate(s, last)
                  ELSE s
  <1>1. last # NoDoc => last \in DocIds BY DEF TabRef
  <1>2. Good(n) BY <1>1, ActivateGood
  <1> HIDE DEF n
  <1>3. NoOpening \in Opening
    BY EmptySeq DEF NoOpening, Opening, TabRef
  <1>4. Good([n EXCEPT !.opening = NoOpening]) BY <1>2, <1>3 DEF Good, IsState, States, StripIsTabs, TabsHaveDocuments, OneTab,
         NoOverlap, Pending
  <1> QED BY <1>4 DEF n, ShowLast

\* One turn of OpenPathList's loop: the path is already open, cannot be
\* read, is large, or is opened.
LEMMA OpenNextPathGood ==
  ASSUME NEW s, Good(s), DocRoom(s), s.opening # NoOpening, NEW io
  PROVE  Good(OpenNextPath(s, io))
  <1> DEFINE path   == Normalize[Head(s.opening.rest)]
             rest   == Tail(s.opening.rest)
             status == ReadStatus(s.disk, path, "warning", io)
             id     == FreshDoc(s)
             bound  == CHOOSE t \in BoundTo(s, path) : TRUE
             Rest(n, last) == IF rest = << >> THEN ShowLast(n, last)
                              ELSE [n EXCEPT !.opening = [rest |-> rest,
                                                          last |-> last]]
  <1>1. s.opening.rest \in Seq(Names) /\ s.opening.rest # << >>
        /\ s.opening.last \in TabRef
    BY DEF Good, Pending, IsState, States, Opening
  <1>2. Head(s.opening.rest) \in Names /\ rest \in Seq(Names)
    BY <1>1, HeadTailProperties
  <1>3. path \in Paths BY <1>2, WorkspaceConstants
  <1> HIDE DEF rest, path
  <1>4. ASSUME NEW n, Good(n), NEW last \in TabRef PROVE Good(Rest(n, last))
    BY <1>2, <1>4, OpeningGood, ShowLastGood
  <1> HIDE DEF Rest
  <1>5. CASE BoundTo(s, path) # {}
    <2>1. bound \in TabRef
      BY <1>5 DEF BoundTo, Good, IsState, TabRef
    <2> HIDE DEF bound
    <2>2. Good(Rest(s, bound)) BY <1>4, <2>1
    <2> QED BY <1>5, <2>2 DEF Rest, rest, path, bound, OpenNextPath
  <1>6. CASE BoundTo(s, path) = {}
    <2>1. status \in {"failed", "tooLarge", "success"}
          /\ (status = "success" => s.disk[path].exists)
      BY DEF ReadStatus
    <2>2. id \in DocIds \ LiveDocs(s) BY FreshIdentity
    <2>3. id \in TabRef BY <2>2 DEF TabRef
    <2> HIDE DEF id, status
    <2>4. CASE status = "tooLarge"
      <3>1. Good(ShowLast(s, s.opening.last)) BY <1>1, ShowLastGood
      <3>2. Good(BeginLargeFilePrompt(ShowLast(s, s.opening.last), path, rest))
        BY <1>2, <1>3, <3>1, BeginLargeFilePromptGood
      <3> QED BY <1>6, <2>4, <3>2 DEF rest, path, status, OpenNextPath
    <2>5. CASE status = "failed"
      <3>1. Good(Rest(s, s.opening.last)) BY <1>1, <1>4
      <3> QED BY <1>6, <2>5, <3>1 DEF Rest, rest, path, status, OpenNextPath
    <2>6. CASE status = "success"
      <3>1. Good(LoadOpenedDocument(s, id, path))
        BY <1>3, <1>6, <2>1, <2>2, <2>6, LoadOpenedDocumentGood
      <3>2. Good(Rest(LoadOpenedDocument(s, id, path), id))
        BY <1>4, <2>3, <3>1
      <3> QED
        BY <1>6, <2>6, <3>2 DEF Rest, rest, path, id, status, OpenNextPath
    <2> QED BY <2>1, <2>4, <2>5, <2>6
  <1> QED BY <1>5, <1>6

\* ApplyOpenPaths begins a list unless a decision is up.
LEMMA ApplyOpenPathsGood ==
  ASSUME NEW s, Good(s), NEW names \in Seq(Names), names # << >>
  PROVE  Good(ApplyOpenPaths(s, names))
  BY OpenPathListGood DEF ApplyOpenPaths

\* LoadStartupFiles: distinct readable paths get one tab each.
LEMMA LoadStartupFilesGood ==
  ASSUME NEW s, Good(s), s.prompt = NoPrompt, NEW n \in Nat, n <= MaxDocs,
         NEW paths \in [1 .. n -> Paths], NEW last \in 1 .. n,
         \A i, j \in 1 .. n : i # j => paths[i] # paths[j],
         StartupReadable(s, paths)
  PROVE  Good(LoadStartupFiles(s, paths, last))
  <1> DEFINE newDocs  == [id \in DOMAIN paths |-> AtSavePoint(s.disk[paths[id]].text)]
             newStrip == [id \in DOMAIN paths |-> id]
             newTab   == [id \in DOMAIN paths |->
                         [path |-> paths[id], stamp |-> s.disk[paths[id]].stamp]]
             m     == [s EXCEPT !.docs = newDocs, !.strip = newStrip, !.tab = newTab,
                                !.active = last, !.editing = last]
  <1>1. DOMAIN paths = 1 .. n OBVIOUS
  <1>2. 1 .. n \subseteq DocIds BY DocumentConstants DEF DocIds
  <1>3. \A i \in 1 .. n : s.disk[paths[i]] \in File
    <2>1. \A i \in 1 .. n : s.disk[paths[i]].exists
      BY <1>1 DEF StartupReadable, ReadStatus
    <2> QED BY <2>1 DEF Good, IsState, States, Disk, Absent
  <1>4. newDocs \in [1 .. n -> Document]
    BY <1>1, <1>3 DEF File, AtSavePoint, Document
  <1>5. newTab \in [1 .. n -> Tab] /\ \A i \in 1 .. n : newTab[i].path = paths[i]
    BY <1>1, <1>3 DEF File, Tab, PathRef
  <1>6. newStrip \in Seq(DocIds) /\ ToSet(newStrip) = 1 .. n /\ IsInjective(newStrip)
    <2>1. newStrip \in [1 .. n -> DocIds] BY <1>1, <1>2
    <2>2. newStrip \in Seq(DocIds) BY <2>1, SeqDef
    <2> QED BY <1>1, <2>2 DEF ToSet, IsInjective
  <1> HIDE DEF newDocs, newStrip, newTab
  <1>7. IsState(m) /\ m.docs = newDocs /\ m.strip = newStrip /\ m.tab = newTab
        /\ m.prompt = NoPrompt /\ m.large = s.large
        /\ m.external = s.external /\ m.opening = s.opening
    BY <1>2, <1>4, <1>5, <1>6 DEF Good, IsState, States
  <1> HIDE DEF m
  <1>8. OneTab(m) BY <1>5, <1>7 DEF OneTab
  <1>9. Good(m)
    BY <1>4, <1>5, <1>6, <1>7, <1>8
    DEF Good, StripIsTabs, TabsHaveDocuments, NoOverlap, Pending
  <1> QED BY <1>9 DEF m, newDocs, newStrip, newTab, LoadStartupFiles
-----------------------------------------------------------------------------
(* Requests from the user *)

\* New Tab.
LEMMA NewTabGood ==
  ASSUME NEW s, Good(s), DocRoom(s)
  PROVE  Good(NewTab(s))
  <1> DEFINE id == FreshDoc(s)
             m  == CreateDocument(s, id)
             n  == AppendTab(m, id, Untitled)
  <1>1. id \in DocIds /\ id \notin DOMAIN s.tab
    BY FreshIdentity DEF LiveDocs, Good, TabsHaveDocuments
  <1> HIDE DEF id
  <1>2. Good(m) /\ id \in DOMAIN m.docs /\ m.tab = s.tab
    BY <1>1, CreateDocumentGood
  <1> HIDE DEF m
  <1>3. Untitled \in Tab /\ Untitled.path = NoPath
    BY DEF Untitled, Tab, PathRef
  <1>4. Good(n) BY <1>1, <1>2, <1>3, AppendTabGood
  <1> HIDE DEF n
  <1>5. Good(Activate(n, id)) BY <1>1, <1>4, ActivateGood
  <1> QED BY <1>5 DEF n, m, id, NewTab

\* A click on a tab.
LEMMA ActivateTabGood ==
  ASSUME NEW s, Good(s), NEW id
  PROVE  Good(ActivateTab(s, id))
  <1>1. HasTab(s, id) => id \in DocIds BY DEF Good, IsState, HasTab
  <1> QED BY <1>1, ActivateGood DEF ActivateTab

\* Next and previous tab.
LEMMA CycleTabGood ==
  ASSUME NEW s, Good(s), NEW delta
  PROVE  Good(CycleTab(s, delta))
  BY ActivateTabGood DEF CycleTab

\* Close Tab asks about a dirty tab and removes a clean one.
LEMMA CloseTabGood ==
  ASSUME NEW s, Good(s), DocRoom(s), GenRoom(s), NEW id
  PROVE  Good(CloseTab(s, id))
  <1>1. CASE DecisionActive(s) \/ ~ HasTab(s, id) BY <1>1 DEF CloseTab
  <1>2. CASE ~ DecisionActive(s) /\ HasTab(s, id)
    <2>1. s.prompt = NoPrompt /\ id \in DOMAIN s.tab
      BY <1>2 DEF DecisionActive, HasTab
    <2>2. Good(BeginPrompt(s, "tab", id)) BY <2>1, BeginPromptGood
    <2>3. Good(RemoveTab(s, id)) BY <2>1, RemoveTabGood
    <2> QED BY <1>2, <2>2, <2>3 DEF CloseTab
  <1> QED BY <1>1, <1>2

\* Open asks for a dialog.
LEMMA RequestOpenGood ==
  ASSUME NEW s, Good(s)
  PROVE  Good(RequestOpen(s))
  <1>1. "ShowOpen" \in Request BY DEF Request
  <1> QED BY <1>1, QueueGood DEF RequestOpen

\* Save As asks for a dialog.
LEMMA RequestSaveAsGood ==
  ASSUME NEW s, Good(s)
  PROVE  Good(RequestSaveAs(s))
  BY QueueShowSaveAsGood DEF RequestSaveAs

\* A save of a tab that is gone is refused, whatever its path would be.
LEMMA RequestSaveGood ==
  ASSUME NEW s, Good(s), StampRoom(s), NEW io
  PROVE  Good(RequestSave(s, io))
  <1> DEFINE path  == s.tab[s.active].path
             saved == SaveToPath(s, s.active, path, FALSE, NoGen, io)
  <1>1. NoGen \in GenRef BY DEF GenRef
  <1>2. CASE HasTab(s, s.active) /\ path # NoPath
    <2>1. path \in Paths
      BY <1>2 DEF HasTab, Good, IsState, States, Tab, PathRef
    <2> HIDE DEF path
    <2>2. Good(saved) BY <1>1, <2>1, SaveToPathGood
    <2> QED BY <2>2, QueueShowSaveAsGood DEF path, RequestSave
  <1>3. CASE ~ HasTab(s, s.active)
    <2>1. saved = s BY <1>3 DEF SaveToPath, SaveStatus
    <2> QED BY <2>1, QueueShowSaveAsGood DEF RequestSave
  <1>4. CASE path = NoPath
    BY <1>4, QueueShowSaveAsGood DEF RequestSave
  <1> QED BY <1>2, <1>3, <1>4

\* RequestClose starts the walk afresh.
LEMMA RequestCloseGood ==
  ASSUME NEW s, Good(s), GenRoom(s)
  PROVE  Good(RequestClose(s))
  <1> DEFINE walk == [s EXCEPT !.resolved = {}]
             id   == NextWindowCloseDirty(walk)
  <1>1. Good(walk) BY DEF Good, IsState, States, StripIsTabs, TabsHaveDocuments, OneTab,
         NoOverlap, Pending
  <1>2. LiveGens(walk) = LiveGens(s)
    BY DEF Good, IsState, States, LiveGens
  <1> HIDE DEF walk
  <1>3. GenRoom(walk) BY <1>2 DEF GenRoom
  <1>4. UnresolvedDirty(walk) # {} => Good(BeginPrompt(walk, "window", id))
    BY <1>1, <1>3, NextWindowCloseDirtyOpen, BeginPromptGood
  <1>5. Good(Queue(walk, "AcceptClose")) BY <1>1, QueueGood DEF Request
  <1> QED BY <1>4, <1>5 DEF walk, RequestClose
-----------------------------------------------------------------------------
(* Answers to the three decisions *)

\* Choose: every answer to the dirty-close card.
LEMMA ChooseGood ==
  ASSUME NEW s, Good(s), DocRoom(s), GenRoom(s), StampRoom(s),
         NEW choice \in {"cancel", "discard", "save"}, NEW io
  PROVE  Good(Choose(s, choice, io))
  <1> DEFINE id      == s.prompt.tab
             path    == PathOf(s, id)
             saved   == SaveToPath(s, id, path, FALSE, s.gen, io)
             success == SaveStatus(s, id, path, FALSE, io) = "success"
  <1>1. CASE s.prompt = NoPrompt \/ s.external # NoExternal
    BY <1>1 DEF Choose
  <1>2. CASE s.prompt # NoPrompt /\ s.external = NoExternal
    <2>1. id \in DOMAIN s.tab BY <1>2 DEF Good, Pending
    <2>2. path \in PathRef
      BY <2>1 DEF PathOf, HasTab, Good, IsState, States, Tab
    <2>3. s.gen \in GenRef BY DEF Good, IsState, States
    <2> HIDE DEF path, id
    <2>4. ASSUME path # NoPath
          PROVE  Good(saved) /\ (success => Good(PerformClose(saved)))
      <3>1. path \in Paths BY <2>2, <2>4 DEF PathRef
      <3>2. Good(saved) BY <2>3, <3>1, SaveToPathGood
      <3>3. success => Keeps(s, saved) BY <2>3, <3>1, SaveToPathKeeps
      <3> HIDE DEF saved, success
      <3>4. success => Good(PerformClose(saved))
        BY <3>2, <3>3, KeepsRoom, PerformCloseGood
      <3> QED BY <3>2, <3>4
    <2>5. /\ Good(DismissPrompt(s)) /\ Good(PerformClose(s))
          /\ Good(AwaitSaveAs(s))
      BY <1>2, DismissPromptGood, PerformCloseGood, AwaitSaveAsGood
    <2> QED BY <1>2, <2>4, <2>5 DEF id, path, Choose
  <1> QED BY <1>1, <1>2

\* OpenConfirmed looks again for a tab of the path before it opens one.
LEMMA OpenConfirmedGood ==
  ASSUME NEW s, Good(s), DocRoom(s), NEW path \in Paths, NEW io
  PROVE  Good(OpenConfirmed(s, path, io))
  <1> DEFINE bound == CHOOSE t \in BoundTo(s, path) : TRUE
             id    == FreshDoc(s)
  <1>1. CASE ReadStatus(s.disk, path, "hard", io) # "success"
    BY <1>1 DEF OpenConfirmed
  <1>2. CASE ReadStatus(s.disk, path, "hard", io) = "success"
    <2>1. s.disk[path].exists BY <1>2 DEF ReadStatus
    <2>2. CASE BoundTo(s, path) # {}
      <3>1. bound \in DocIds BY <2>2 DEF BoundTo, Good, IsState
      <3> HIDE DEF bound
      <3>2. Good(Activate(s, bound)) BY <3>1, ActivateGood
      <3> QED BY <1>2, <2>2, <3>2 DEF bound, OpenConfirmed
    <2>3. CASE BoundTo(s, path) = {}
      <3>1. id \in DocIds \ LiveDocs(s) BY FreshIdentity
      <3> HIDE DEF id
      <3>2. Good(LoadOpenedDocument(s, id, path))
        BY <2>1, <2>3, <3>1, LoadOpenedDocumentGood
      <3> QED BY <1>2, <2>3, <3>2 DEF id, OpenConfirmed
    <2> QED BY <2>2, <2>3
  <1> QED BY <1>1, <1>2

\* ChooseLargeFile: every answer to the large-file card.
LEMMA ChooseLargeFileGood ==
  ASSUME NEW s, Good(s), DocRoom(s), NEW choice, NEW io
  PROVE  Good(ChooseLargeFile(s, choice, io))
  <1> DEFINE closed == [s EXCEPT !.large = NoLarge]
             after  == IF choice = "open"
                       THEN OpenConfirmed(closed, s.large.path, io)
                       ELSE closed
  <1>1. CASE s.large = NoLarge \/ s.external # NoExternal
    BY <1>1 DEF ChooseLargeFile
  <1>2. CASE s.large # NoLarge /\ s.external = NoExternal
    <2>1. NoLarge \in LargeOpen BY EmptySeq DEF NoLarge, LargeOpen, PathRef
    <2>2. Good(closed) BY <2>1 DEF Good, IsState, States, StripIsTabs, TabsHaveDocuments, OneTab,
         NoOverlap, Pending
    <2>3. LiveDocs(closed) = LiveDocs(s)
      BY DEF Good, IsState, States, LiveDocs
    <2>4. s.large.path \in Paths /\ s.large.rest \in Seq(Names)
      BY <1>2 DEF Good, Pending, IsState, States, LargeOpen
    <2> HIDE DEF closed
    <2>5. DocRoom(closed) BY <2>3 DEF DocRoom
    <2>6. Good(after) BY <2>2, <2>4, <2>5, OpenConfirmedGood
    <2> HIDE DEF after
    <2>7. s.large.rest # << >> => Good(OpenPathList(after, s.large.rest))
      BY <2>4, <2>6, OpenPathListGood
    <2> QED BY <1>2, <2>6, <2>7 DEF after, closed, ChooseLargeFile
  <1> QED BY <1>1, <1>2

\* The close that ran into the conflict goes on, if it is still asked about.
LEMMA ContinueDirtyCloseGood ==
  ASSUME NEW s, Good(s), DocRoom(s), GenRoom(s), NEW pending
  PROVE  Good(ContinueDirtyClose(s, pending))
  BY PerformCloseGood DEF ContinueDirtyClose

\* Overwrite on the conflict card.
LEMMA OverwriteGood ==
  ASSUME NEW s, Good(s), DocRoom(s), GenRoom(s), StampRoom(s), NEW pending,
         pending.path \in Paths, NEW io
  PROVE  Good(Overwrite(s, pending, io))
  <1> DEFINE saved   == SaveToPath(s, pending.tab, pending.path, TRUE, NoGen, io)
             success == SaveStatus(s, pending.tab, pending.path, TRUE, io)
                          = "success"
             closed  == [saved EXCEPT !.external = NoExternal]
  <1>1. NoGen \in GenRef BY DEF GenRef
  <1>2. Good(saved) BY <1>1, SaveToPathGood
  <1>3. success => Keeps(s, saved) BY <1>1, SaveToPathKeeps
  <1> HIDE DEF saved, success
  <1>4. Good(closed) /\ Keeps(saved, closed) BY <1>2, NoExternalGood
  <1> HIDE DEF closed
  <1>5. success => Good(ContinueDirtyClose(closed, pending))
    <2>1. success => DocRoom(saved) /\ GenRoom(saved) BY <1>3, KeepsRoom
    <2>2. success => DocRoom(closed) /\ GenRoom(closed)
      BY <1>4, <2>1, KeepsRoom
    <2> QED BY <1>4, <2>2, ContinueDirtyCloseGood
  <1> QED BY <1>2, <1>5 DEF closed, saved, success, Overwrite

\* What a Reload that reads the file makes of the captured tab.
Reloaded(s, pending) ==
  [LoadInitialBuffer(ShowTab(s, pending.tab), s.disk[pending.path].text) EXCEPT
     !.tab[pending.tab].stamp = s.disk[pending.path].stamp,
     !.external               = NoExternal]

\* It keeps the tab's path.
LEMMA ReloadedGood ==
  ASSUME NEW s, Good(s), DocRoom(s), GenRoom(s), NEW pending,
         pending.path \in Paths, pending.tab \in DOMAIN s.tab,
         s.disk[pending.path].exists
  PROVE  /\ Good(Reloaded(s, pending))
         /\ DocRoom(Reloaded(s, pending)) /\ GenRoom(Reloaded(s, pending))
  <1> DEFINE file   == s.disk[pending.path]
             shown  == ShowTab(s, pending.tab)
             buffer == LoadInitialBuffer(shown, file.text)
             newTab    == [s.tab EXCEPT ![pending.tab].stamp = file.stamp]
             known  == [buffer EXCEPT !.tab = newTab]
             loaded == [known EXCEPT !.external = NoExternal]
  <1>1. file \in File BY DEF Good, IsState, States, Disk, Absent
  <1>2. file.text \in Texts /\ file.stamp \in Stamps BY <1>1 DEF File
  <1> HIDE DEF file
  <1>3. Good(shown) /\ shown.tab = s.tab /\ Keeps(s, shown)
    BY ShowTabGood, ShowTabKeeps
  <1> HIDE DEF shown
  <1>4. Good(buffer) BY <1>2, <1>3, LoadInitialBufferGood
  <1>5. /\ buffer.tab = s.tab /\ LiveDocs(buffer) = LiveDocs(shown)
        /\ LiveGens(buffer) = LiveGens(shown)
    BY <1>3 DEF Good, IsState, States, LoadInitialBuffer, LiveDocs, LiveGens
  <1> HIDE DEF buffer
  <1>6. /\ newTab \in [DOMAIN s.tab -> Tab]
        /\ \A t \in DOMAIN s.tab : newTab[t].path = s.tab[t].path
    <2>1. s.tab \in [DOMAIN s.tab -> Tab] BY DEF Good, IsState, States
    <2> QED BY <1>2, <2>1 DEF Tab
  <1> HIDE DEF newTab
  <1>7. Good(known)
    <2>1. IsState(known) BY <1>4, <1>5, <1>6 DEF Good, IsState, States
    <2>2. /\ known.tab = newTab /\ known.docs = buffer.docs
          /\ known.strip = buffer.strip /\ known.prompt = buffer.prompt
          /\ known.large = buffer.large /\ known.opening = buffer.opening
          /\ known.external = buffer.external
      BY <1>4 DEF Good, IsState, States
    <2> HIDE DEF known
    <2> QED
      BY <1>4, <1>5, <1>6, <2>1, <2>2
      DEF Good, StripIsTabs, TabsHaveDocuments, OneTab, NoOverlap, Pending
  <1>8. /\ LiveDocs(known) = LiveDocs(buffer)
        /\ LiveGens(known) = LiveGens(buffer)
    BY <1>4 DEF Good, IsState, States, LiveDocs, LiveGens
  <1> HIDE DEF known
  <1>9. DocRoom(known) /\ GenRoom(known)
    BY <1>3, <1>5, <1>8, KeepsRoom DEF DocRoom, GenRoom
  <1>10. Good(loaded) /\ Keeps(known, loaded) BY <1>7, NoExternalGood
  <1> HIDE DEF loaded
  <1>11. DocRoom(loaded) /\ GenRoom(loaded) BY <1>9, <1>10, KeepsRoom
  <1>12. Reloaded(s, pending) = loaded
    <2>1. [buffer EXCEPT !.tab[pending.tab].stamp = file.stamp,
                         !.external               = NoExternal] = loaded
      BY <1>4, <1>5 DEF loaded, known, newTab, Good, IsState, States
    <2> QED BY <2>1 DEF Reloaded, buffer, shown, file
  <1> QED BY <1>10, <1>11, <1>12

\* Reload on the conflict card.
LEMMA ReloadGood ==
  ASSUME NEW s, Good(s), DocRoom(s), GenRoom(s), NEW pending,
         pending.path \in Paths, pending.tab \in DOMAIN s.tab, NEW io
  PROVE  Good(Reload(s, pending, io))
  <1>1. CASE ReadStatus(s.disk, pending.path, "hard", io) = "success"
    <2>1. s.disk[pending.path].exists BY <1>1 DEF ReadStatus
    <2>2. Good(ContinueDirtyClose(Reloaded(s, pending), pending))
      BY <2>1, ReloadedGood, ContinueDirtyCloseGood
    <2> QED BY <1>1, <2>2 DEF Reload, Reloaded
  <1>2. CASE ReadStatus(s.disk, pending.path, "hard", io) # "success"
    BY <1>2 DEF Reload
  <1> QED BY <1>1, <1>2

\* ChooseExternalChange: every answer to the conflict card.
LEMMA ChooseExternalChangeGood ==
  ASSUME NEW s, Good(s), DocRoom(s), GenRoom(s), StampRoom(s),
         NEW choice \in {"cancel", "saveAs", "overwrite", "reload"}, NEW io
  PROVE  Good(ChooseExternalChange(s, choice, io))
  <1> DEFINE pending == s.external
             closed  == [s EXCEPT !.external = NoExternal]
             intent    == [tab |-> pending.tab, gen |-> NoGen]
             manual  == Queue([closed EXCEPT !.slot = intent], "ShowSaveAs")
  <1>1. Good(closed) /\ closed.prompt = s.prompt BY NoExternalGood
  <1>2. pending.tab \in TabRef
    BY DEF Good, IsState, States, ExternalChange
  <1>3. intent \in SaveAsIntent BY <1>2 DEF SaveAsIntent, GenRef
  <1>4. CASE \/ pending = NoExternal \/ ~ HasTab(s, pending.tab)
             \/ s.tab[pending.tab].path # pending.path
    BY <1>1, <1>4 DEF ChooseExternalChange
  <1>5. CASE /\ pending # NoExternal /\ HasTab(s, pending.tab)
             /\ s.tab[pending.tab].path = pending.path
    <2>1. pending.path \in Paths /\ pending.tab \in DOMAIN s.tab
      BY <1>5 DEF Good, Pending, HasTab
    <2>2. InitiatingPrompt(s, pending) =>
            Good(NotifySaveIncomplete(closed)) /\ Good(AwaitSaveAs(closed))
      BY <1>1, NotifySaveIncompleteGood, AwaitSaveAsGood DEF InitiatingPrompt
    <2> HIDE DEF closed, intent
    <2>3. Good(manual) BY <1>1, <1>3, SlotGood
    <2> HIDE DEF pending
    <2>4. Good(Overwrite(s, pending, io)) BY <2>1, OverwriteGood
    <2>5. Good(Reload(s, pending, io)) BY <2>1, ReloadGood
    <2> QED
      BY <1>1, <1>5, <2>2, <2>3, <2>4, <2>5
      DEF pending, intent, closed, ChooseExternalChange
  <1> QED BY <1>4, <1>5
-----------------------------------------------------------------------------
(* File dialogs *)

\* A dialog comes or goes.
LEMMA DialogsGood ==
  ASSUME NEW s, Good(s), NEW left \in SUBSET Dialog
  PROVE  Good([s EXCEPT !.dialogs = left])
  BY DEF Good, IsState, States, StripIsTabs, TabsHaveDocuments, OneTab,
         NoOverlap, Pending

\* A dialog's identity is among the dialogs' identities.
LEMMA FreshDialogId ==
  ASSUME NEW s, DialogRoom(s)
  PROVE  FreshDialog(s) \in 1 .. MaxDialogs
  BY DEF DialogRoom, FreshDialog

\* BeginOpenDialog.
LEMMA BeginOpenDialogGood ==
  ASSUME NEW s, Good(s), DialogRoom(s)
  PROVE  Good(BeginOpenDialog(s))
  <1> DEFINE d == [id |-> FreshDialog(s), kind |-> "open",
                   tab |-> NoDoc, gen |-> NoGen]
  <1>1. d \in Dialog BY FreshDialogId DEF Dialog, TabRef, GenRef
  <1> HIDE DEF d
  <1>2. s.dialogs \cup {d} \in SUBSET Dialog
    BY <1>1 DEF Good, IsState, States
  <1> QED BY <1>2, DialogsGood DEF d, BeginOpenDialog

\* BeginSaveAsDialog takes the intent out of the slot.
LEMMA BeginSaveAsDialogGood ==
  ASSUME NEW s, Good(s), DialogRoom(s)
  PROVE  Good(BeginSaveAsDialog(s))
  <1> DEFINE d == [id |-> FreshDialog(s), kind |-> "saveAs",
                   tab |-> IF s.slot.tab # NoDoc THEN s.slot.tab ELSE s.active,
                   gen |-> s.slot.gen]
             n == [s EXCEPT !.slot = NoSlot]
  <1>1. s.slot.tab \in TabRef /\ s.active \in TabRef /\ s.slot.gen \in GenRef
    BY DEF Good, IsState, States, SaveAsIntent, TabRef
  <1>2. d \in Dialog BY <1>1, FreshDialogId DEF Dialog
  <1> HIDE DEF d
  <1>3. s.dialogs \cup {d} \in SUBSET Dialog
    BY <1>2 DEF Good, IsState, States
  <1>4. NoSlot \in SaveAsIntent BY DEF NoSlot, SaveAsIntent, TabRef, GenRef
  <1>5. Good(n) BY <1>4 DEF Good, IsState, States, StripIsTabs, TabsHaveDocuments, OneTab,
         NoOverlap, Pending
  <1> HIDE DEF n
  <1>6. Good([n EXCEPT !.dialogs = s.dialogs \cup {d}])
    BY <1>3, <1>5, DialogsGood
  <1>7. [n EXCEPT !.dialogs = s.dialogs \cup {d}] = BeginSaveAsDialog(s)
    BY DEF n, d, BeginSaveAsDialog
  <1> QED BY <1>6, <1>7

\* A dialog is over.
LEMMA DialogGone ==
  ASSUME NEW s, Good(s), NEW dialog
  PROVE  LET n == [s EXCEPT !.dialogs = @ \ {dialog}]
         IN  /\ Good(n) /\ Keeps(s, n) /\ n.prompt = s.prompt
             /\ n.disk = s.disk /\ n.tab = s.tab
  <1> DEFINE left == s.dialogs \ {dialog}
             n    == [s EXCEPT !.dialogs = left]
  <1>1. left \in SUBSET Dialog BY DEF Good, IsState, States
  <1>2. Good(n) BY <1>1, DialogsGood
  <1>3. Keeps(s, n) /\ n.prompt = s.prompt /\ n.disk = s.disk /\ n.tab = s.tab
    BY DEF Good, IsState, States, Keeps, LiveDocs, LiveGens
  <1> QED BY <1>2, <1>3

\* A dialog the portal could not show.
LEMMA AbandonDialogGood ==
  ASSUME NEW s, Good(s), NEW dialog
  PROVE  Good(AbandonDialog(s, dialog))
  <1>1. s.prompt.awaiting => s.prompt # NoPrompt BY DEF NoPrompt
  <1> QED BY <1>1, DialogGone, NotifySaveIncompleteGood DEF AbandonDialog

\* HandleDialogResult: every answer to a dialog.
LEMMA HandleDialogResultGood ==
  ASSUME NEW s, Good(s), DocRoom(s), GenRoom(s), StampRoom(s),
         NEW dialog \in s.dialogs, NEW accepted \in BOOLEAN,
         NEW names \in Seq(Names), names # << >>, NEW io
  PROVE  Good(HandleDialogResult(s, dialog, accepted, names, io))
  <1> DEFINE gone == [s EXCEPT !.dialogs = @ \ {dialog}]
             path == Normalize[Head(names)]
             done == ApplySaveResult(gone, dialog.tab, accepted, path,
                                     dialog.gen, io)
  <1>1. Good(gone) /\ Keeps(s, gone) BY DialogGone
  <1>2. gone.disk = s.disk /\ gone.tab = s.tab BY DialogGone
  <1>3. dialog.gen \in GenRef BY DEF Good, IsState, States, Dialog
  <1>4. Head(names) \in Names BY HeadTailProperties
  <1>5. path \in Paths BY <1>4, WorkspaceConstants
  <1> HIDE DEF gone, path
  <1>6. DocRoom(gone) /\ GenRoom(gone) BY <1>1, KeepsRoom
  <1>7. StampRoom(gone) BY <1>2 DEF StampRoom, LiveStamps
  <1>8. Good(done)
    BY <1>1, <1>3, <1>5, <1>6, <1>7, ApplySaveResultGood
  <1>9. Good(ApplyOpenPaths(gone, names)) BY <1>1, ApplyOpenPathsGood
  <1> QED BY <1>1, <1>8, <1>9 DEF gone, path, HandleDialogResult
-----------------------------------------------------------------------------
(* The application *)

IndInv ==
  /\ Good(S)
  /\ turn \in {"start", "results", "inputs", "left"}
  /\ quit \in BOOLEAN
  /\ forgone \subseteq DocIds \X Texts
  /\ turn = "start" => prompt = NoPrompt /\ opening = NoOpening
-----------------------------------------------------------------------------
(* How actions are built *)

\* The variables become the fields of the state the handlers return.
LEMMA BecomeGood ==
  ASSUME NEW n, Good(n), Become(n)
  PROVE  Good(S)'
  <1>1. S' = n BY DEF S, Become, Good, IsState, States
  <1> QED BY <1>1

\* A step that ends in a good state keeps the invariant.
LEMMA StepGood ==
  ASSUME IndInv, turn # "start", NEW n, Good(n),
         NEW lost \in SUBSET (DocIds \X Texts), Step(n, lost)
  PROVE  IndInv'
  <1>1. Become(n) BY DEF Step
  <1>2. Good(S)' BY <1>1, BecomeGood
  <1>3. /\ turn' = turn /\ quit' = quit
        /\ forgone' \in {forgone \cup lost, {}}
    BY DEF Step
  <1> QED BY <1>2, <1>3 DEF IndInv

\* Nothing of the application's record changes.
LEMMA UnchangedGood ==
  ASSUME Good(S), UNCHANGED <<editorVars, disk, workspaceVars>>
  PROVE  Good(S)'
  <1>1. S' = S BY DEF S, editorVars, workspaceVars
  <1> QED BY <1>1

\* The room an input or a result finds.
LEMMA RoomParts ==
  ASSUME Room(S)
  PROVE  DocRoom(S) /\ GenRoom(S) /\ StampRoom(S)
  BY DEF Room, DocRoom, GenRoom, StampRoom

\* A list of names is a nonempty sequence.
LEMMA NameListIsSeq ==
  ASSUME NEW names \in NameLists
  PROVE  names \in Seq(Names) /\ names # << >>
  <1>1. PICK n \in 1 .. MaxList : names \in [1 .. n -> Names] BY DEF NameLists
  <1>2. n \in Nat /\ 1 \in 1 .. n BY <1>1, ApplicationConstants
  <1>3. names \in Seq(Names) BY <1>1, <1>2, SeqDef
  <1>4. names # << >>
    <2>1. DOMAIN names = 1 .. n BY <1>1
    <2>2. Len(names) # 0
      <3>1. DOMAIN names = 1 .. Len(names) BY <1>3, LenProperties
      <3> QED BY <1>2, <2>1, <3>1
    <2> QED BY <2>2, EmptySeq
  <1> QED BY <1>3, <1>4

\* The next request is taken from the queue.
LEMMA RequestTaken ==
  ASSUME Good(S), requests # << >>
  PROVE  Good([S EXCEPT !.requests = Tail(@)])
  <1>1. requests \in Seq(Request) BY DEF Good, IsState, States, S
  <1>2. Tail(requests) \in Seq(Request) BY <1>1, HeadTailProperties
  <1>3. S.requests = requests BY DEF S
  <1> HIDE DEF S
  <1> QED
    BY <1>2, <1>3
    DEF Good, IsState, States, StripIsTabs, TabsHaveDocuments, OneTab,
        NoOverlap, Pending
-----------------------------------------------------------------------------
\* The process starts in a good state: one untitled tab.
LEMMA InitGood == Init => IndInv
  <1> SUFFICES ASSUME Init PROVE IndInv
    OBVIOUS
  <1>1. 1 \in DocIds BY DocumentConstants DEF DocIds
  <1>2. docs \in [{1} -> Document] /\ DOMAIN docs = {1}
    BY DocumentConstants DEF Init, AtSavePoint, Document
  <1>3. Untitled \in Tab BY DEF Untitled, Tab, PathRef
  <1>4. tab \in [{1} -> Tab] /\ DOMAIN tab = {1}
    BY <1>3 DEF Init
  <1>5. strip \in Seq(DocIds) /\ ToSet(strip) = {1} /\ IsInjective(strip)
    <2>1. strip \in Seq(DocIds) /\ DOMAIN strip = {1} /\ strip[1] = 1
      BY <1>1 DEF Init
    <2> QED BY <2>1 DEF ToSet, IsInjective
  <1>6. /\ requests \in Seq(Request) /\ NoLarge \in LargeOpen
        /\ NoOpening \in Opening
    BY EmptySeq DEF Init, NoLarge, LargeOpen, PathRef, NoOpening, Opening,
                    TabRef
  <1>7. /\ NoPrompt \in Prompt /\ NoSlot \in SaveAsIntent
        /\ NoExternal \in ExternalChange
    BY DEF NoPrompt, Prompt, NoSlot, SaveAsIntent, NoExternal,
           ExternalChange, TabRef, GenRef, PathRef
  <1>8. disk \in Disk BY ApplicationConstants DEF Init
  <1>9. IsState(S)
    BY <1>1, <1>2, <1>4, <1>5, <1>6, <1>7, <1>8
    DEF Init, IsState, States, S, TabRef, GenRef
  <1>10. Good(S)
    BY <1>2, <1>4, <1>5, <1>9
    DEF Init, Good, StripIsTabs, TabsHaveDocuments, OneTab, NoOverlap,
        Pending, S
  <1> QED BY <1>10 DEF IndInv, Init
-----------------------------------------------------------------------------
(* Every action keeps the invariant *)

\* A step by which the user gives nothing up.
LEMMA PlainStepGood ==
  ASSUME IndInv, turn # "start", NEW n, Good(n), Step(n, {})
  PROVE  IndInv'
  BY StepGood

\* Startup with files: all of them readable, or the process leaves.
LEMMA StartWithFilesGood ==
  ASSUME IndInv, StartWithFiles
  PROVE  IndInv'
  <1>1. Good(S) /\ S.prompt = NoPrompt /\ turn = "start"
    BY DEF IndInv, StartWithFiles, S
  <1>2. PICK n \in 1 .. MaxTabs :
          \E paths \in [1 .. n -> Paths], last \in 1 .. n :
            /\ \A i, j \in 1 .. n : i # j => paths[i] # paths[j]
            /\ IF StartupReadable(S, paths)
               THEN /\ Become(LoadStartupFiles(S, paths, last))
                    /\ turn' = "results"
               ELSE Become(S) /\ turn' = "left"
    BY DEF StartWithFiles
  <1>3. PICK paths \in [1 .. n -> Paths], last \in 1 .. n :
            /\ \A i, j \in 1 .. n : i # j => paths[i] # paths[j]
            /\ IF StartupReadable(S, paths)
               THEN /\ Become(LoadStartupFiles(S, paths, last))
                    /\ turn' = "results"
               ELSE Become(S) /\ turn' = "left"
    BY <1>2
  <1>4. n \in Nat /\ n <= MaxDocs
    BY ApplicationConstants, DocumentConstants
  <1>5. StartupReadable(S, paths) => Good(LoadStartupFiles(S, paths, last))
    BY <1>1, <1>3, <1>4, LoadStartupFilesGood
  <1>6. Good(S)' /\ turn' \in {"results", "left"}
    BY <1>1, <1>3, <1>5, BecomeGood
  <1> QED BY <1>6 DEF IndInv, StartWithFiles

\* A portal answers a dialog.
LEMMA DialogResultGood ==
  ASSUME IndInv, DialogResult
  PROVE  IndInv'
  <1>1. turn # "start" /\ Room(S) BY DEF DialogResult, Result, Ready
  <1>2. PICK d \in dialogs, accepted \in BOOLEAN, names \in NameLists,
             io \in Faults :
          Step(HandleDialogResult(S, d, accepted, names, io), {})
    BY DEF DialogResult
  <1>3. d \in S.dialogs BY DEF S
  <1>4. Good(S) BY DEF IndInv
  <1>5. Good(HandleDialogResult(S, d, accepted, names, io))
    BY <1>1, <1>3, <1>4, RoomParts, NameListIsSeq, HandleDialogResultGood
  <1> QED BY <1>1, <1>2, <1>5, PlainStepGood

\* The next file of a list is opened.
LEMMA OpenNextGood ==
  ASSUME IndInv, OpenNext
  PROVE  IndInv'
  <1>1. /\ Good(S) /\ turn # "start" /\ DocRoom(S)
        /\ S.opening # NoOpening
    BY RoomParts DEF OpenNext, IndInv, S
  <1>2. PICK io \in Faults : Step(OpenNextPath(S, io), {}) BY DEF OpenNext
  <1>3. Good(OpenNextPath(S, io)) BY <1>1, OpenNextPathGood
  <1> QED BY <1>1, <1>2, <1>3, PlainStepGood

\* The clipboard answers.
LEMMA PasteResultGood ==
  ASSUME IndInv, Typed \subseteq Texts, PasteResult
  PROVE  IndInv'
  <1>1. Good(S) /\ turn # "start" BY DEF PasteResult, Result, IndInv
  <1>2. PICK text \in Typed : Step(HandleClipboardResult(S, text), {})
    BY DEF PasteResult
  <1>3. Good(HandleClipboardResult(S, text))
    BY <1>1, HandleClipboardResultGood
  <1> QED BY <1>1, <1>2, <1>3, PlainStepGood

\* A dialog request becomes a dialog, shown or abandoned.
LEMMA TakeDialogRequestGood ==
  ASSUME IndInv, TakeDialogRequest
  PROVE  IndInv'
  <1> DEFINE popped == [S EXCEPT !.requests = Tail(@)]
             begun  == IF Head(requests) = "ShowOpen"
                       THEN BeginOpenDialog(popped)
                       ELSE BeginSaveAsDialog(popped)
  <1>1. Good(S) /\ turn # "start" /\ DialogRoom(S) /\ requests # << >>
    BY DEF TakeDialogRequest, IndInv
  <1>2. Good(popped) BY <1>1, RequestTaken
  <1>3. DialogRoom(popped)
    BY <1>1 DEF DialogRoom, LiveDialogs, S
  <1>4. \/ Step(begun, {})
        \/ \E d \in begun.dialogs \ dialogs : Step(AbandonDialog(begun, d), {})
    BY DEF TakeDialogRequest
  <1> HIDE DEF popped
  <1>5. Good(begun)
    BY <1>2, <1>3, BeginOpenDialogGood, BeginSaveAsDialogGood
  <1> HIDE DEF begun
  <1> QED BY <1>1, <1>4, <1>5, AbandonDialogGood, PlainStepGood

\* The accepted close is taken from the queue.
LEMMA AcceptCloseGood ==
  ASSUME IndInv, AcceptClose
  PROVE  IndInv'
  <1>1. Good([S EXCEPT !.requests = Tail(@)])
    BY RequestTaken DEF AcceptClose, IndInv
  <1>2. Good(S)' BY <1>1, BecomeGood DEF AcceptClose
  <1> QED BY <1>2 DEF IndInv, AcceptClose

\* RunWaylandApplication leaves at once: the queue and the card go with it.
LEMMA LeavingGood ==
  ASSUME NEW n, Good(n)
  PROVE  Good([n EXCEPT !.requests = << >>, !.spell = "closed",
                        !.scope = NoDoc])
  <1>1. << >> \in Seq(Request) BY EmptySeq
  <1> QED
    BY <1>1
    DEF Good, IsState, States, StripIsTabs, TabsHaveDocuments, OneTab,
        NoOverlap, Pending, TabRef

\* The compositor's close: the walk starts, or the process leaves.
LEMMA WindowCloseGood ==
  ASSUME IndInv, WindowClose
  PROVE  IndInv'
  <1> DEFINE n == RequestClose(S)
             m == [n EXCEPT !.requests = << >>, !.spell = "closed",
                            !.scope = NoDoc]
  <1>1. Good(S) /\ turn # "start" /\ GenRoom(S)
    BY RoomParts DEF WindowClose, Input, Ready, IndInv
  <1>2. Good(n) BY <1>1, RequestCloseGood
  <1>3. \/ Become(m) /\ quit' = TRUE /\ turn' = "left" /\ UNCHANGED forgone
        \/ Step(n, {})
    BY DEF WindowClose
  <1> HIDE DEF n
  <1>4. Good(m) BY <1>2, LeavingGood
  <1> HIDE DEF m
  <1>5. CASE Step(n, {}) BY <1>1, <1>2, <1>5, PlainStepGood
  <1>6. CASE Become(m) /\ quit' = TRUE /\ turn' = "left" /\ UNCHANGED forgone
    <2>1. Good(S)' BY <1>4, <1>6, BecomeGood
    <2> QED BY <1>6, <2>1 DEF IndInv
  <1> QED BY <1>3, <1>5, <1>6

\* New Tab, a click on a tab, next and previous tab.
LEMMA TabActionsGood ==
  ASSUME IndInv, TabActions
  PROVE  IndInv'
  <1>1. Good(S) /\ turn # "start" /\ DocRoom(S)
    BY RoomParts DEF TabActions, Input, Ready, IndInv
  <1>2. CASE Step(NewTab(S), {}) BY <1>1, <1>2, NewTabGood, PlainStepGood
  <1>3. ASSUME NEW id \in DOMAIN tab, Step(ActivateTab(S, id), {})
        PROVE  IndInv'
    BY <1>1, <1>3, ActivateTabGood, PlainStepGood
  <1>4. ASSUME NEW delta \in {-1, 1}, Step(CycleTab(S, delta), {})
        PROVE  IndInv'
    BY <1>1, <1>4, CycleTabGood, PlainStepGood
  <1> QED BY <1>2, <1>3, <1>4 DEF TabActions

\* Open, Save As and Save.
LEMMA FileActionsGood ==
  ASSUME IndInv, FileActions
  PROVE  IndInv'
  <1>1. Good(S) /\ turn # "start" /\ StampRoom(S)
    BY RoomParts DEF FileActions, Input, Ready, IndInv
  <1>2. CASE Step(RequestOpen(S), {})
    BY <1>1, <1>2, RequestOpenGood, PlainStepGood
  <1>3. CASE Step(RequestSaveAs(S), {})
    BY <1>1, <1>3, RequestSaveAsGood, PlainStepGood
  <1>4. ASSUME NEW io \in Faults, Step(RequestSave(S, io), {})
        PROVE  IndInv'
    BY <1>1, <1>4, RequestSaveGood, PlainStepGood
  <1> QED BY <1>2, <1>3, <1>4 DEF FileActions

\* A Recent entry is a list of one name.
LEMMA OpenRecentGood ==
  ASSUME IndInv, OpenRecent
  PROVE  IndInv'
  <1>1. Good(S) /\ turn # "start" BY DEF OpenRecent, Input, IndInv
  <1>2. PICK name \in Names : Step(ApplyOpenPaths(S, <<name>>), {})
    BY DEF OpenRecent
  <1>3. <<name>> \in Seq(Names) /\ <<name>> # << >> OBVIOUS
  <1>4. Good(ApplyOpenPaths(S, <<name>>)) BY <1>1, <1>3, ApplyOpenPathsGood
  <1> QED BY <1>1, <1>2, <1>4, PlainStepGood

\* What the user discards is a document's text.
LEMMA AnswerUnsavedGood ==
  ASSUME IndInv, AnswerUnsaved
  PROVE  IndInv'
  <1> DEFINE lost == {<<prompt.tab, docs[prompt.tab].text>>}
  <1>1. Good(S) /\ turn # "start" /\ Room(S)
    BY DEF AnswerUnsaved, Input, Ready, IndInv
  <1>2. \A choice \in {"cancel", "discard", "save"} : \A io :
          Good(Choose(S, choice, io))
    BY <1>1, RoomParts, ChooseGood
  <1>3. lost \in SUBSET (DocIds \X Texts)
    <2>1. prompt # NoPrompt BY DEF AnswerUnsaved, Card
    <2>2. prompt.tab \in DOMAIN docs
      BY <1>1, <2>1 DEF Good, Pending, TabsHaveDocuments, S
    <2>3. docs \in [DOMAIN docs -> Document] /\ DOMAIN docs \subseteq DocIds
      BY <1>1 DEF Good, IsState, States, S
    <2> QED BY <2>2, <2>3 DEF Document
  <1>4. CASE Step(Choose(S, "cancel", "ok"), {})
    BY <1>1, <1>2, <1>4, PlainStepGood
  <1>5. CASE Step(Choose(S, "discard", "ok"), lost)
    <2> HIDE DEF lost
    <2>1. Good(Choose(S, "discard", "ok")) BY <1>2
    <2> QED BY <1>1, <1>3, <1>5, <2>1, StepGood
  <1>6. ASSUME NEW io \in Faults, Step(Choose(S, "save", io), {})
        PROVE  IndInv'
    BY <1>1, <1>2, <1>6, PlainStepGood
  <1> QED BY <1>4, <1>5, <1>6 DEF AnswerUnsaved

\* An answer to the large-file card.
LEMMA AnswerLargeFileGood ==
  ASSUME IndInv, AnswerLargeFile
  PROVE  IndInv'
  <1>1. Good(S) /\ turn # "start" /\ Room(S)
    BY DEF AnswerLargeFile, Input, Ready, IndInv
  <1>2. \A choice, io : Good(ChooseLargeFile(S, choice, io))
    BY <1>1, RoomParts, ChooseLargeFileGood
  <1> QED BY <1>1, <1>2, PlainStepGood DEF AnswerLargeFile

\* An answer to the external-change card.
LEMMA AnswerExternalChangeGood ==
  ASSUME IndInv, AnswerExternalChange
  PROVE  IndInv'
  <1>1. Good(S) /\ turn # "start" /\ Room(S)
    BY DEF AnswerExternalChange, Input, Ready, IndInv
  <1>2. \A choice \in {"cancel", "saveAs", "overwrite", "reload"} : \A io :
          Good(ChooseExternalChange(S, choice, io))
    BY <1>1, RoomParts, ChooseExternalChangeGood
  <1>3. PICK choice \in {"cancel", "saveAs", "overwrite", "reload"},
             io \in Faults \cup {"ok"} :
          Step(ChooseExternalChange(S, choice, io), {})
    BY DEF AnswerExternalChange
  <1>4. Good(ChooseExternalChange(S, choice, io)) BY <1>2
  <1> QED BY <1>1, <1>3, <1>4, PlainStepGood

\* A replacement in the reviewed document, or the card is closed.
LEMMA AnswerSpellingGood ==
  ASSUME IndInv, Typed \subseteq Texts, AnswerSpelling
  PROVE  IndInv'
  <1>1. Good(S) /\ turn # "start" BY DEF AnswerSpelling, Input, IndInv
  <1>2. CASE Step(CloseSpellcheck(S), {})
    BY <1>1, <1>2, CardGood, PlainStepGood
  <1>3. ASSUME NEW text \in Typed, Step(EditText(S, text), {})
        PROVE  IndInv'
    BY <1>1, <1>3, EditTextGood, PlainStepGood
  <1> QED BY <1>2, <1>3 DEF AnswerSpelling

\* The batch of inputs is done.
LEMMA EndTurnGood ==
  ASSUME IndInv, EndTurn
  PROVE  IndInv'
  <1>1. Good(S) /\ Good(CloseSpellcheck(S)) BY CardGood DEF IndInv
  <1>2. Good(S)' BY <1>1, BecomeGood DEF EndTurn
  <1>3. turn' \in {"left", "results"} BY DEF EndTurn
  <1> QED BY <1>2, <1>3 DEF IndInv, EndTurn

\* Other programs change the disk and nothing else.
LEMMA OtherProgramGood ==
  ASSUME IndInv, OtherProgram
  PROVE  IndInv'
  <1>1. Good(S) /\ StampRoom(S) /\ turn # "start"
    BY RoomParts DEF OtherProgram, IndInv
  <1>2. disk \in Disk BY <1>1 DEF Good, IsState, States, S
  <1>3. FreshStamp(S) \in Stamps BY <1>1, FreshIdentity
  <1>4. \A text \in Foreign : FileOf(text, FreshStamp(S)) \in File
    BY <1>3, ApplicationConstants DEF FileOf, File
  <1>5. disk' \in Disk BY <1>2, <1>4 DEF OtherProgram, Disk
  <1>6. S' = [S EXCEPT !.disk = disk']
    BY DEF S, OtherProgram, editorVars, workspaceVars
  <1>7. Good(S)'
    <2>1. \A f \in Disk : Good([S EXCEPT !.disk = f])
      <3> HIDE DEF S
      <3> QED
        BY <1>1 DEF Good, IsState, States, StripIsTabs, TabsHaveDocuments,
                    OneTab, NoOverlap, Pending
    <2>2. Good([S EXCEPT !.disk = disk']) BY <1>5, <2>1
    <2> QED BY <1>6, <2>2
  <1> QED BY <1>1, <1>7 DEF IndInv, OtherProgram
-----------------------------------------------------------------------------
\* No action leads out of the good states.
LEMMA NextGood == IndInv /\ [Next]_vars => IndInv'
  <1> SUFFICES ASSUME IndInv, [Next]_vars PROVE IndInv'
    OBVIOUS
  <1>1. Good(S) /\ Typed \subseteq Texts
    BY ApplicationConstants DEF IndInv
  <1>2. CASE UNCHANGED vars
    <2>1. Good(S)' BY <1>1, <1>2, UnchangedGood DEF vars
    <2> QED BY <1>2, <2>1 DEF IndInv, vars, workspaceVars
  <1>3. CASE StartInteractive \/ EndResults
    <2>1. Good(S)' BY <1>1, <1>3, UnchangedGood DEF StartInteractive, EndResults
    <2> QED BY <1>3, <2>1 DEF IndInv, StartInteractive, EndResults
  <1>4. CASE StartWithFiles BY <1>4, StartWithFilesGood
  <1>5. CASE DialogResult BY <1>5, DialogResultGood
  <1>6. CASE OpenNext BY <1>6, OpenNextGood
  <1>7. CASE PasteResult BY <1>1, <1>7, PasteResultGood
  <1>8. CASE SpellcheckResult
    BY <1>1, <1>8, CardGood, PlainStepGood DEF SpellcheckResult, Result
  <1>9. CASE TakeDialogRequest BY <1>9, TakeDialogRequestGood
  <1>10. CASE AcceptClose BY <1>10, AcceptCloseGood
  <1>11. CASE WindowClose BY <1>11, WindowCloseGood
  <1>12. CASE QuitAction
    BY <1>1, <1>12, RoomParts, RequestCloseGood, PlainStepGood
    DEF QuitAction, Input, Ready
  <1>13. CASE Edit
    BY <1>1, <1>13, EditTextGood, PlainStepGood DEF Edit, Input
  <1>14. CASE Undo
    BY <1>1, <1>14, UndoToSavePointGood, PlainStepGood DEF Undo, Input
  <1>15. CASE Paste
    BY <1>1, <1>15, CardGood, PlainStepGood DEF Paste, Input
  <1>16. CASE TabActions BY <1>16, TabActionsGood
  <1>17. CASE Close
    BY <1>1, <1>17, RoomParts, CloseTabGood, PlainStepGood
    DEF Close, Input, Ready
  <1>18. CASE FileActions BY <1>18, FileActionsGood
  <1>19. CASE OpenRecent BY <1>19, OpenRecentGood
  <1>20. CASE AnswerUnsaved BY <1>20, AnswerUnsavedGood
  <1>21. CASE AnswerLargeFile BY <1>21, AnswerLargeFileGood
  <1>22. CASE AnswerExternalChange BY <1>22, AnswerExternalChangeGood
  <1>23. CASE OpenSpelling
    BY <1>1, <1>23, CardGood, PlainStepGood DEF OpenSpelling, Input
  <1>24. CASE AnswerSpelling BY <1>1, <1>24, AnswerSpellingGood
  <1>25. CASE EndTurn BY <1>25, EndTurnGood
  <1>26. CASE OtherProgram BY <1>26, OtherProgramGood
  <1>27. CASE Terminated BY <1>2, <1>27 DEF Terminated
  <1> QED
    BY <1>2, <1>3, <1>4, <1>5, <1>6, <1>7, <1>8, <1>9, <1>10, <1>11, <1>12,
       <1>13, <1>14, <1>15, <1>16, <1>17, <1>18, <1>19, <1>20, <1>21, <1>22,
       <1>23, <1>24, <1>25, <1>26, <1>27 DEF Next

\* The invariant holds in every reachable state.
LEMMA InvariantGood == Spec => []IndInv
  <1> QED BY InitGood, NextGood, PTL DEF Spec
-----------------------------------------------------------------------------
\* Every reachable state is one the handlers are defined on.
THEOREM TypeCorrect == Spec => []TypeOK
  <1>1. IndInv => TypeOK BY DEF IndInv, Good, TypeOK
  <1> QED BY <1>1, InvariantGood, PTL

\* However opens, recents, large-file answers and delayed saves interleave,
\* no two tabs are bound to one normalized path (FindIndexByPath).
THEOREM OneBindingPerPath == Spec => []OneTabPerPath
  <1>1. IndInv => OneTabPerPath
    BY DEF IndInv, Good, OneTab, OneTabPerPath, S
  <1> QED BY <1>1, InvariantGood, PTL

\* The large-file decision and the dirty-close prompt never own the workspace
\* at the same time (BeginPrompt, BeginLargeFilePrompt).
THEOREM SeparateDecisions == Spec => []DecisionsDoNotOverlap
  <1>1. IndInv => DecisionsDoNotOverlap
    BY DEF IndInv, Good, NoOverlap, DecisionsDoNotOverlap, S
  <1> QED BY <1>1, InvariantGood, PTL
-----------------------------------------------------------------------------
(***************************************************************************)
(* Theorems about a session in which the spelling card is not opened: what *)
(* the tabs, the cards over them and the files say of each other. The      *)
(* review is left out because it pins the edited document, so that a       *)
(* delayed conflict parts the active tab from it (run CloseAfterReview).   *)
(*                                                                         *)
(* The inductive invariant is Sound, over the record the handlers work on. *)
(* One lemma per handler says that it takes a good and sound state to a    *)
(* sound one (that it is good is shown above).                             *)
(***************************************************************************)

\* Nothing but the application touches its files, and it sees them.
Quiet == "writers" \notin Features /\ "blind" \notin Faults

\* The retained documents are those of the tabs, and the active tab's is the
\* one that is edited. A list of files is opened with no prompt up.
Aligned(s) ==
  /\ s.spell = "closed" /\ ~ s.fault
  /\ DOMAIN s.docs = DOMAIN s.tab
  /\ s.active \in DOMAIN s.tab /\ s.editing = s.active
  /\ s.opening.last \in DOMAIN s.tab \cup {NoDoc}
  /\ s.opening # NoOpening => s.prompt = NoPrompt

\* The file at the tab's path is the one the tab knows.
Matches(s, id) == DestinationMatches(s.disk, s.tab[id].path, s.tab[id].stamp)

Vouched(s) ==
  \A id \in DOMAIN s.tab :
    s.tab[id].path # NoPath /\ Matches(s, id)
    => s.docs[id].saved = s.disk[s.tab[id].path].text

\* The conflict card shows a conflict there is.
Current(s) ==
  s.external # NoExternal =>
    /\ s.external.tab \in DOMAIN s.tab
    /\ s.tab[s.external.tab].path = s.external.path
    /\ "blind" \notin Faults => ~ Matches(s, s.external.tab)

\* Without other writers there are no conflicts, and the prompt names the
\* active tab.
Calm(s) ==
  Quiet =>
    /\ s.external = NoExternal
    /\ \A id \in DOMAIN s.tab : s.tab[id].path # NoPath => Matches(s, id)
    /\ s.prompt # NoPrompt => s.prompt.tab = s.active

\* The document is unmodified, or its contents are among those given up.
Given(s, id, F) == s.docs[id].clean \/ <<id, s.docs[id].text>> \in F

\* What the walk has resolved was given up and is out of a paste's reach,
\* and so was everything when the close was accepted.
Walk(s, F) ==
  /\ s.prompt.kind = "window" =>
       /\ s.prompt.tab \notin s.resolved
       /\ s.paste => s.editing = s.prompt.tab
       /\ \A id \in s.resolved \cap DOMAIN s.docs : Given(s, id, F)
  /\ "AcceptClose" \in ToSet(s.requests) =>
       \A id \in DOMAIN s.docs : Given(s, id, F)

Sound(s, F) ==
  /\ Aligned(s) /\ Vouched(s) /\ Current(s) /\ Calm(s) /\ Walk(s, F)

\* n differs from s in what is shown and in the paste, at most.
SameButShown(s, n) ==
  /\ n.docs = s.docs /\ n.spell = s.spell /\ n.scope = s.scope
  /\ n.fault = s.fault /\ n.disk = s.disk /\ n.strip = s.strip
  /\ n.tab = s.tab /\ n.prompt = s.prompt /\ n.gen = s.gen
  /\ n.resolved = s.resolved /\ n.slot = s.slot /\ n.large = s.large
  /\ n.external = s.external /\ n.requests = s.requests
  /\ n.dialogs = s.dialogs /\ n.opening = s.opening

\* The documents, the files and the conflict card are the same in both.
SameMatter(s, n) ==
  /\ n.docs = s.docs /\ n.tab = s.tab /\ n.disk = s.disk
  /\ n.external = s.external /\ n.spell = s.spell /\ n.fault = s.fault
-----------------------------------------------------------------------------
(* What is shown *)

\* Outside a review Activate shows and edits the tab; another document
\* supersedes the pending paste.
LEMMA ActivateFields ==
  ASSUME NEW s, Good(s), s.spell = "closed", NEW id \in DOMAIN s.docs
  PROVE  LET n == Activate(s, id)
         IN  /\ SameButShown(s, n)
             /\ n.active = id /\ n.editing = id
             /\ n.paste = (s.paste /\ s.editing = id)
  <1>1. CASE id = s.editing
    <2>1. Activate(s, id) = [s EXCEPT !.active = id]
      BY <1>1 DEF Activate, ActivateDocument
    <2> QED BY <1>1, <2>1 DEF SameButShown, Good, IsState, States
  <1>2. CASE id # s.editing
    <2>1. ActivateDocument(s, id) = [s EXCEPT !.editing = id, !.paste = FALSE]
      BY <1>2 DEF ActivateDocument, HasDocument, SpellcheckReviewActive
    <2>2. Activate(s, id) = [[s EXCEPT !.editing = id, !.paste = FALSE]
                               EXCEPT !.active = id]
      BY <2>1 DEF Activate
    <2> QED BY <1>2, <2>2 DEF SameButShown, Good, IsState, States
  <1> QED BY <1>1, <1>2

\* The same for a tab a decision brings to the front.
LEMMA ShowTabFields ==
  ASSUME NEW s, Good(s), s.spell = "closed", DOMAIN s.docs = DOMAIN s.tab,
         s.editing = s.active, NEW id \in DOMAIN s.tab
  PROVE  LET n == ShowTab(s, id)
         IN  /\ SameButShown(s, n)
             /\ n.active = id /\ n.editing = id
             /\ n.paste = (s.paste /\ s.editing = id)
  <1>1. CASE s.active = id
    <2>1. ShowTab(s, id) = s BY <1>1 DEF ShowTab
    <2> QED BY <1>1, <2>1 DEF SameButShown, Good, IsState, States
  <1>2. CASE s.active # id
    <2>1. ShowTab(s, id) = Activate(s, id) BY <1>2 DEF ShowTab, HasTab
    <2> QED BY <2>1, ActivateFields
  <1> QED BY <1>1, <1>2

\* Showing a tab keeps a state sound, if no prompt holds another in front.
LEMMA ShownSound ==
  ASSUME NEW s, NEW n, NEW F, Sound(s, F), NEW id \in DOMAIN s.tab,
         SameButShown(s, n), n.active = id, n.editing = id,
         n.paste = (s.paste /\ s.editing = id),
         Quiet => s.prompt = NoPrompt \/ s.prompt.tab = id
  PROVE  Sound(n, F)
  <1>1. Aligned(n) /\ Vouched(n) BY DEF Sound, SameButShown, Aligned, Vouched, Matches
  <1>2. Current(n) BY DEF Sound, SameButShown, Current, Matches
  <1>3. Calm(n) BY DEF Sound, SameButShown, Calm, Matches
  <1>4. Walk(n, F)
    <2>1. s.editing = s.active BY DEF Sound, Aligned
    <2> QED BY <2>1 DEF Sound, SameButShown, Walk, Given
  <1> QED BY <1>1, <1>2, <1>3, <1>4 DEF Sound

\* Activate, of an open tab.
LEMMA ActivateSound ==
  ASSUME NEW s, Good(s), NEW F, Sound(s, F), NEW id \in DOMAIN s.tab,
         s.prompt = NoPrompt \/ ~ Quiet
  PROVE  Sound(Activate(s, id), F) /\ SameButShown(s, Activate(s, id))
  <1>1. s.spell = "closed" /\ id \in DOMAIN s.docs BY DEF Sound, Aligned
  <1> QED BY <1>1, ActivateFields, ShownSound

\* The decision cards, the queue and the dialogs say nothing of the files.
LEMMA MatterSound ==
  ASSUME NEW s, NEW n, NEW F, Sound(s, F), SameMatter(s, n),
         n.active = s.active, n.editing = s.editing, n.opening = s.opening,
         s.opening # NoOpening => n.prompt = NoPrompt,
         Quiet => n.prompt = NoPrompt \/ n.prompt.tab = s.active,
         Walk(n, F)
  PROVE  Sound(n, F)
  BY DEF Sound, SameMatter, Aligned, Vouched, Matches, Current, Calm
-----------------------------------------------------------------------------
(* Edits *)

\* An edit reaches no document the walk has resolved: no prompt is up, or
\* the edit is a paste, which still belongs to the prompted document.
LEMMA EditTextSound ==
  ASSUME NEW s, Good(s), NEW F, Sound(s, F), NEW text,
         s.prompt = NoPrompt \/ s.paste, s.requests = << >>
  PROVE  Sound(EditText(s, text), F)
  <1> DEFINE n == EditText(s, text)
  <1>1. s.editing \in DOMAIN s.docs /\ s.docs \in [DOMAIN s.docs -> Document]
    BY DEF Sound, Aligned, Good, IsState, States
  <1>2. /\ DOMAIN n.docs = DOMAIN s.docs
        /\ \A id \in DOMAIN s.docs : n.docs[id].saved = s.docs[id].saved
        /\ \A id \in DOMAIN s.docs \ {s.editing} : n.docs[id] = s.docs[id]
    BY <1>1 DEF EditText, Good, IsState, States, Document
  <1>3. /\ n.paste = FALSE /\ n.spell = s.spell /\ n.fault = s.fault
        /\ n.tab = s.tab /\ n.disk = s.disk /\ n.external = s.external
        /\ n.active = s.active /\ n.editing = s.editing
        /\ n.opening = s.opening /\ n.prompt = s.prompt
        /\ n.resolved = s.resolved /\ n.requests = s.requests
    BY DEF EditText, Good, IsState, States
  <1> HIDE DEF n
  <1>4. Aligned(n) /\ Vouched(n) /\ Current(n) /\ Calm(n)
    BY <1>1, <1>2, <1>3
    DEF Sound, Aligned, Vouched, Matches, Current, Calm
  <1>5. Walk(n, F)
    <2>1. s.prompt.kind = "window" => s.editing = s.prompt.tab
      BY DEF Sound, Walk, NoPrompt
    <2>2. s.prompt.kind = "window" => s.editing \notin s.resolved
      BY <2>1 DEF Sound, Walk
    <2>3. ToSet(n.requests) = {} BY <1>3 DEF ToSet
    <2> QED BY <1>2, <1>3, <2>2, <2>3 DEF Sound, Walk, Given
  <1> QED BY <1>4, <1>5 DEF Sound, n

\* The clipboard's answer.
LEMMA HandleClipboardResultSound ==
  ASSUME NEW s, Good(s), NEW F, Sound(s, F), NEW text, s.requests = << >>
  PROVE  Sound(HandleClipboardResult(s, text), F)
  BY EditTextSound DEF HandleClipboardResult

\* An undo ends at the save point, where nothing is to be given up.
LEMMA UndoToSavePointSound ==
  ASSUME NEW s, Good(s), NEW F, Sound(s, F)
  PROVE  Sound(UndoToSavePoint(s), F)
  <1> DEFINE n == UndoToSavePoint(s)
  <1>1. s.editing \in DOMAIN s.docs /\ s.docs \in [DOMAIN s.docs -> Document]
    BY DEF Sound, Aligned, Good, IsState, States
  <1>2. /\ DOMAIN n.docs = DOMAIN s.docs
        /\ \A id \in DOMAIN s.docs : n.docs[id].saved = s.docs[id].saved
        /\ \A id \in DOMAIN s.docs \ {s.editing} : n.docs[id] = s.docs[id]
        /\ n.docs[s.editing].clean
    BY <1>1 DEF UndoToSavePoint, AtSavePoint, Good, IsState, States, Document
  <1>3. /\ n.paste = FALSE /\ n.spell = s.spell /\ n.fault = s.fault
        /\ n.tab = s.tab /\ n.disk = s.disk /\ n.external = s.external
        /\ n.active = s.active /\ n.editing = s.editing
        /\ n.opening = s.opening /\ n.prompt = s.prompt
        /\ n.resolved = s.resolved /\ n.requests = s.requests
    BY DEF UndoToSavePoint, Good, IsState, States
  <1> HIDE DEF n
  <1>4. Aligned(n) /\ Vouched(n) /\ Current(n) /\ Calm(n)
    BY <1>1, <1>2, <1>3
    DEF Sound, Aligned, Vouched, Matches, Current, Calm
  <1>5. Walk(n, F) BY <1>1, <1>2, <1>3 DEF Sound, Walk, Given
  <1> QED BY <1>4, <1>5 DEF Sound, n

\* A paste is asked for when no prompt is up.
LEMMA RequestClipboardPasteSound ==
  ASSUME NEW s, Good(s), NEW F, Sound(s, F), s.prompt = NoPrompt
  PROVE  Sound(RequestClipboardPaste(s), F)
  <1> DEFINE n == RequestClipboardPaste(s)
  <1>1. SameMatter(s, n) /\ n.active = s.active /\ n.editing = s.editing
        /\ n.opening = s.opening /\ n.prompt = NoPrompt
        /\ n.resolved = s.resolved /\ n.requests = s.requests
    BY DEF RequestClipboardPaste, SameMatter, Good, IsState, States
  <1> HIDE DEF n
  <1>2. Walk(n, F)
    BY <1>1 DEF Sound, Walk, Given, SameMatter, NoPrompt
  <1> QED BY <1>1, <1>2, MatterSound DEF n
-----------------------------------------------------------------------------
(* The queue and the dirty-close prompt *)

\* What is queued is what was queued before and the new request.
LEMMA QueueElements ==
  ASSUME NEW s, Good(s), NEW request \in Request
  PROVE  ToSet(Queue(s, request).requests) = ToSet(s.requests) \cup {request}
  <1> DEFINE q == s.requests
             e == Append(q, request)
  <1>1. q \in Seq(Request) BY DEF Good, IsState, States
  <1>2. Queue(s, request).requests = e BY DEF Queue, Good, IsState, States
  <1> HIDE DEF q
  <1>3. /\ Len(e) = Len(q) + 1 /\ e \in Seq(Request)
        /\ \A i \in 1 .. Len(q) : e[i] = q[i]
        /\ e[Len(q) + 1] = request
    BY <1>1, AppendProperties
  <1>4. DOMAIN q = 1 .. Len(q) /\ DOMAIN e = 1 .. Len(q) + 1
        /\ Len(q) \in Nat
    BY <1>1, <1>3, LenProperties
  <1> HIDE DEF e
  <1>5. ToSet(e) = ToSet(q) \cup {request} BY <1>3, <1>4 DEF ToSet
  <1> QED BY <1>2, <1>5 DEF q

\* A request changes nothing, but an accepted close needs everything agreed.
LEMMA QueueSound ==
  ASSUME NEW s, Good(s), NEW F, Sound(s, F), NEW request \in Request,
         request = "AcceptClose" => \A id \in DOMAIN s.docs : Given(s, id, F)
  PROVE  Sound(Queue(s, request), F)
  <1> DEFINE n == Queue(s, request)
  <1>1. SameMatter(s, n) /\ n.active = s.active /\ n.editing = s.editing
        /\ n.opening = s.opening /\ n.prompt = s.prompt
        /\ n.resolved = s.resolved /\ n.paste = s.paste
    BY DEF Queue, SameMatter, Good, IsState, States
  <1>2. ToSet(n.requests) = ToSet(s.requests) \cup {request}
    BY QueueElements
  <1> HIDE DEF n
  <1>3. Walk(n, F) BY <1>1, <1>2 DEF Sound, Walk, Given, SameMatter
  <1>4. /\ s.opening # NoOpening => n.prompt = NoPrompt
        /\ Quiet => n.prompt = NoPrompt \/ n.prompt.tab = s.active
    BY <1>1 DEF Sound, Aligned, Calm
  <1> QED BY <1>1, <1>3, <1>4, MatterSound DEF n

\* BeginPrompt brings the tab it asks about to the front. A walk asks about
\* a document it has not resolved.
LEMMA BeginPromptSound ==
  ASSUME NEW s, Good(s), NEW F, Sound(s, F), GenRoom(s),
         s.opening = NoOpening, NEW id \in DOMAIN s.tab,
         NEW kind \in {"tab", "window"},
         kind = "window" =>
           /\ id \notin s.resolved
           /\ \A r \in s.resolved \cap DOMAIN s.docs : Given(s, r, F)
  PROVE  Sound(BeginPrompt(s, kind, id), F)
  <1> DEFINE m == [s EXCEPT !.prompt = [kind |-> kind, tab |-> id,
                                        awaiting |-> FALSE],
                            !.gen    = FreshGen(s)]
             n == ShowTab(m, id)
  <1>1. CASE BeginPrompt(s, kind, id) = s BY <1>1
  <1>2. CASE BeginPrompt(s, kind, id) = n /\ s.large = NoLarge
    <2>1. Good(m)
      <3>1. FreshGen(s) \in GenRef BY FreshIdentity DEF GenRef
      <3>2. id \in TabRef BY DEF Good, IsState, TabRef
      <3> QED
        BY <1>2, <3>1, <3>2
        DEF Good, IsState, States, StripIsTabs, TabsHaveDocuments, OneTab,
            NoOverlap, Pending, Prompt
    <2>2. /\ SameMatter(s, m) /\ m.active = s.active /\ m.editing = s.editing
          /\ m.opening = s.opening /\ m.resolved = s.resolved
          /\ m.requests = s.requests /\ m.paste = s.paste
          /\ m.prompt.kind = kind /\ m.prompt.tab = id
      BY DEF SameMatter, Good, IsState, States
    <2> HIDE DEF m
    <2>3. /\ SameButShown(m, n) /\ n.active = id /\ n.editing = id
          /\ n.paste = (m.paste /\ m.editing = id)
      BY <2>1, <2>2, ShowTabFields DEF Sound, Aligned, SameMatter
    <2> HIDE DEF n
    <2>4. Aligned(n) /\ Vouched(n) /\ Current(n) /\ Calm(n)
      BY <2>2, <2>3
      DEF Sound, SameMatter, SameButShown, Aligned, Vouched, Matches, Current,
          Calm
    <2>5. Walk(n, F)
      BY <2>2, <2>3 DEF Sound, SameMatter, SameButShown, Walk, Given
    <2> QED BY <1>2, <2>4, <2>5 DEF Sound
  <1> QED BY <1>1, <1>2 DEF BeginPrompt
\* The prompt comes down.
LEMMA NoPromptSound ==
  ASSUME NEW s, Good(s), NEW F, Sound(s, F)
  PROVE  LET n == [s EXCEPT !.prompt = NoPrompt]
         IN  /\ Sound(n, F) /\ SameMatter(s, n) /\ n.prompt = NoPrompt
             /\ n.active = s.active /\ n.editing = s.editing
             /\ n.opening = s.opening /\ n.resolved = s.resolved
             /\ n.requests = s.requests /\ n.strip = s.strip
             /\ n.large = s.large
  <1> DEFINE n == [s EXCEPT !.prompt = NoPrompt]
  <1>1. /\ SameMatter(s, n) /\ n.prompt = NoPrompt
        /\ n.active = s.active /\ n.editing = s.editing
        /\ n.opening = s.opening /\ n.resolved = s.resolved
        /\ n.requests = s.requests /\ n.strip = s.strip /\ n.large = s.large
    BY DEF SameMatter, Good, IsState, States
  <1> HIDE DEF n
  <1>2. Walk(n, F) BY <1>1 DEF Sound, Walk, Given, SameMatter, NoPrompt
  <1>3. Sound(n, F) BY <1>1, <1>2, MatterSound
  <1> QED BY <1>1, <1>3 DEF n

\* The walk is forgotten.
LEMMA ClearDirtyCloseStateSound ==
  ASSUME NEW s, Good(s), NEW F, Sound(s, F)
  PROVE  LET n == ClearDirtyCloseState(s)
         IN  /\ Sound(n, F) /\ SameMatter(s, n) /\ n.prompt = s.prompt
             /\ n.opening = s.opening /\ n.strip = s.strip
  <1> DEFINE n == ClearDirtyCloseState(s)
  <1>1. /\ SameMatter(s, n) /\ n.prompt = s.prompt
        /\ n.active = s.active /\ n.editing = s.editing
        /\ n.opening = s.opening /\ n.resolved = {} /\ n.paste = s.paste
        /\ n.requests = s.requests /\ n.strip = s.strip
    BY DEF ClearDirtyCloseState, SameMatter, Good, IsState, States
  <1> HIDE DEF n
  <1>2. Walk(n, F) BY <1>1 DEF Sound, Walk, Given, SameMatter
  <1>3. /\ s.opening # NoOpening => n.prompt = NoPrompt
        /\ Quiet => n.prompt = NoPrompt \/ n.prompt.tab = s.active
    BY <1>1 DEF Sound, Aligned, Calm
  <1>4. Sound(n, F) BY <1>1, <1>2, <1>3, MatterSound
  <1> QED BY <1>1, <1>4 DEF n

\* Cancel on the dirty-close card.
LEMMA DismissPromptSound ==
  ASSUME NEW s, Good(s), NEW F, Sound(s, F)
  PROVE  Sound(DismissPrompt(s), F)
  BY NoPromptGood, NoPromptSound, ClearDirtyCloseStateSound DEF DismissPrompt

\* Whether the prompt waits for a Save As, and for which intent.
LEMMA AwaitingSound ==
  ASSUME NEW s, Good(s), NEW F, Sound(s, F), s.prompt # NoPrompt, NEW b
  PROVE  Sound([s EXCEPT !.prompt.awaiting = b], F)
  <1> DEFINE p == [s.prompt EXCEPT !.awaiting = b]
             n == [s EXCEPT !.prompt = p]
  <1>1. p.kind = s.prompt.kind /\ p.tab = s.prompt.tab
    BY DEF Good, IsState, States, Prompt
  <1> HIDE DEF p
  <1>2. /\ SameMatter(s, n) /\ n.prompt = p
        /\ n.active = s.active /\ n.editing = s.editing
        /\ n.opening = s.opening /\ n.resolved = s.resolved
        /\ n.requests = s.requests /\ n.paste = s.paste
    BY DEF SameMatter, Good, IsState, States
  <1> HIDE DEF n
  <1>3. Walk(n, F) BY <1>1, <1>2 DEF Sound, Walk, Given, SameMatter
  <1>4. /\ s.opening = NoOpening
        /\ Quiet => n.prompt.tab = s.active
    BY <1>1, <1>2 DEF Sound, Aligned, Calm
  <1>5. Sound(n, F) BY <1>2, <1>3, <1>4, MatterSound
  <1> QED BY <1>5 DEF n, p

\* A Save As intent and its request.
LEMMA SlotSound ==
  ASSUME NEW s, Good(s), NEW F, Sound(s, F), NEW slotN \in SaveAsIntent
  PROVE  Sound(Queue([s EXCEPT !.slot = slotN], "ShowSaveAs"), F)
  <1> DEFINE n == [s EXCEPT !.slot = slotN]
  <1>1. Good(n)
    BY DEF Good, IsState, States, StripIsTabs, TabsHaveDocuments, OneTab,
           NoOverlap, Pending
  <1>2. /\ SameMatter(s, n) /\ n.prompt = s.prompt
        /\ n.active = s.active /\ n.editing = s.editing
        /\ n.opening = s.opening /\ n.resolved = s.resolved
        /\ n.requests = s.requests /\ n.paste = s.paste
    BY DEF SameMatter, Good, IsState, States
  <1> HIDE DEF n
  <1>3. Walk(n, F) BY <1>2 DEF Sound, Walk, Given, SameMatter
  <1>4. /\ s.opening # NoOpening => n.prompt = NoPrompt
        /\ Quiet => n.prompt = NoPrompt \/ n.prompt.tab = s.active
    BY <1>2 DEF Sound, Aligned, Calm
  <1>5. Sound(n, F) BY <1>2, <1>3, <1>4, MatterSound
  <1>6. "ShowSaveAs" \in Request /\ "ShowSaveAs" # "AcceptClose"
    BY DEF Request
  <1>7. Sound(Queue(n, "ShowSaveAs"), F) BY <1>1, <1>5, <1>6, QueueSound
  <1> QED BY <1>7 DEF n

\* QueueShowSaveAs, with or without a prompt.
LEMMA QueueShowSaveAsSound ==
  ASSUME NEW s, Good(s), NEW F, Sound(s, F)
  PROVE  Sound(QueueShowSaveAs(s), F)
  <1> DEFINE slotN ==
        [tab |-> IF s.prompt # NoPrompt THEN s.prompt.tab ELSE s.active,
         gen |-> IF s.prompt.awaiting THEN s.gen ELSE NoGen]
  <1>1. /\ s.prompt.tab \in TabRef /\ s.active \in TabRef
        /\ s.gen \in GenRef /\ NoGen \in GenRef
    BY DEF Good, IsState, States, Prompt, TabRef, GenRef
  <1>2. slotN \in SaveAsIntent BY <1>1 DEF SaveAsIntent
  <1> HIDE DEF slotN
  <1>3. Sound(Queue([s EXCEPT !.slot = slotN], "ShowSaveAs"), F)
    BY <1>2, SlotSound
  <1> QED BY <1>3 DEF slotN, QueueShowSaveAs

\* Save on the card of an untitled tab.
LEMMA AwaitSaveAsSound ==
  ASSUME NEW s, Good(s), NEW F, Sound(s, F), s.prompt # NoPrompt
  PROVE  Sound(AwaitSaveAs(s), F)
  BY AwaitingGood, AwaitingSound, QueueShowSaveAsSound DEF AwaitSaveAs

\* The card takes answers again.
LEMMA NotifySaveIncompleteSound ==
  ASSUME NEW s, Good(s), NEW F, Sound(s, F), s.prompt # NoPrompt
  PROVE  Sound(NotifySaveIncomplete(s), F)
  BY AwaitingSound DEF NotifySaveIncomplete
-----------------------------------------------------------------------------
(* Closing *)

\* What RemoveTab shows instead of the closed tab is another open tab.
LEMMA NeighbourOpen ==
  ASSUME NEW s, Good(s), NEW id \in DOMAIN s.tab, Len(s.strip) # 1
  PROVE  LET i == IndexOf(s, id)
         IN  s.strip[IF i < Len(s.strip) THEN i + 1 ELSE i - 1]
               \in DOMAIN s.tab \ {id}
  <1> DEFINE i == IndexOf(s, id)
             j == IF i < Len(s.strip) THEN i + 1 ELSE i - 1
  <1>1. s.strip \in Seq(DocIds) BY DEF Good, IsState, States
  <1>2. Len(s.strip) \in Nat /\ DOMAIN s.strip = 1 .. Len(s.strip)
    BY <1>1, LenProperties
  <1>3. i \in 1 .. Len(s.strip) /\ s.strip[i] = id BY <1>2, IndexOfTab
  <1> HIDE DEF i
  <1>4. j \in 1 .. Len(s.strip) /\ j # i
    <2>1. \A n \in Nat : \A k \in 1 .. n :
            n # 1 => /\ (IF k < n THEN k + 1 ELSE k - 1) \in 1 .. n
                     /\ (IF k < n THEN k + 1 ELSE k - 1) # k
      OBVIOUS
    <2> QED BY <1>2, <1>3, <2>1
  <1> HIDE DEF j
  <1>5. s.strip[j] # id
    BY <1>2, <1>3, <1>4 DEF Good, StripIsTabs, IsInjective
  <1>6. s.strip[j] \in DOMAIN s.tab
    BY <1>2, <1>4 DEF Good, StripIsTabs, ToSet
  <1> QED BY <1>5, <1>6 DEF i, j

\* A document that is not edited is closed with its tab.
LEMMA ForgetClosedFields ==
  ASSUME NEW s, IsState(s), NEW id \in DOMAIN s.docs, id # s.editing
  PROVE  LET n == ForgetTab(CloseDocument(s, id), id)
         IN  /\ n.docs = [d \in DOMAIN s.docs \ {id} |-> s.docs[d]]
             /\ n.tab = [t \in DOMAIN s.tab \ {id} |-> s.tab[t]]
             /\ n.disk = s.disk /\ n.external = s.external
             /\ n.spell = s.spell /\ n.fault = s.fault
             /\ n.active = s.active /\ n.editing = s.editing
             /\ n.paste = s.paste /\ n.opening = s.opening
             /\ n.prompt = s.prompt /\ n.resolved = s.resolved
             /\ n.requests = s.requests /\ n.dialogs = s.dialogs
             /\ DOMAIN n = DOMAIN s
  <1> DEFINE docsN == [d \in DOMAIN s.docs \ {id} |-> s.docs[d]]
             m    == [s EXCEPT !.docs = docsN]
  <1>1. CloseDocument(s, id) = m BY DEF CloseDocument, HasDocument
  <1>2. m.docs = docsN /\ m.tab = s.tab /\ m.disk = s.disk
        /\ m.external = s.external /\ m.spell = s.spell /\ m.fault = s.fault
        /\ m.active = s.active /\ m.editing = s.editing
        /\ m.paste = s.paste /\ m.opening = s.opening
        /\ m.prompt = s.prompt /\ m.resolved = s.resolved
        /\ m.requests = s.requests /\ m.dialogs = s.dialogs
        /\ DOMAIN m = DOMAIN s
        /\ \E f : m = [s EXCEPT !.docs = f]
    BY DEF IsState, States
  <1> HIDE DEF m
  <1> DEFINE stripN == RemoveAt(m.strip, IndexOf(m, id))
             tabN   == [t \in DOMAIN s.tab \ {id} |-> s.tab[t]]
             n     == [m EXCEPT !.strip = stripN, !.tab = tabN]
  <1>3. ForgetTab(m, id) = n BY <1>2 DEF ForgetTab
  <1>4. /\ n.docs = m.docs /\ n.tab = tabN /\ n.disk = m.disk
        /\ n.external = m.external /\ n.spell = m.spell /\ n.fault = m.fault
        /\ n.active = m.active /\ n.editing = m.editing
        /\ n.paste = m.paste /\ n.opening = m.opening
        /\ n.prompt = m.prompt /\ n.resolved = m.resolved
        /\ n.requests = m.requests /\ n.dialogs = m.dialogs
        /\ DOMAIN n = DOMAIN m
    <2> HIDE DEF stripN, tabN
    <2> QED BY <1>2 DEF IsState, States
  <1> HIDE DEF n
  <1> QED BY <1>1, <1>2, <1>3, <1>4

\* One more document is retained, empty and unmodified.
LEMMA CreateFields ==
  ASSUME NEW s, IsState(s), NEW id
  PROVE  LET n == CreateDocument(s, id)
         IN  /\ DOMAIN n.docs = DOMAIN s.docs \cup {id}
             /\ n.docs[id] = AtSavePoint(Empty)
             /\ \A d \in DOMAIN s.docs \ {id} : n.docs[d] = s.docs[d]
             /\ n.tab = s.tab /\ n.disk = s.disk
             /\ n.external = s.external /\ n.spell = s.spell
             /\ n.fault = s.fault /\ n.active = s.active
             /\ n.editing = s.editing /\ n.paste = s.paste
             /\ n.opening = s.opening /\ n.prompt = s.prompt
             /\ n.resolved = s.resolved /\ n.requests = s.requests
             /\ n.dialogs = s.dialogs
  <1> DEFINE docsN == [d \in DOMAIN s.docs \cup {id} |->
                        IF d = id THEN AtSavePoint(Empty) ELSE s.docs[d]]
             n    == [s EXCEPT !.docs = docsN]
  <1>1. /\ DOMAIN docsN = DOMAIN s.docs \cup {id}
        /\ docsN[id] = AtSavePoint(Empty)
        /\ \A d \in DOMAIN s.docs \ {id} : docsN[d] = s.docs[d]
    OBVIOUS
  <1>2. CreateDocument(s, id) = n BY DEF CreateDocument
  <1> HIDE DEF docsN
  <1>3. /\ n.docs = docsN /\ n.tab = s.tab /\ n.disk = s.disk
        /\ n.external = s.external /\ n.spell = s.spell
        /\ n.fault = s.fault /\ n.active = s.active
        /\ n.editing = s.editing /\ n.paste = s.paste
        /\ n.opening = s.opening /\ n.prompt = s.prompt
        /\ n.resolved = s.resolved /\ n.requests = s.requests
        /\ n.dialogs = s.dialogs
    BY DEF IsState, States
  <1> HIDE DEF n
  <1> QED BY <1>1, <1>2, <1>3

\* A tab that neither a prompt nor a conflict names goes with its document;
\* the others keep theirs.
LEMMA RemoveTabSound ==
  ASSUME NEW s, Good(s), NEW F, Sound(s, F), DocRoom(s),
         s.opening = NoOpening, NEW id \in DOMAIN s.tab,
         s.prompt = NoPrompt, s.external # NoExternal => s.external.tab # id
  PROVE  Sound(RemoveTab(s, id), F)
  <1> DEFINE fresh == FreshDoc(s)
             m == CreateDocument(s, fresh)
             created == Activate(m, fresh)
             gone == ForgetTab(CloseDocument(created, id), id)
             new == AppendTab(gone, fresh, Untitled)
             i == IndexOf(s, id)
             next == s.strip[IF i < Len(s.strip) THEN i + 1 ELSE i - 1]
             base == IF id = s.active THEN Activate(s, next) ELSE s
             left == ForgetTab(CloseDocument(base, id), id)
             n == [left EXCEPT !.active = left.editing]
  <1>1. fresh \in DocIds /\ fresh \notin DOMAIN s.docs
    BY FreshIdentity DEF LiveDocs
  <1>2. id \in DOMAIN s.docs /\ s.editing \in DOMAIN s.docs /\ fresh # id
    BY <1>1 DEF Sound, Aligned
  <1> HIDE DEF fresh
  <1>3. CASE Len(s.strip) = 1
    <2>1. Good(m) BY <1>1, CreateDocumentGood
    <2>2. /\ DOMAIN m.docs = DOMAIN s.docs \cup {fresh}
          /\ m.docs[fresh] = AtSavePoint(Empty)
          /\ \A d \in DOMAIN s.docs \ {fresh} : m.docs[d] = s.docs[d]
          /\ m.tab = s.tab /\ m.disk = s.disk /\ m.external = s.external
          /\ m.spell = s.spell /\ m.fault = s.fault /\ m.opening = s.opening
          /\ m.prompt = s.prompt /\ m.resolved = s.resolved
          /\ m.requests = s.requests
      BY CreateFields DEF Good
    <2> HIDE DEF m
    <2>3. /\ SameButShown(m, created) /\ created.active = fresh
          /\ created.editing = fresh /\ IsState(created)
      <3>1. m.spell = "closed" BY <2>2 DEF Sound, Aligned
      <3> QED BY <1>1, <2>1, <2>2, <3>1, ActivateFields, ActivateGood DEF Good
    <2> HIDE DEF created
    <2>4. id \in DOMAIN created.docs
      BY <1>2, <2>2, <2>3 DEF SameButShown
    <2>4a. /\ gone.docs = [d \in DOMAIN created.docs \ {id} |-> created.docs[d]]
           /\ gone.tab = [t \in DOMAIN created.tab \ {id} |-> created.tab[t]]
           /\ gone.disk = created.disk /\ gone.external = created.external
           /\ gone.spell = created.spell /\ gone.fault = created.fault
           /\ gone.active = fresh /\ gone.editing = fresh
           /\ gone.opening = created.opening
           /\ gone.prompt = created.prompt
           /\ gone.resolved = created.resolved
           /\ gone.requests = created.requests /\ DOMAIN gone = DOMAIN created
      BY <1>2, <2>3, <2>4, ForgetClosedFields
    <2> HIDE DEF gone
    <2>4b. /\ gone.disk = s.disk /\ gone.external = s.external
           /\ gone.spell = s.spell /\ gone.fault = s.fault
           /\ gone.active = fresh /\ gone.editing = fresh
           /\ gone.opening = s.opening
           /\ gone.prompt = s.prompt
           /\ gone.resolved = s.resolved
           /\ gone.requests = s.requests
      BY <2>2, <2>3, <2>4a DEF SameButShown
    <2>5. /\ DOMAIN gone.docs = (DOMAIN s.docs \cup {fresh}) \ {id}
          /\ gone.docs[fresh] = AtSavePoint(Empty)
          /\ \A d \in DOMAIN s.docs \ {id} : gone.docs[d] = s.docs[d]
      <3>1. /\ DOMAIN gone.docs = DOMAIN created.docs \ {id}
            /\ \A d \in DOMAIN created.docs \ {id} :
                 gone.docs[d] = created.docs[d]
        BY <2>4a
      <3> QED BY <1>1, <1>2, <2>2, <2>3, <3>1 DEF SameButShown
    <2>6. /\ DOMAIN gone.tab = DOMAIN s.tab \ {id}
          /\ \A t \in DOMAIN gone.tab : gone.tab[t] = s.tab[t]
      <3>1. /\ DOMAIN gone.tab = DOMAIN created.tab \ {id}
            /\ \A t \in DOMAIN created.tab \ {id} :
                 gone.tab[t] = created.tab[t]
        BY <2>4a
      <3> QED BY <2>2, <2>3, <3>1 DEF SameButShown
    <2> DEFINE tabN == [t \in DOMAIN gone.tab \cup {fresh} |->
                         IF t = fresh THEN Untitled ELSE gone.tab[t]]
    <2>8. /\ new.docs = gone.docs /\ new.tab = tabN
          /\ new.disk = gone.disk /\ new.external = gone.external
          /\ new.spell = gone.spell /\ new.fault = gone.fault
          /\ new.active = gone.active /\ new.editing = gone.editing
          /\ new.opening = gone.opening
          /\ new.prompt = gone.prompt /\ new.resolved = gone.resolved
          /\ new.requests = gone.requests
      <3>1. DOMAIN gone = DOMAIN created BY <2>4a
      <3> QED BY <2>3, <3>1 DEF AppendTab, IsState, States, tabN
    <2>9. /\ DOMAIN new.tab = DOMAIN gone.tab \cup {fresh}
          /\ new.tab[fresh] = Untitled
          /\ \A t \in DOMAIN gone.tab \ {fresh} : new.tab[t] = gone.tab[t]
      BY <2>8
    <2> HIDE DEF tabN, new
    <2>10. fresh \notin DOMAIN gone.tab
      BY <1>1, <2>6 DEF Sound, Aligned
    <2>10a. /\ DOMAIN new.docs = (DOMAIN s.docs \cup {fresh}) \ {id}
            /\ new.docs[fresh] = AtSavePoint(Empty)
            /\ \A d \in DOMAIN s.docs \ {id} : new.docs[d] = s.docs[d]
            /\ DOMAIN new.tab = (DOMAIN s.tab \ {id}) \cup {fresh}
            /\ new.tab[fresh] = Untitled
            /\ \A t \in DOMAIN s.tab \ {id} : new.tab[t] = s.tab[t]
            /\ new.disk = s.disk /\ new.external = s.external
            /\ new.spell = s.spell /\ new.fault = s.fault
            /\ new.active = fresh /\ new.editing = fresh
            /\ new.opening = s.opening
            /\ new.prompt = s.prompt
            /\ new.resolved = s.resolved
            /\ new.requests = s.requests
      BY <2>4b, <2>5, <2>6, <2>8, <2>9, <2>10
    <2>11. Aligned(new)
      BY <1>1, <1>2, <2>10a DEF Sound, Aligned, NoOpening
    <2>12. Vouched(new)
      <3>1. \A t \in DOMAIN s.tab \ {id} :
              Matches(new, t) = Matches(s, t)
        BY <2>10a DEF Matches
      <3> QED
        BY <2>10a, <3>1 DEF Sound, Aligned, Vouched, Untitled
    <2>13. Current(new)
      BY <2>10a DEF Sound, Current, Matches
    <2>14. Calm(new)
      BY <2>10a DEF Sound, Calm, Matches, Untitled
    <2>15. Walk(new, F)
      BY <2>10a DEF Sound, Walk, Given, NoPrompt, AtSavePoint
    <2> QED
      BY <1>3, <2>11, <2>12, <2>13, <2>14, <2>15
      DEF Sound, RemoveTab, new, gone, created, m, fresh
  <1>4. CASE Len(s.strip) # 1
    <2>1. next \in DOMAIN s.tab \ {id} BY <1>4, NeighbourOpen
    <2> HIDE DEF next
    <2>2. Good(base) /\ Sound(base, F) /\ SameButShown(s, base)
          /\ base.editing # id
      <3>1. CASE id = s.active
        <4>1. next \in DocIds /\ next \in DOMAIN s.docs /\ s.spell = "closed"
          BY <2>1 DEF Sound, Aligned, Good, IsState
        <4>2. base = Activate(s, next) BY <3>1
        <4>3. base.editing = next BY <4>1, <4>2, ActivateFields
        <4> QED BY <2>1, <4>1, <4>2, <4>3, ActivateGood, ActivateSound
      <3>2. CASE id # s.active
        <4>1. base = s BY <3>2
        <4> QED BY <3>2, <4>1 DEF SameButShown, Sound, Aligned
      <3> QED BY <3>1, <3>2
    <2> HIDE DEF base
    <2>3. /\ left.docs = [d \in DOMAIN base.docs \ {id} |-> base.docs[d]]
          /\ left.tab = [t \in DOMAIN base.tab \ {id} |-> base.tab[t]]
          /\ left.disk = base.disk /\ left.external = base.external
          /\ left.spell = base.spell /\ left.fault = base.fault
          /\ left.active = base.active /\ left.editing = base.editing
          /\ left.paste = base.paste /\ left.opening = base.opening
          /\ left.prompt = base.prompt /\ left.resolved = base.resolved
          /\ left.requests = base.requests /\ DOMAIN left = DOMAIN base
      BY <1>2, <2>2, ForgetClosedFields DEF SameButShown, Good
    <2> HIDE DEF left
    <2>4. /\ n.docs = left.docs /\ n.tab = left.tab
          /\ n.disk = left.disk /\ n.external = left.external
          /\ n.spell = left.spell /\ n.fault = left.fault
          /\ n.active = left.editing /\ n.editing = left.editing
          /\ n.paste = left.paste /\ n.opening = left.opening
          /\ n.prompt = left.prompt /\ n.resolved = left.resolved
          /\ n.requests = left.requests
      BY <2>2, <2>3 DEF Good, IsState, States
    <2> HIDE DEF n
    <2>5. n.active = base.active BY <2>2, <2>3, <2>4 DEF Sound, Aligned
    <2>6. /\ DOMAIN n.docs = DOMAIN base.docs \ {id}
          /\ \A d \in DOMAIN n.docs : n.docs[d] = base.docs[d]
          /\ DOMAIN n.tab = DOMAIN base.tab \ {id}
          /\ \A t \in DOMAIN n.tab : n.tab[t] = base.tab[t]
      BY <2>3, <2>4
    <2>6a. /\ n.disk = base.disk /\ n.external = base.external
           /\ n.spell = base.spell /\ n.fault = base.fault
           /\ n.editing = base.editing
           /\ n.paste = base.paste /\ n.opening = base.opening
           /\ n.prompt = base.prompt /\ n.resolved = base.resolved
           /\ n.requests = base.requests
      BY <2>3, <2>4
    <2>7. Aligned(n)
      BY <2>2, <2>5, <2>6, <2>6a
      DEF Sound, Aligned, NoOpening, SameButShown
    <2>8. Vouched(n)
      <3>1. \A t \in DOMAIN n.tab : Matches(n, t) = Matches(base, t)
        BY <2>6, <2>6a DEF Matches
      <3> QED BY <2>2, <2>6, <2>6a, <3>1 DEF Sound, Aligned, Vouched
    <2>9. Current(n)
      BY <2>2, <2>6, <2>6a
      DEF Sound, Current, Matches, SameButShown
    <2>10. Calm(n)
      BY <2>2, <2>5, <2>6, <2>6a DEF Sound, Calm, Matches
    <2>11. Walk(n, F)
      BY <2>2, <2>6, <2>6a DEF Sound, Walk, Given
    <2> QED
      BY <1>4, <2>7, <2>8, <2>9, <2>10, <2>11
      DEF Sound, RemoveTab, n, left, base, next
  <1> QED BY <1>3, <1>4

\* A walk that has nobody left to ask about: what it did not resolve is clean.
LEMMA NothingUnresolved ==
  ASSUME NEW s, Good(s), NEW F, Sound(s, F), UnresolvedDirty(s) = {},
         NEW d \in DOMAIN s.docs, d \notin s.resolved
  PROVE  s.docs[d].clean
  <1>1. d \in ToSet(s.strip) BY DEF Sound, Aligned, Good, StripIsTabs
  <1>2. PICK i \in DOMAIN s.strip : s.strip[i] = d BY <1>1 DEF ToSet
  <1>3. i \notin UnresolvedDirty(s) OBVIOUS
  <1> QED BY <1>2, <1>3 DEF UnresolvedDirty, Modified

\* The walk asks about an unresolved document, or accepts the close when
\* nothing is left that the user did not agree to lose.
LEMMA AdvanceOrAcceptWindowCloseSound ==
  ASSUME NEW s, Good(s), NEW F, Sound(s, F), GenRoom(s),
         s.opening = NoOpening, s.prompt = NoPrompt,
         \A r \in s.resolved \cap DOMAIN s.docs : Given(s, r, F)
  PROVE  Sound(AdvanceOrAcceptWindowClose(s), F)
  <1> DEFINE m  == [s EXCEPT !.gen = NoGen]
             id == NextWindowCloseDirty(s)
  <1>1. Good(m)
    BY DEF Good, IsState, States, StripIsTabs, TabsHaveDocuments, OneTab,
           NoOverlap, Pending, GenRef
  <1>2. /\ SameMatter(s, m) /\ m.prompt = s.prompt
        /\ m.active = s.active /\ m.editing = s.editing
        /\ m.opening = s.opening /\ m.resolved = s.resolved
        /\ m.requests = s.requests /\ m.paste = s.paste
    BY DEF SameMatter, Good, IsState, States
  <1>3. Keeps(s, m) BY DEF Good, IsState, States, Keeps, LiveDocs, LiveGens
  <1> HIDE DEF m
  <1>4. Walk(m, F) BY <1>2 DEF Sound, Walk, Given, SameMatter
  <1>5. Sound(m, F) BY <1>2, <1>4, MatterSound
  <1>6. GenRoom(m) BY <1>3, KeepsRoom
  <1>7. CASE UnresolvedDirty(s) # {}
    <2>1. id \in DOMAIN m.tab \ m.resolved
      BY <1>2, <1>7, NextWindowCloseDirtyOpen DEF SameMatter
    <2>2. \A r \in m.resolved \cap DOMAIN m.docs : Given(m, r, F)
      BY <1>2 DEF SameMatter, Given
    <2> HIDE DEF id
    <2>3. Sound(BeginPrompt(m, "window", id), F)
      BY <1>1, <1>2, <1>5, <1>6, <2>1, <2>2, BeginPromptSound
    <2> QED BY <1>7, <2>3 DEF m, id, AdvanceOrAcceptWindowClose
  <1>8. CASE UnresolvedDirty(s) = {}
    <2> DEFINE c == ClearDirtyCloseState(s)
    <2>1. Good(c) /\ Sound(c, F) /\ SameMatter(s, c)
      BY ClearDirtyCloseStateGood, ClearDirtyCloseStateSound
    <2>2. \A d \in DOMAIN s.docs : Given(s, d, F)
      BY <1>8, NothingUnresolved DEF Given
    <2>3. \A d \in DOMAIN c.docs : Given(c, d, F)
      BY <2>1, <2>2 DEF SameMatter, Given
    <2>4. "AcceptClose" \in Request BY DEF Request
    <2> HIDE DEF c
    <2>5. Sound(Queue(c, "AcceptClose"), F)
      BY <2>1, <2>3, <2>4, QueueSound
    <2> QED BY <1>8, <2>5 DEF c, AdvanceOrAcceptWindowClose
  <1> QED BY <1>7, <1>8

\* PerformClose, when the prompted document is saved or given up.
LEMMA PerformCloseSound ==
  ASSUME NEW s, Good(s), NEW F, Sound(s, F), DocRoom(s), GenRoom(s),
         s.prompt # NoPrompt, Given(s, s.prompt.tab, F),
         s.external # NoExternal => s.external.tab # s.prompt.tab
  PROVE  Sound(PerformClose(s), F)
  <1> DEFINE id     == s.prompt.tab
             closed == [s EXCEPT !.prompt = NoPrompt]
             more   == closed.resolved \cup
                         (IF HasDocument(s, id) /\ Modified(s, id)
                          THEN {id} ELSE {})
             asked  == [closed EXCEPT !.resolved = more]
  <1>1. Good(closed) /\ Keeps(s, closed) BY NoPromptGood
  <1>2. /\ Sound(closed, F) /\ SameMatter(s, closed)
        /\ closed.prompt = NoPrompt /\ closed.active = s.active
        /\ closed.opening = s.opening /\ closed.resolved = s.resolved
    BY NoPromptSound
  <1>3. id \in DOMAIN s.tab /\ id \in DocIds /\ s.opening = NoOpening
    BY DEF Good, IsState, Pending, Sound, Aligned
  <1> HIDE DEF id, closed
  <1>4. CASE s.prompt.kind = "window"
    <2>1. more \subseteq DocIds /\ more \subseteq s.resolved \cup {id}
      BY <1>1, <1>2, <1>3 DEF Good, IsState, States
    <2> HIDE DEF more
    <2>2. Good(asked)
      BY <1>1, <2>1
      DEF Good, IsState, States, StripIsTabs, TabsHaveDocuments, OneTab,
          NoOverlap, Pending
    <2>3. LiveGens(asked) = LiveGens(closed)
      BY <1>1 DEF Good, IsState, States, LiveGens
    <2>4. /\ SameMatter(closed, asked) /\ asked.prompt = closed.prompt
          /\ asked.active = closed.active /\ asked.editing = closed.editing
          /\ asked.opening = closed.opening /\ asked.resolved = more
          /\ asked.requests = closed.requests /\ asked.paste = closed.paste
      BY <1>1 DEF SameMatter, Good, IsState, States
    <2> HIDE DEF asked
    <2>5. GenRoom(asked) BY <1>1, <2>3, KeepsRoom DEF GenRoom
    <2>6. Walk(asked, F)
      BY <1>2, <2>4 DEF Sound, Walk, Given, SameMatter, NoPrompt
    <2>7. Sound(asked, F) BY <1>2, <2>4, <2>6, MatterSound
    <2>8. \A r \in asked.resolved \cap DOMAIN asked.docs : Given(asked, r, F)
      BY <1>2, <1>4, <2>1, <2>4 DEF id, Sound, Walk, Given, SameMatter
    <2>9. Sound(AdvanceOrAcceptWindowClose(asked), F)
      BY <1>2, <1>3, <2>2, <2>4, <2>5, <2>7, <2>8,
         AdvanceOrAcceptWindowCloseSound
    <2> QED BY <1>4, <2>9 DEF asked, more, closed, id, PerformClose
  <1>5. CASE s.prompt.kind # "window"
    <2> DEFINE c == ClearDirtyCloseState(closed)
    <2>1. /\ Good(c) /\ Keeps(closed, c)
          /\ Sound(c, F) /\ SameMatter(closed, c) /\ c.prompt = NoPrompt
          /\ c.opening = NoOpening
      BY <1>1, <1>2, <1>3, ClearDirtyCloseStateGood, ClearDirtyCloseStateSound
    <2> HIDE DEF c
    <2>2. DocRoom(c) BY <1>1, <2>1, KeepsRoom
    <2>3. id \in DOMAIN c.tab /\ (c.external # NoExternal => c.external.tab # id)
      BY <1>2, <1>3, <2>1 DEF SameMatter, id
    <2>4. Sound(RemoveTab(c, id), F) BY <2>1, <2>2, <2>3, RemoveTabSound
    <2> QED BY <1>5, <2>1, <2>4 DEF c, closed, id, PerformClose, HasTab
  <1> QED BY <1>4, <1>5
-----------------------------------------------------------------------------
(* Saving *)

\* A guarded save that is refused found a conflict the tab really has; with
\* no other writers there is none to find.
LEMMA ChangedIsConflict ==
  ASSUME NEW s, Good(s), NEW F, Sound(s, F), NEW id, NEW path \in Paths,
         NEW unconditional, NEW io \in Faults,
         SaveStatus(s, id, path, unconditional, io) = "changed"
  PROVE  /\ id \in DOMAIN s.tab /\ s.tab[id].path = path /\ ~ Quiet
         /\ "blind" \notin Faults => ~ Matches(s, id)
  <1>1. /\ id \in DOMAIN s.tab /\ s.tab[id].path = path
        /\ io = "blind" \/ ~ DestinationMatches(s.disk, path, s.tab[id].stamp)
    BY DEF SaveStatus, WriteStatus, HasTab
  <1>2. "blind" \notin Faults => ~ Matches(s, id) BY <1>1 DEF Matches
  <1>3. ~ Quiet
    <2>1. path # NoPath BY WorkspaceConstants
    <2> QED BY <1>1, <1>2, <2>1 DEF Sound, Calm, Quiet
  <1> QED BY <1>1, <1>2, <1>3

\* BeginExternalChange captures such a conflict and shows its tab.
LEMMA BeginExternalChangeSound ==
  ASSUME NEW s, Good(s), NEW F, Sound(s, F), ~ Quiet,
         NEW id \in DOMAIN s.tab, NEW path \in Paths, NEW matter \in GenRef,
         s.tab[id].path = path, "blind" \notin Faults => ~ Matches(s, id)
  PROVE  Sound(BeginExternalChange(s, id, path, matter), F)
  <1> DEFINE card == [tab |-> id, path |-> path, gen |-> matter]
             m == [s EXCEPT !.external = card]
  <1>1. card \in ExternalChange
    BY DEF Good, IsState, TabRef, PathRef, ExternalChange
  <1>2. card.tab = id /\ card.path = path OBVIOUS
  <1> HIDE DEF card
  <1>3. Good(m)
    BY <1>1, <1>2
    DEF Good, IsState, States, StripIsTabs, TabsHaveDocuments, OneTab,
        NoOverlap, Pending
  <1>4. /\ m.docs = s.docs /\ m.tab = s.tab /\ m.disk = s.disk
        /\ m.external = card /\ m.spell = s.spell /\ m.fault = s.fault
        /\ m.active = s.active /\ m.editing = s.editing
        /\ m.opening = s.opening /\ m.prompt = s.prompt
        /\ m.resolved = s.resolved /\ m.requests = s.requests
        /\ m.paste = s.paste
    BY DEF Good, IsState, States
  <1> HIDE DEF m
  <1>5. Aligned(m) /\ Vouched(m) /\ Walk(m, F)
    BY <1>4 DEF Sound, Aligned, Vouched, Matches, Walk, Given
  <1>6. Current(m) /\ Calm(m) BY <1>2, <1>4 DEF Current, Matches, Calm
  <1>7. Sound(m, F) BY <1>5, <1>6 DEF Sound
  <1>8. Sound(ShowTab(m, id), F)
    BY <1>3, <1>4, <1>7, ShowTabFields, ShownSound DEF Sound, Aligned
  <1> QED BY <1>8 DEF m, card, BeginExternalChange

\* What a successful save changes.
StoredFrom(s, n, id, path) ==
  /\ DOMAIN n.docs = DOMAIN s.docs
  /\ n.docs[id] = AtSavePoint(s.docs[id].text)
  /\ \A d \in DOMAIN s.docs \ {id} : n.docs[d] = s.docs[d]
  /\ n.disk[path] = FileOf(s.docs[id].text, FreshStamp(s))
  /\ \A p \in Paths \ {path} : n.disk[p] = s.disk[p]
  /\ DOMAIN n.tab = DOMAIN s.tab
  /\ n.tab[id] = [path |-> path, stamp |-> FreshStamp(s)]
  /\ \A t \in DOMAIN s.tab \ {id} : n.tab[t] = s.tab[t]
  /\ n.external = s.external /\ n.spell = s.spell
  /\ n.fault = s.fault /\ n.active = s.active
  /\ n.editing = s.editing /\ n.paste = s.paste
  /\ n.opening = s.opening /\ n.prompt = s.prompt
  /\ n.resolved = s.resolved /\ n.requests = s.requests
  /\ n.dialogs = s.dialogs

\* Stored makes those changes and no others.
LEMMA StoredFields ==
  ASSUME NEW s, Good(s), NEW id \in DOMAIN s.tab, NEW path \in Paths
  PROVE  StoredFrom(s, Stored(s, id, path), id, path)
  <1> DEFINE clean == AtSavePoint(s.docs[id].text)
             stamp == FreshStamp(s)
             bound == [path |-> path, stamp |-> stamp]
             file  == FileOf(s.docs[id].text, stamp)
             docsN  == [s.docs EXCEPT ![id] = clean]
             diskN  == [s.disk EXCEPT ![path] = file]
             tabN   == [s.tab EXCEPT ![id] = bound]
             m     == [s EXCEPT !.docs = docsN]
             n     == [m EXCEPT !.disk = diskN, !.tab = tabN]
  <1>1. id \in DOMAIN s.docs BY DEF Good, TabsHaveDocuments
  <1>2. DOMAIN s.disk = Paths BY DEF Good, IsState, States, Disk
  <1> HIDE DEF clean, stamp, bound, file
  <1>3. /\ DOMAIN docsN = DOMAIN s.docs /\ docsN[id] = clean
        /\ \A d \in DOMAIN s.docs \ {id} : docsN[d] = s.docs[d]
    BY <1>1 DEF Good, IsState, States
  <1>4. /\ diskN[path] = file /\ \A p \in Paths \ {path} : diskN[p] = s.disk[p]
    BY <1>2 DEF Good, IsState, States
  <1>5. /\ DOMAIN tabN = DOMAIN s.tab /\ tabN[id] = bound
        /\ \A t \in DOMAIN s.tab \ {id} : tabN[t] = s.tab[t]
    BY DEF Good, IsState, States
  <1>6. m.disk = s.disk /\ m.tab = s.tab BY DEF Good, IsState, States
  <1>7. Stored(s, id, path) = n
    BY <1>6 DEF Stored, MarkSaved, clean, stamp, bound, file
  <1> HIDE DEF docsN, diskN, tabN
  <1>8. /\ n.docs = docsN /\ n.disk = diskN /\ n.tab = tabN
        /\ n.external = s.external /\ n.spell = s.spell
        /\ n.fault = s.fault /\ n.active = s.active
        /\ n.editing = s.editing /\ n.paste = s.paste
        /\ n.opening = s.opening /\ n.prompt = s.prompt
        /\ n.resolved = s.resolved /\ n.requests = s.requests
        /\ n.dialogs = s.dialogs
    BY DEF Good, IsState, States
  <1> HIDE DEF n
  <1> QED
    BY <1>3, <1>4, <1>5, <1>7, <1>8 DEF StoredFrom, clean, stamp, bound, file

\* The saved tab knows its file and is clean; no other tab is bound to it.
\* Only a conflict card of the tab's own may now be out of date.
LEMMA StoredParts ==
  ASSUME NEW s, Good(s), NEW F, Sound(s, F), NEW id \in DOMAIN s.tab,
         NEW path \in Paths, BoundTo(s, path) \ {id} = {}
  PROVE  LET n == Stored(s, id, path)
         IN  /\ Aligned(n) /\ Vouched(n) /\ Calm(n) /\ Walk(n, F)
             /\ Given(n, id, F)
             /\ s.external.tab # id => Current(n)
  <1> DEFINE n == Stored(s, id, path)
  <1>0. StoredFrom(s, n, id, path) BY StoredFields
  <1> HIDE DEF n
  <1>1. /\ DOMAIN n.docs = DOMAIN s.docs
        /\ n.docs[id] = AtSavePoint(s.docs[id].text)
        /\ \A d \in DOMAIN s.docs \ {id} : n.docs[d] = s.docs[d]
    BY <1>0 DEF StoredFrom
  <1>2. /\ n.disk[path] = FileOf(s.docs[id].text, FreshStamp(s))
        /\ \A p \in Paths \ {path} : n.disk[p] = s.disk[p]
        /\ DOMAIN n.tab = DOMAIN s.tab
        /\ n.tab[id] = [path |-> path, stamp |-> FreshStamp(s)]
        /\ \A t \in DOMAIN s.tab \ {id} : n.tab[t] = s.tab[t]
    BY <1>0 DEF StoredFrom
  <1>3. /\ n.external = s.external /\ n.spell = s.spell
        /\ n.fault = s.fault /\ n.active = s.active
        /\ n.editing = s.editing /\ n.paste = s.paste
        /\ n.opening = s.opening /\ n.prompt = s.prompt
        /\ n.resolved = s.resolved /\ n.requests = s.requests
    BY <1>0 DEF StoredFrom
  <1>4. \A t \in DOMAIN s.tab : s.tab[t].path \in Paths \cup {NoPath}
    BY DEF Good, IsState, States, Tab, PathRef
  <1>5. \A t \in DOMAIN s.tab \ {id} : s.tab[t].path # path
    BY DEF BoundTo
  <1>6. \A t \in DOMAIN s.tab \ {id} : s.tab[t].path # NoPath =>
          /\ n.tab[t] = s.tab[t] /\ n.disk[s.tab[t].path] = s.disk[s.tab[t].path]
          /\ Matches(n, t) = Matches(s, t)
    BY <1>2, <1>4, <1>5 DEF Matches, DestinationMatches
  <1>7. n.tab[id].path = path /\ Matches(n, id)
        /\ n.disk[path].text = s.docs[id].text
    BY <1>2 DEF Matches, DestinationMatches, FileOf
  <1>8. n.docs[id].saved = s.docs[id].text /\ n.docs[id].clean
    BY <1>1 DEF AtSavePoint
  <1>9. Aligned(n) BY <1>1, <1>2, <1>3 DEF Sound, Aligned
  <1>10. Vouched(n)
    <2> SUFFICES ASSUME NEW t \in DOMAIN n.tab, n.tab[t].path # NoPath,
                        Matches(n, t)
                 PROVE  n.docs[t].saved = n.disk[n.tab[t].path].text
      BY DEF Vouched
    <2>1. CASE t = id BY <1>7, <1>8, <2>1
    <2>2. CASE t # id
      BY <1>1, <1>2, <1>6, <2>2 DEF Sound, Aligned, Vouched
    <2> QED BY <2>1, <2>2
  <1>11. Calm(n)
    <2> SUFFICES ASSUME Quiet
                 PROVE  /\ n.external = NoExternal
                        /\ \A t \in DOMAIN n.tab :
                             n.tab[t].path # NoPath => Matches(n, t)
                        /\ n.prompt # NoPrompt => n.prompt.tab = n.active
      BY DEF Calm
    <2>1. \A t \in DOMAIN s.tab \ {id} :
            n.tab[t].path # NoPath => Matches(n, t)
      BY <1>2, <1>6 DEF Sound, Calm
    <2> QED BY <1>2, <1>3, <1>7, <2>1 DEF Sound, Calm
  <1>12. Walk(n, F) BY <1>1, <1>3, <1>8 DEF Sound, Walk, Given
  <1>13. s.external.tab # id => Current(n)
    <2> SUFFICES ASSUME s.external.tab # id, s.external # NoExternal
                 PROVE  /\ n.external.tab \in DOMAIN n.tab
                        /\ n.tab[n.external.tab].path = n.external.path
                        /\ "blind" \notin Faults => ~ Matches(n, n.external.tab)
      BY <1>3 DEF Current
    <2>1. /\ s.external.tab \in DOMAIN s.tab \ {id}
          /\ s.tab[s.external.tab].path = s.external.path
          /\ "blind" \notin Faults => ~ Matches(s, s.external.tab)
      BY DEF Sound, Current
    <2>2. s.external.path # NoPath
      BY WorkspaceConstants DEF Good, Pending
    <2> QED BY <1>2, <1>3, <1>6, <2>1, <2>2
  <1> QED
    BY <1>8, <1>9, <1>10, <1>11, <1>12, <1>13 DEF n, Given

\* The conflict card comes down.
LEMMA NoExternalParts ==
  ASSUME NEW s, Good(s), NEW F, Aligned(s), Vouched(s), Calm(s), Walk(s, F)
  PROVE  LET n == [s EXCEPT !.external = NoExternal]
         IN  /\ Sound(n, F) /\ n.external = NoExternal
             /\ n.docs = s.docs /\ n.prompt = s.prompt
             /\ n.opening = s.opening
  <1> DEFINE n == [s EXCEPT !.external = NoExternal]
  <1>1. /\ n.docs = s.docs /\ n.tab = s.tab /\ n.disk = s.disk
        /\ n.external = NoExternal /\ n.spell = s.spell /\ n.fault = s.fault
        /\ n.active = s.active /\ n.editing = s.editing
        /\ n.opening = s.opening /\ n.prompt = s.prompt
        /\ n.resolved = s.resolved /\ n.requests = s.requests
        /\ n.paste = s.paste
    BY DEF Good, IsState, States
  <1> HIDE DEF n
  <1>2. Aligned(n) /\ Vouched(n) /\ Current(n) /\ Calm(n) /\ Walk(n, F)
    BY <1>1 DEF Aligned, Vouched, Matches, Current, Calm, Walk, Given
  <1> QED BY <1>1, <1>2 DEF Sound, n

\* A save that does not succeed changes no document and no file.
LEMMA SaveFailsSound ==
  ASSUME NEW s, Good(s), NEW F, Sound(s, F), NEW id, NEW path \in Paths,
         NEW unconditional, NEW matter \in GenRef, NEW io \in Faults,
         SaveStatus(s, id, path, unconditional, io) # "success"
  PROVE  Sound(SaveToPath(s, id, path, unconditional, matter, io), F)
  <1>1. CASE SaveStatus(s, id, path, unconditional, io) = "changed"
    <2>1. /\ id \in DOMAIN s.tab /\ s.tab[id].path = path /\ ~ Quiet
          /\ "blind" \notin Faults => ~ Matches(s, id)
      BY <1>1, ChangedIsConflict
    <2>2. Sound(BeginExternalChange(s, id, path, matter), F)
      BY <2>1, BeginExternalChangeSound
    <2> QED BY <1>1, <2>2 DEF SaveToPath
  <1>2. CASE SaveStatus(s, id, path, unconditional, io) # "changed"
    BY <1>2 DEF SaveToPath
  <1> QED BY <1>1, <1>2

\* A save that succeeds, when its tab's conflict card comes down with it.
LEMMA SaveClosesConflict ==
  ASSUME NEW s, Good(s), NEW F, Sound(s, F), StampRoom(s), NEW id,
         NEW path \in Paths, NEW unconditional, NEW matter \in GenRef, NEW io,
         SaveStatus(s, id, path, unconditional, io) = "success"
  PROVE  LET c == [SaveToPath(s, id, path, unconditional, matter, io)
                     EXCEPT !.external = NoExternal]
         IN  /\ Sound(c, F) /\ Given(c, id, F) /\ c.external = NoExternal
             /\ c.prompt = s.prompt /\ c.opening = s.opening
  <1> DEFINE m == Stored(s, id, path)
             c == [m EXCEPT !.external = NoExternal]
  <1>1. id \in DOMAIN s.tab /\ BoundTo(s, path) \ {id} = {}
    BY DEF SaveStatus, HasTab
  <1>2. SaveToPath(s, id, path, unconditional, matter, io) = m
    BY DEF SaveToPath
  <1>3. /\ Aligned(m) /\ Vouched(m) /\ Calm(m) /\ Walk(m, F)
        /\ Given(m, id, F)
    BY <1>1, StoredParts
  <1>4. StoredFrom(s, m, id, path) BY <1>1, StoredFields
  <1>5. Good(m) BY <1>1, StoredGood
  <1> HIDE DEF m
  <1>6. /\ Sound(c, F) /\ c.external = NoExternal
        /\ c.docs = m.docs /\ c.prompt = m.prompt /\ c.opening = m.opening
    BY <1>3, <1>5, NoExternalParts
  <1> HIDE DEF c
  <1>7. Given(c, id, F) BY <1>3, <1>6 DEF Given
  <1>8. c.prompt = s.prompt /\ c.opening = s.opening
    BY <1>4, <1>6 DEF StoredFrom
  <1> QED BY <1>2, <1>6, <1>7, <1>8 DEF c

\* A save that succeeds under no conflict card, or another tab's.
LEMMA SaveToPathSucceeds ==
  ASSUME NEW s, Good(s), NEW F, Sound(s, F), StampRoom(s), NEW id,
         NEW path \in Paths, NEW unconditional, NEW matter \in GenRef, NEW io,
         SaveStatus(s, id, path, unconditional, io) = "success",
         s.external.tab # id
  PROVE  LET m == SaveToPath(s, id, path, unconditional, matter, io)
         IN  /\ Sound(m, F) /\ Given(m, id, F) /\ m.external = s.external
             /\ m.prompt = s.prompt /\ m.opening = s.opening
  <1> DEFINE m == Stored(s, id, path)
  <1>1. id \in DOMAIN s.tab /\ BoundTo(s, path) \ {id} = {}
    BY DEF SaveStatus, HasTab
  <1>2. SaveToPath(s, id, path, unconditional, matter, io) = m
    BY DEF SaveToPath
  <1>3. /\ Aligned(m) /\ Vouched(m) /\ Calm(m) /\ Walk(m, F)
        /\ Given(m, id, F) /\ Current(m)
    BY <1>1, StoredParts
  <1>4. StoredFrom(s, m, id, path) BY <1>1, StoredFields
  <1> HIDE DEF m
  <1>5. Sound(m, F) BY <1>3 DEF Sound
  <1>6. m.prompt = s.prompt /\ m.opening = s.opening
        /\ m.external = s.external
    BY <1>4 DEF StoredFrom
  <1> QED BY <1>2, <1>3, <1>5, <1>6

\* A save with no conflict card of its tab on screen.
LEMMA SaveToPathSound ==
  ASSUME NEW s, Good(s), NEW F, Sound(s, F), StampRoom(s), NEW id,
         NEW path \in Paths, NEW unconditional, NEW matter \in GenRef,
         NEW io \in Faults, s.external.tab # id
  PROVE  Sound(SaveToPath(s, id, path, unconditional, matter, io), F)
  <1>1. CASE SaveStatus(s, id, path, unconditional, io) = "success"
    <2> DEFINE m == SaveToPath(s, id, path, unconditional, matter, io)
    <2>1. Sound(m, F) BY <1>1, SaveToPathSucceeds
    <2> QED BY <2>1
  <1>2. CASE SaveStatus(s, id, path, unconditional, io) # "success"
    BY <1>2, SaveFailsSound
  <1> QED BY <1>1, <1>2
\* What the tab's close may go ahead on: it is saved, and free of conflicts.
Settled(s, n, id, F) ==
  /\ Sound(n, F) /\ Given(n, id, F) /\ n.prompt = s.prompt
  /\ n.external # NoExternal => n.external.tab # id

\* A successful Save As supersedes the conflict card its tab left behind.
LEMMA SettledSound ==
  ASSUME NEW s, Good(s), NEW F, Sound(s, F), StampRoom(s), NEW id,
         NEW path \in Paths, NEW matter \in GenRef, NEW io,
         SaveStatus(s, id, path, FALSE, io) = "success"
  PROVE  Settled(s, Settle(SaveToPath(s, id, path, FALSE, matter, io), id), id, F)
  <1> DEFINE saved == SaveToPath(s, id, path, FALSE, matter, io)
             c     == [saved EXCEPT !.external = NoExternal]
  <1>1. saved.external = s.external
    <2>1. \A b : SaveStatus(s, id, path, b, io) = "success" =>
            SaveToPath(s, id, path, b, matter, io).external = s.external
      BY SaveToPathKeeps
    <2> QED BY <2>1
  <1>2. /\ Sound(c, F) /\ Given(c, id, F) /\ c.external = NoExternal
        /\ c.prompt = s.prompt
    <2>1. \A b : SaveStatus(s, id, path, b, io) = "success" =>
            LET m == [SaveToPath(s, id, path, b, matter, io)
                        EXCEPT !.external = NoExternal]
            IN  /\ Sound(m, F) /\ Given(m, id, F)
                /\ m.external = NoExternal /\ m.prompt = s.prompt
      BY SaveClosesConflict
    <2> QED BY <2>1
  <1>3. s.external.tab # id =>
          Sound(saved, F) /\ Given(saved, id, F) /\ saved.prompt = s.prompt
    <2>1. s.external.tab # id =>
            \A b : SaveStatus(s, id, path, b, io) = "success" =>
              LET m == SaveToPath(s, id, path, b, matter, io)
              IN  Sound(m, F) /\ Given(m, id, F) /\ m.prompt = s.prompt
      BY SaveToPathSucceeds
    <2> QED BY <2>1
  <1> HIDE DEF saved
  <1>4. CASE s.external.tab = id
    <2>1. Settle(saved, id) = c BY <1>1, <1>4 DEF Settle
    <2> QED BY <1>2, <2>1 DEF saved, Settled
  <1>5. CASE s.external.tab # id
    <2>1. Settle(saved, id) = saved BY <1>1, <1>5 DEF Settle
    <2> QED BY <1>1, <1>3, <1>5, <2>1 DEF saved, Settled
  <1> QED BY <1>4, <1>5

\* A Save As that came to nothing: the prompt it answers takes answers again.
LEMMA GaveUpSound ==
  ASSUME NEW s, NEW n, NEW F, Good(n), Sound(n, F), n.prompt = s.prompt,
         NEW id, NEW matter
  PROVE  Sound(IF Continues(s, id, matter) THEN NotifySaveIncomplete(n) ELSE n, F)
  <1>1. Continues(s, id, matter) => n.prompt # NoPrompt
    BY DEF Continues, NoPrompt
  <1> QED BY <1>1, NotifySaveIncompleteSound

\* ApplySaveResult closes the tab only when the save answers the prompt.
LEMMA ApplySaveResultSound ==
  ASSUME NEW s, Good(s), NEW F, Sound(s, F),
         DocRoom(s), GenRoom(s), StampRoom(s),
         NEW id, NEW accepted \in BOOLEAN, NEW path,
         accepted => path \in Paths,
         NEW matter \in GenRef, NEW io \in Faults
  PROVE  Sound(ApplySaveResult(s, id, accepted, path, matter, io), F)
  <1> DEFINE saved   == SaveToPath(s, id, path, FALSE, matter, io)
             success == SaveStatus(s, id, path, FALSE, io) = "success"
             settled == Settle(saved, id)
             GaveUp(n) ==
               IF Continues(s, id, matter) THEN NotifySaveIncomplete(n) ELSE n
  <1>1. CASE ~ accepted
    <2>1. Sound(GaveUp(s), F) BY GaveUpSound
    <2> QED BY <1>1, <2>1 DEF ApplySaveResult
  <1>2. CASE accepted /\ ~ HasTab(s, id) BY <1>2 DEF ApplySaveResult
  <1>3. CASE accepted /\ HasTab(s, id) /\ success
    <2>1. path \in Paths BY <1>3
    <2>2. /\ Sound(settled, F) /\ Given(settled, id, F)
          /\ settled.prompt = s.prompt
          /\ settled.external # NoExternal => settled.external.tab # id
      <3>1. Settled(s, settled, id, F) BY <1>3, <2>1, SettledSound
      <3> QED BY <3>1 DEF Settled
    <2>3. Good(saved)
      <3>1. \A b : Good(SaveToPath(s, id, path, b, matter, io))
        BY <2>1, SaveToPathGood
      <3> QED BY <3>1
    <2>4. Keeps(s, saved)
      <3>1. \A b : SaveStatus(s, id, path, b, io) = "success" =>
              Keeps(s, SaveToPath(s, id, path, b, matter, io))
        BY <2>1, SaveToPathKeeps
      <3> QED BY <1>3, <3>1
    <2> HIDE DEF saved
    <2>5. Good(settled) /\ Keeps(saved, settled) BY <2>3, SettleGood
    <2> HIDE DEF settled
    <2>6. DocRoom(settled) /\ GenRoom(settled) BY <2>4, <2>5, KeepsRoom
    <2>7. CASE Continues(s, id, matter)
      <3>1. settled.prompt # NoPrompt /\ settled.prompt.tab = id
        BY <2>2, <2>7 DEF Continues, NoPrompt
      <3>2. Sound(PerformClose(settled), F)
        BY <2>2, <2>5, <2>6, <3>1, PerformCloseSound
      <3> QED BY <1>3, <2>7, <3>2 DEF ApplySaveResult, settled, saved
    <2>8. CASE ~ Continues(s, id, matter)
      BY <1>3, <2>2, <2>8 DEF ApplySaveResult, settled, saved
    <2> QED BY <2>7, <2>8
  <1>4. CASE accepted /\ HasTab(s, id) /\ ~ success
    <2>1. path \in Paths BY <1>4
    <2>2. Sound(saved, F)
      <3>1. \A b : SaveStatus(s, id, path, b, io) # "success" =>
              Sound(SaveToPath(s, id, path, b, matter, io), F)
        BY <2>1, SaveFailsSound
      <3> QED BY <1>4, <3>1
    <2>3. Good(saved) /\ saved.prompt = s.prompt
      <3>1. \A b : /\ Good(SaveToPath(s, id, path, b, matter, io))
                  /\ SaveToPath(s, id, path, b, matter, io).prompt = s.prompt
        BY <2>1, SaveToPathGood
      <3> QED BY <3>1
    <2> HIDE DEF saved, success
    <2>4. Sound(GaveUp(saved), F) BY <2>2, <2>3, GaveUpSound
    <2> HIDE DEF GaveUp
    <2>5. ApplySaveResult(s, id, accepted, path, matter, io)
            \in {saved, GaveUp(saved)}
      BY <1>4 DEF ApplySaveResult, saved, success, GaveUp
    <2> QED BY <2>2, <2>4, <2>5
  <1> QED BY <1>1, <1>2, <1>3, <1>4
-----------------------------------------------------------------------------
(* Opening *)

\* A tab and its document are opened together.
OpenedFrom(s, n, id, record) ==
  /\ DOMAIN n.docs = DOMAIN s.docs \cup {id}
  /\ n.docs[id] = AtSavePoint(Empty)
  /\ \A d \in DOMAIN s.docs \ {id} : n.docs[d] = s.docs[d]
  /\ DOMAIN n.tab = DOMAIN s.tab \cup {id}
  /\ n.tab[id] = record
  /\ \A t \in DOMAIN s.tab \ {id} : n.tab[t] = s.tab[t]
  /\ n.disk = s.disk /\ n.external = s.external
  /\ n.spell = s.spell /\ n.fault = s.fault
  /\ n.active = id /\ n.editing = id /\ n.paste = FALSE
  /\ n.opening = s.opening /\ n.prompt = s.prompt
  /\ n.resolved = s.resolved /\ n.requests = s.requests

\* That is what the three calls do outside a review.
LEMMA OpenedFields ==
  ASSUME NEW s, Good(s), s.spell = "closed",
         NEW id \in DocIds \ DOMAIN s.docs, id # s.editing, NEW record \in Tab,
         record.path # NoPath => BoundTo(s, record.path) = {}
  PROVE  LET n == Activate(AppendTab(CreateDocument(s, id), id, record), id)
         IN  OpenedFrom(s, n, id, record) /\ Good(n)
  <1> DEFINE m   == CreateDocument(s, id)
             tabN == [t \in DOMAIN m.tab \cup {id} |->
                       IF t = id THEN record ELSE m.tab[t]]
             a   == AppendTab(m, id, record)
             n   == Activate(a, id)
  <1>1. Good(m) /\ id \in DOMAIN m.docs BY CreateDocumentGood
  <1>2. /\ DOMAIN m.docs = DOMAIN s.docs \cup {id}
        /\ m.docs[id] = AtSavePoint(Empty)
        /\ \A d \in DOMAIN s.docs \ {id} : m.docs[d] = s.docs[d]
        /\ m.tab = s.tab /\ m.disk = s.disk
        /\ m.external = s.external /\ m.spell = s.spell
        /\ m.fault = s.fault
        /\ m.editing = s.editing /\ m.paste = s.paste
        /\ m.opening = s.opening /\ m.prompt = s.prompt
        /\ m.resolved = s.resolved /\ m.requests = s.requests
    BY CreateFields DEF Good
  <1> HIDE DEF m
  <1>3. id \notin DOMAIN m.tab
    BY <1>2 DEF Good, TabsHaveDocuments
  <1>4. Good(a)
    <2>1. record.path # NoPath => BoundTo(m, record.path) = {}
      BY <1>2 DEF BoundTo
    <2> QED BY <1>1, <1>3, <2>1, AppendTabGood
  <1>5. /\ a.docs = m.docs /\ a.tab = tabN /\ a.disk = m.disk
        /\ a.external = m.external /\ a.spell = m.spell
        /\ a.fault = m.fault
        /\ a.editing = m.editing /\ a.paste = m.paste
        /\ a.opening = m.opening /\ a.prompt = m.prompt
        /\ a.resolved = m.resolved /\ a.requests = m.requests
    <2> HIDE DEF tabN
    <2> QED BY <1>1 DEF AppendTab, Good, IsState, States, tabN
  <1>6. /\ DOMAIN tabN = DOMAIN s.tab \cup {id} /\ tabN[id] = record
        /\ \A t \in DOMAIN s.tab \ {id} : tabN[t] = s.tab[t]
    BY <1>2
  <1> HIDE DEF tabN, a
  <1>7. /\ SameButShown(a, n) /\ n.active = id /\ n.editing = id
        /\ n.paste = (a.paste /\ a.editing = id)
    BY <1>1, <1>2, <1>4, <1>5, ActivateFields
  <1>8. Good(n) BY <1>4, ActivateGood
  <1> HIDE DEF n
  <1>9. n.paste = FALSE BY <1>2, <1>5, <1>7
  <1>10. OpenedFrom(s, n, id, record)
    BY <1>2, <1>5, <1>6, <1>7, <1>9 DEF OpenedFrom, SameButShown
  <1> QED BY <1>8, <1>10 DEF n, a, m

\* New Tab.
LEMMA NewTabSound ==
  ASSUME NEW s, Good(s), NEW F, Sound(s, F), DocRoom(s)
  PROVE  Sound(NewTab(s), F)
  <1> DEFINE id == FreshDoc(s)
             n  == Activate(AppendTab(CreateDocument(s, id), id, Untitled), id)
  <1>1. CASE DecisionActive(s) BY <1>1 DEF NewTab
  <1>2. CASE ~ DecisionActive(s)
    <2>1. id \in DocIds \ DOMAIN s.docs BY FreshIdentity DEF LiveDocs
    <2> HIDE DEF id
    <2>2. id # s.editing /\ s.spell = "closed"
      BY <2>1 DEF Sound, Aligned
    <2>3. Untitled \in Tab /\ Untitled.path = NoPath
      BY DEF Untitled, Tab, PathRef
    <2>4. OpenedFrom(s, n, id, Untitled) BY <2>1, <2>2, <2>3, OpenedFields
    <2> HIDE DEF n
    <2>5. s.prompt = NoPrompt /\ id \notin DOMAIN s.tab
      BY <1>2, <2>1 DEF DecisionActive, Sound, Aligned
    <2>6. Aligned(n) BY <2>4 DEF OpenedFrom, Sound, Aligned
    <2>7. \A t \in DOMAIN s.tab : Matches(n, t) = Matches(s, t)
      BY <2>4, <2>5 DEF OpenedFrom, Matches
    <2>8. Vouched(n)
      BY <2>3, <2>4, <2>5, <2>7
      DEF OpenedFrom, Sound, Aligned, Vouched
    <2>9. Current(n)
      BY <2>4, <2>5, <2>7 DEF OpenedFrom, Sound, Current
    <2>10. Calm(n)
      BY <2>3, <2>4, <2>5, <2>7 DEF OpenedFrom, Sound, Calm
    <2>11. Walk(n, F)
      BY <2>4, <2>5 DEF OpenedFrom, Sound, Walk, Given, NoPrompt, AtSavePoint
    <2> QED
      BY <1>2, <2>6, <2>8, <2>9, <2>10, <2>11 DEF Sound, n, id, NewTab
  <1> QED BY <1>1, <1>2

\* A readable file that no tab has gets a tab that knows it.
LEMMA LoadOpenedDocumentSound ==
  ASSUME NEW s, Good(s), NEW F, Sound(s, F),
         NEW id \in DocIds \ LiveDocs(s), NEW path \in Paths,
         BoundTo(s, path) = {}, s.disk[path].exists, s.prompt = NoPrompt
  PROVE  LET n == LoadOpenedDocument(s, id, path)
         IN  /\ Sound(n, F) /\ n.prompt = NoPrompt /\ n.opening = s.opening
             /\ id \in DOMAIN n.tab
  <1> DEFINE file   == s.disk[path]
             record == [path |-> path, stamp |-> file.stamp]
             a      == Activate(AppendTab(CreateDocument(s, id), id, record), id)
             n      == LoadInitialBuffer(a, file.text)
  <1>1. file \in File /\ file.exists
    BY DEF Good, IsState, States, Disk, Absent
  <1>2. record \in Tab /\ record.path = path /\ record.stamp = file.stamp
    BY <1>1 DEF Tab, PathRef, File
  <1>3. id \in DocIds \ DOMAIN s.docs BY DEF LiveDocs
  <1>4. id # s.editing /\ s.spell = "closed"
        /\ id \notin DOMAIN s.tab
    BY <1>3 DEF Sound, Aligned
  <1> HIDE DEF record
  <1>5. OpenedFrom(s, a, id, record) /\ Good(a)
    BY <1>2, <1>3, <1>4, OpenedFields
  <1> HIDE DEF a
  <1> DEFINE docsN == [a.docs EXCEPT ![id] = AtSavePoint(file.text)]
  <1>6. /\ DOMAIN docsN = DOMAIN s.docs \cup {id}
        /\ docsN[id] = AtSavePoint(file.text)
        /\ \A d \in DOMAIN s.docs : docsN[d] = s.docs[d]
    BY <1>3, <1>5 DEF OpenedFrom, Good, IsState, States
  <1>7. a.editing = id BY <1>5 DEF OpenedFrom
  <1> HIDE DEF docsN
  <1>8. /\ n.docs = docsN /\ n.tab = a.tab /\ n.disk = a.disk
        /\ n.external = a.external /\ n.spell = a.spell
        /\ n.fault = a.fault /\ n.active = a.active /\ n.editing = a.editing
        /\ n.opening = a.opening /\ n.prompt = a.prompt
        /\ n.resolved = a.resolved /\ n.requests = a.requests
    BY <1>5, <1>7 DEF LoadInitialBuffer, Good, IsState, States, docsN
  <1> HIDE DEF n
  <1>9. /\ DOMAIN n.tab = DOMAIN s.tab \cup {id} /\ n.tab[id] = record
        /\ \A t \in DOMAIN s.tab : n.tab[t] = s.tab[t]
        /\ n.disk = s.disk /\ n.external = s.external
        /\ n.spell = s.spell /\ n.fault = s.fault
        /\ n.active = id /\ n.editing = id
        /\ n.opening = s.opening /\ n.prompt = s.prompt
        /\ n.resolved = s.resolved /\ n.requests = s.requests
    BY <1>4, <1>5, <1>8 DEF OpenedFrom
  <1>10. Aligned(n) BY <1>6, <1>8, <1>9 DEF Sound, Aligned
  <1>11. /\ \A t \in DOMAIN s.tab : Matches(n, t) = Matches(s, t)
         /\ Matches(n, id)
    BY <1>1, <1>2, <1>9 DEF Matches, DestinationMatches
  <1>12. Vouched(n)
    <2> SUFFICES ASSUME NEW t \in DOMAIN n.tab, n.tab[t].path # NoPath,
                        Matches(n, t)
                 PROVE  n.docs[t].saved = n.disk[n.tab[t].path].text
      BY DEF Vouched
    <2>1. CASE t = id
      BY <1>2, <1>6, <1>8, <1>9, <2>1 DEF AtSavePoint
    <2>2. CASE t # id
      BY <1>6, <1>8, <1>9, <1>11, <2>2 DEF Sound, Aligned, Vouched
    <2> QED BY <2>1, <2>2
  <1>13. Current(n) BY <1>9, <1>11 DEF Sound, Current
  <1>14. Calm(n) BY <1>9, <1>11 DEF Sound, Calm
  <1>15. Walk(n, F)
    BY <1>6, <1>8, <1>9 DEF Sound, Walk, Given, NoPrompt, AtSavePoint
  <1> QED
    BY <1>9, <1>10, <1>12, <1>13, <1>14, <1>15
    DEF Sound, n, a, record, LoadOpenedDocument
\* A list of files goes on, from a tab that is open, or is done.
LEMMA OpeningSound ==
  ASSUME NEW s, Good(s), NEW F, Sound(s, F), NEW o,
         o.last \in DOMAIN s.tab \cup {NoDoc},
         o = NoOpening \/ s.prompt = NoPrompt
  PROVE  Sound([s EXCEPT !.opening = o], F)
  <1> DEFINE n == [s EXCEPT !.opening = o]
  <1>1. /\ n.docs = s.docs /\ n.tab = s.tab /\ n.disk = s.disk
        /\ n.external = s.external /\ n.spell = s.spell /\ n.fault = s.fault
        /\ n.active = s.active /\ n.editing = s.editing
        /\ n.opening = o /\ n.prompt = s.prompt
        /\ n.resolved = s.resolved /\ n.requests = s.requests
        /\ n.paste = s.paste
    BY DEF Good, IsState, States
  <1> HIDE DEF n
  <1>2. Aligned(n) /\ Vouched(n) /\ Current(n) /\ Calm(n) /\ Walk(n, F)
    BY <1>1 DEF Sound, Aligned, Vouched, Matches, Current, Calm, Walk, Given
  <1> QED BY <1>2 DEF Sound, n

\* OpenPathList.
LEMMA OpenPathListSound ==
  ASSUME NEW s, Good(s), NEW F, Sound(s, F), NEW names, s.prompt = NoPrompt
  PROVE  Sound(OpenPathList(s, names), F)
  BY OpeningSound DEF OpenPathList

\* The large-file card comes up over whatever is shown.
LEMMA BeginLargeFilePromptSound ==
  ASSUME NEW s, Good(s), NEW F, Sound(s, F), NEW path, NEW rest
  PROVE  Sound(BeginLargeFilePrompt(s, path, rest), F)
  <1> DEFINE n == [s EXCEPT !.large = [path |-> path, rest |-> rest]]
  <1>1. /\ SameMatter(s, n) /\ n.active = s.active /\ n.editing = s.editing
        /\ n.opening = s.opening /\ n.prompt = s.prompt
        /\ n.resolved = s.resolved /\ n.requests = s.requests
        /\ n.paste = s.paste
    BY DEF SameMatter, Good, IsState, States
  <1> HIDE DEF n
  <1>2. Walk(n, F) BY <1>1 DEF Sound, Walk, Given, SameMatter
  <1>3. /\ s.opening # NoOpening => n.prompt = NoPrompt
        /\ Quiet => n.prompt = NoPrompt \/ n.prompt.tab = s.active
    BY <1>1 DEF Sound, Aligned, Calm
  <1>4. Sound(n, F) BY <1>1, <1>2, <1>3, MatterSound
  <1> QED BY <1>4 DEF n, BeginLargeFilePrompt

\* The last tab of a list is shown.
LEMMA ShowLastSound ==
  ASSUME NEW s, Good(s), NEW F, Sound(s, F), s.prompt = NoPrompt,
         NEW last \in DOMAIN s.tab \cup {NoDoc}
  PROVE  Sound(ShowLast(s, last), F) /\ ShowLast(s, last).prompt = NoPrompt
  <1> DEFINE m == IF last # NoDoc /\ last # s.active THEN Activate(s, last)
                  ELSE s
  <1>1. Good(m) /\ Sound(m, F) /\ m.prompt = NoPrompt
    <2>1. CASE last # NoDoc /\ last # s.active
      <3>1. last \in DOMAIN s.tab /\ last \in DocIds
        BY <2>1 DEF Good, IsState
      <3>2. Good(Activate(s, last)) /\ Activate(s, last).prompt = s.prompt
        BY <3>1, ActivateGood
      <3>3. Sound(Activate(s, last), F) BY <3>1, ActivateSound
      <3> QED BY <2>1, <3>2, <3>3
    <2>2. CASE ~ (last # NoDoc /\ last # s.active) BY <2>2
    <2> QED BY <2>1, <2>2
  <1> HIDE DEF m
  <1>2. NoOpening.last = NoDoc BY DEF NoOpening
  <1>3. Sound([m EXCEPT !.opening = NoOpening], F)
    BY <1>1, <1>2, OpeningSound
  <1>4. [m EXCEPT !.opening = NoOpening].prompt = NoPrompt
    BY <1>1 DEF Good, IsState, States
  <1> QED BY <1>3, <1>4 DEF m, ShowLast

\* One turn of OpenPathList's loop shows or opens a tab, skips a file or
\* asks about it.
LEMMA OpenNextPathSound ==
  ASSUME NEW s, Good(s), NEW F, Sound(s, F), DocRoom(s),
         s.opening # NoOpening, NEW io
  PROVE  Sound(OpenNextPath(s, io), F)
  <1> DEFINE path   == Normalize[Head(s.opening.rest)]
             rest   == Tail(s.opening.rest)
             status == ReadStatus(s.disk, path, "warning", io)
             id     == FreshDoc(s)
             bound  == CHOOSE t \in BoundTo(s, path) : TRUE
             Then(n, last) == IF rest = << >> THEN ShowLast(n, last)
                              ELSE [n EXCEPT !.opening = [rest |-> rest,
                                                          last |-> last]]
  <1>1. s.opening.rest \in Seq(Names) /\ s.opening.rest # << >>
    BY DEF Good, Pending, IsState, States, Opening
  <1>2. s.prompt = NoPrompt /\ s.opening.last \in DOMAIN s.tab \cup {NoDoc}
    BY DEF Sound, Aligned
  <1>3. Head(s.opening.rest) \in Names BY <1>1, HeadTailProperties
  <1>4. path \in Paths BY <1>3, WorkspaceConstants
  <1> HIDE DEF rest, path
  <1>5. ASSUME NEW n, Good(n), Sound(n, F), n.prompt = NoPrompt,
               NEW last \in DOMAIN n.tab \cup {NoDoc}
        PROVE  Sound(Then(n, last), F)
    BY <1>5, OpeningSound, ShowLastSound
  <1> HIDE DEF Then
  <1>6. CASE BoundTo(s, path) # {}
    <2>1. bound \in DOMAIN s.tab BY <1>6 DEF BoundTo
    <2> HIDE DEF bound
    <2>2. Sound(Then(s, bound), F) BY <1>2, <1>5, <2>1
    <2> QED BY <1>6, <2>2 DEF Then, rest, path, bound, OpenNextPath
  <1>7. CASE BoundTo(s, path) = {}
    <2>1. status \in {"failed", "tooLarge", "success"}
          /\ (status = "success" => s.disk[path].exists)
      BY DEF ReadStatus
    <2>2. id \in DocIds \ LiveDocs(s) BY FreshIdentity
    <2> HIDE DEF id, status
    <2>3. CASE status = "tooLarge"
      <3> DEFINE m == ShowLast(s, s.opening.last)
      <3>1. s.opening.last \in TabRef
        BY DEF Good, IsState, States, Opening
      <3>2. Good(m) BY <3>1, ShowLastGood
      <3>3. Sound(m, F) BY <1>2, ShowLastSound
      <3> HIDE DEF m
      <3>4. Sound(BeginLargeFilePrompt(m, path, rest), F)
        BY <3>2, <3>3, BeginLargeFilePromptSound
      <3> QED BY <1>7, <2>3, <3>4 DEF m, rest, path, status, OpenNextPath
    <2>4. CASE status = "failed"
      <3>1. Sound(Then(s, s.opening.last), F) BY <1>2, <1>5
      <3> QED BY <1>7, <2>4, <3>1 DEF Then, rest, path, status, OpenNextPath
    <2>5. CASE status = "success"
      <3> DEFINE n == LoadOpenedDocument(s, id, path)
      <3>1. Good(n) BY <1>4, <1>7, <2>1, <2>2, <2>5, LoadOpenedDocumentGood
      <3>2. Sound(n, F) /\ n.prompt = NoPrompt /\ id \in DOMAIN n.tab
        BY <1>2, <1>4, <1>7, <2>1, <2>2, <2>5, LoadOpenedDocumentSound
      <3> HIDE DEF n
      <3>3. Sound(Then(n, id), F) BY <1>5, <3>1, <3>2
      <3> QED
        BY <1>7, <2>5, <3>3 DEF n, Then, rest, path, id, status, OpenNextPath
    <2> QED BY <2>1, <2>3, <2>4, <2>5
  <1> QED BY <1>6, <1>7

\* ApplyOpenPaths, from a dialog or the recent files.
LEMMA ApplyOpenPathsSound ==
  ASSUME NEW s, Good(s), NEW F, Sound(s, F), NEW names
  PROVE  Sound(ApplyOpenPaths(s, names), F)
  <1>1. CASE DecisionActive(s) BY <1>1 DEF ApplyOpenPaths
  <1>2. CASE ~ DecisionActive(s)
    <2>1. s.prompt = NoPrompt BY <1>2 DEF DecisionActive
    <2> QED BY <1>2, <2>1, OpenPathListSound DEF ApplyOpenPaths
  <1> QED BY <1>1, <1>2

\* The tabs of the command line's files know them.
LEMMA LoadStartupFilesSound ==
  ASSUME NEW s, Good(s), NEW F, Sound(s, F), s.prompt = NoPrompt,
         s.external = NoExternal, s.opening = NoOpening, s.requests = << >>,
         NEW n \in Nat, NEW paths \in [1 .. n -> Paths], NEW last \in 1 .. n,
         StartupReadable(s, paths)
  PROVE  Sound(LoadStartupFiles(s, paths, last), F)
  <1> DEFINE docsN  == [id \in DOMAIN paths |-> AtSavePoint(s.disk[paths[id]].text)]
             stripN == [id \in DOMAIN paths |-> id]
             tabN   == [id \in DOMAIN paths |->
                         [path |-> paths[id], stamp |-> s.disk[paths[id]].stamp]]
             m     == [s EXCEPT !.docs = docsN, !.strip = stripN, !.tab = tabN,
                                !.active = last, !.editing = last]
  <1>1. DOMAIN paths = 1 .. n OBVIOUS
  <1>2. \A i \in 1 .. n : s.disk[paths[i]].exists
    BY <1>1 DEF StartupReadable, ReadStatus
  <1>3. /\ DOMAIN docsN = 1 .. n
        /\ \A i \in 1 .. n : docsN[i] = AtSavePoint(s.disk[paths[i]].text)
    BY <1>1
  <1>4. /\ DOMAIN tabN = 1 .. n
        /\ \A i \in 1 .. n : /\ tabN[i].path = paths[i]
                             /\ tabN[i].stamp = s.disk[paths[i]].stamp
    BY <1>1
  <1> HIDE DEF docsN, stripN, tabN
  <1>5. /\ m.docs = docsN /\ m.tab = tabN /\ m.disk = s.disk
        /\ m.external = s.external /\ m.spell = s.spell /\ m.fault = s.fault
        /\ m.active = last /\ m.editing = last
        /\ m.opening = s.opening /\ m.prompt = s.prompt
        /\ m.requests = s.requests
    BY DEF Good, IsState, States
  <1> HIDE DEF m
  <1>6. Aligned(m)
    BY <1>3, <1>4, <1>5 DEF Sound, Aligned, NoOpening
  <1>7. Vouched(m) BY <1>3, <1>4, <1>5 DEF Vouched, AtSavePoint
  <1>8. Current(m) BY <1>5 DEF Current
  <1>9. Calm(m)
    <2>1. \A i \in 1 .. n : Matches(m, i)
      BY <1>2, <1>4, <1>5 DEF Matches, DestinationMatches
    <2> QED BY <1>4, <1>5, <2>1 DEF Calm
  <1>10. Walk(m, F)
    <2>1. ToSet(m.requests) = {} BY <1>5 DEF ToSet
    <2> QED BY <1>5, <2>1 DEF Walk, NoPrompt
  <1> QED
    BY <1>6, <1>7, <1>8, <1>9, <1>10
    DEF Sound, m, docsN, stripN, tabN, LoadStartupFiles
-----------------------------------------------------------------------------
(* Requests from the user *)

\* A click on a tab.
LEMMA ActivateTabSound ==
  ASSUME NEW s, Good(s), NEW F, Sound(s, F), NEW id
  PROVE  Sound(ActivateTab(s, id), F)
  <1>1. CASE ~ DecisionActive(s) /\ HasTab(s, id)
    <2>1. s.prompt = NoPrompt /\ id \in DOMAIN s.tab
      BY <1>1 DEF DecisionActive, HasTab
    <2> QED BY <2>1, ActivateSound DEF ActivateTab
  <1>2. CASE DecisionActive(s) \/ ~ HasTab(s, id) BY <1>2 DEF ActivateTab
  <1> QED BY <1>1, <1>2

\* Next and previous tab.
LEMMA CycleTabSound ==
  ASSUME NEW s, Good(s), NEW F, Sound(s, F), NEW delta
  PROVE  Sound(CycleTab(s, delta), F)
  BY ActivateTabSound DEF CycleTab

\* Close Tab asks about a dirty tab and removes a clean one.
LEMMA CloseTabSound ==
  ASSUME NEW s, Good(s), NEW F, Sound(s, F), DocRoom(s), GenRoom(s),
         s.opening = NoOpening, NEW id
  PROVE  Sound(CloseTab(s, id), F)
  <1>1. CASE DecisionActive(s) \/ ~ HasTab(s, id) BY <1>1 DEF CloseTab
  <1>2. CASE ~ DecisionActive(s) /\ HasTab(s, id)
    <2>1. s.prompt = NoPrompt /\ s.external = NoExternal /\ id \in DOMAIN s.tab
      BY <1>2 DEF DecisionActive, HasTab
    <2>2. Sound(BeginPrompt(s, "tab", id), F) BY <2>1, BeginPromptSound
    <2>3. Sound(RemoveTab(s, id), F) BY <2>1, RemoveTabSound
    <2> QED BY <1>2, <2>2, <2>3 DEF CloseTab
  <1> QED BY <1>1, <1>2

\* Open and Save As ask for a dialog.
LEMMA RequestOpenSound ==
  ASSUME NEW s, Good(s), NEW F, Sound(s, F)
  PROVE  Sound(RequestOpen(s), F) /\ Sound(RequestSaveAs(s), F)
  <1>1. "ShowOpen" \in Request /\ "ShowOpen" # "AcceptClose" BY DEF Request
  <1>2. Sound(Queue(s, "ShowOpen"), F) BY <1>1, QueueSound
  <1> QED BY <1>2, QueueShowSaveAsSound DEF RequestOpen, RequestSaveAs

\* Save, or Save As for a tab without a path.
LEMMA RequestSaveSound ==
  ASSUME NEW s, Good(s), NEW F, Sound(s, F), StampRoom(s), NEW io \in Faults
  PROVE  Sound(RequestSave(s, io), F)
  <1> DEFINE path  == s.tab[s.active].path
             saved == SaveToPath(s, s.active, path, FALSE, NoGen, io)
  <1>1. CASE DecisionActive(s) \/ path = NoPath
    BY <1>1, QueueShowSaveAsSound DEF RequestSave
  <1>2. CASE ~ DecisionActive(s) /\ path # NoPath
    <2>1. s.active \in DOMAIN s.tab BY DEF Sound, Aligned
    <2>2. path \in Paths
      BY <1>2, <2>1 DEF Good, IsState, States, Tab, PathRef
    <2>3. s.external.tab # s.active
      <3>1. s.external.tab = NoDoc BY <1>2 DEF DecisionActive, NoExternal
      <3>2. s.active \in 1 .. MaxDocs BY <2>1 DEF Good, IsState, DocIds
      <3> QED BY <3>1, <3>2, DocumentConstants DEF NoDoc
    <2>4. NoGen \in GenRef BY DEF GenRef
    <2> HIDE DEF path
    <2>5. \A b : Sound(SaveToPath(s, s.active, path, b, NoGen, io), F)
      BY <2>2, <2>3, <2>4, SaveToPathSound
    <2> QED BY <1>2, <2>5 DEF path, RequestSave
  <1> QED BY <1>1, <1>2
\* RequestClose starts the walk afresh: only what is clean need not be asked.
LEMMA RequestCloseSound ==
  ASSUME NEW s, Good(s), NEW F, Sound(s, F), GenRoom(s),
         s.opening = NoOpening
  PROVE  Sound(RequestClose(s), F)
  <1> DEFINE walk == [s EXCEPT !.resolved = {}]
             id   == NextWindowCloseDirty(walk)
  <1>1. Good(walk)
    BY DEF Good, IsState, States, StripIsTabs, TabsHaveDocuments, OneTab,
           NoOverlap, Pending
  <1>2. LiveGens(walk) = LiveGens(s) BY DEF Good, IsState, States, LiveGens
  <1>3. /\ SameMatter(s, walk) /\ walk.prompt = s.prompt
        /\ walk.active = s.active /\ walk.editing = s.editing
        /\ walk.opening = s.opening /\ walk.resolved = {}
        /\ walk.requests = s.requests /\ walk.paste = s.paste
    BY DEF SameMatter, Good, IsState, States
  <1> HIDE DEF walk
  <1>4. GenRoom(walk) BY <1>2 DEF GenRoom
  <1>5. CASE DecisionActive(s) BY <1>5 DEF RequestClose
  <1>6. CASE ~ DecisionActive(s)
    <2>1. s.prompt = NoPrompt BY <1>6 DEF DecisionActive
    <2>2. Walk(walk, F)
      BY <1>3, <2>1 DEF Sound, Walk, Given, SameMatter, NoPrompt
    <2>3. Sound(walk, F) BY <1>3, <2>1, <2>2, MatterSound
    <2>4. CASE UnresolvedDirty(walk) # {}
      <3>1. id \in DOMAIN walk.tab BY <1>1, <2>4, NextWindowCloseDirtyOpen
      <3> HIDE DEF id
      <3>2. Sound(BeginPrompt(walk, "window", id), F)
        BY <1>1, <1>3, <1>4, <2>3, <3>1, BeginPromptSound
      <3> QED BY <1>6, <2>4, <3>2 DEF walk, id, RequestClose
    <2>5. CASE UnresolvedDirty(walk) = {}
      <3>1. \A d \in DOMAIN walk.docs : Given(walk, d, F)
        BY <1>1, <1>3, <2>3, <2>5, NothingUnresolved DEF Given
      <3>2. "AcceptClose" \in Request BY DEF Request
      <3>3. Sound(Queue(walk, "AcceptClose"), F)
        BY <1>1, <2>3, <3>1, <3>2, QueueSound
      <3> QED BY <1>6, <2>5, <3>3 DEF walk, RequestClose
    <2> QED BY <2>4, <2>5
  <1> QED BY <1>5, <1>6
-----------------------------------------------------------------------------
(* Answers to the three decisions *)

\* Giving more up keeps a state sound.
LEMMA GivenMore ==
  ASSUME NEW s, NEW F, NEW G, F \subseteq G, Sound(s, F)
  PROVE  Sound(s, G)
  BY DEF Sound, Walk, Given

\* Every answer to the dirty-close card. Discard gives up what it names.
LEMMA ChooseSound ==
  ASSUME NEW s, Good(s), NEW F, Sound(s, F),
         DocRoom(s), GenRoom(s), StampRoom(s),
         NEW choice \in {"cancel", "discard", "save"}, NEW io \in Faults,
         choice = "discard" =>
           <<s.prompt.tab, s.docs[s.prompt.tab].text>> \in F
  PROVE  Sound(Choose(s, choice, io), F)
  <1> DEFINE id    == s.prompt.tab
             path  == PathOf(s, id)
             saved == SaveToPath(s, id, path, FALSE, s.gen, io)
             success == SaveStatus(s, id, path, FALSE, io) = "success"
  <1>1. CASE s.prompt = NoPrompt \/ s.external # NoExternal
    BY <1>1 DEF Choose
  <1>2. CASE s.prompt # NoPrompt /\ s.external = NoExternal
    <2>1. Sound(DismissPrompt(s), F) /\ Sound(AwaitSaveAs(s), F)
      BY <1>2, DismissPromptSound, AwaitSaveAsSound
    <2>2. choice = "discard" => Sound(PerformClose(s), F)
      BY <1>2, PerformCloseSound DEF Given
    <2>3. ASSUME path # NoPath
          PROVE  IF success THEN Sound(PerformClose(saved), F)
                 ELSE Sound(saved, F)
      <3>1. id \in DOMAIN s.tab /\ s.gen \in GenRef
        BY <1>2 DEF Good, Pending, IsState, States
      <3>2. path \in Paths
        BY <2>3, <3>1
        DEF PathOf, HasTab, Good, IsState, States, Tab, PathRef
      <3>3. s.external.tab # id
        <4>1. s.external.tab = NoDoc BY <1>2 DEF NoExternal
        <4>2. id \in 1 .. MaxDocs BY <3>1 DEF Good, IsState, DocIds
        <4> QED BY <4>1, <4>2, DocumentConstants DEF NoDoc
      <3> HIDE DEF path
      <3>4. CASE success
        <4>1. /\ Sound(saved, F) /\ Given(saved, id, F)
              /\ saved.external = s.external /\ saved.prompt = s.prompt
          <5>1. \A b : SaveStatus(s, id, path, b, io) = "success" =>
                  LET m == SaveToPath(s, id, path, b, s.gen, io)
                  IN  /\ Sound(m, F) /\ Given(m, id, F)
                      /\ m.external = s.external /\ m.prompt = s.prompt
            BY <3>1, <3>2, <3>3, SaveToPathSucceeds
          <5> QED BY <3>4, <5>1
        <4>2. Good(saved)
          <5>1. \A b : Good(SaveToPath(s, id, path, b, s.gen, io))
            BY <3>1, <3>2, SaveToPathGood
          <5> QED BY <5>1
        <4>3. Keeps(s, saved)
          <5>1. \A b : SaveStatus(s, id, path, b, io) = "success" =>
                  Keeps(s, SaveToPath(s, id, path, b, s.gen, io))
            BY <3>1, <3>2, SaveToPathKeeps
          <5> QED BY <3>4, <5>1
        <4> HIDE DEF saved
        <4>4. DocRoom(saved) /\ GenRoom(saved) BY <4>3, KeepsRoom
        <4>5. Sound(PerformClose(saved), F)
          BY <1>2, <4>1, <4>2, <4>4, PerformCloseSound
        <4> QED BY <3>4, <4>5
      <3>5. CASE ~ success
        <4>1. \A b : SaveStatus(s, id, path, b, io) # "success" =>
                Sound(SaveToPath(s, id, path, b, s.gen, io), F)
          BY <3>1, <3>2, SaveFailsSound
        <4> QED BY <3>5, <4>1
      <3> QED BY <3>4, <3>5
    <2> HIDE DEF path, id
    <2> QED BY <1>2, <2>1, <2>2, <2>3 DEF id, path, Choose
  <1> QED BY <1>1, <1>2

\* Open on the large-file card shows the file's tab or gives it one.
LEMMA OpenConfirmedSound ==
  ASSUME NEW s, Good(s), NEW F, Sound(s, F), DocRoom(s), NEW path \in Paths,
         NEW io, s.prompt = NoPrompt
  PROVE  /\ Sound(OpenConfirmed(s, path, io), F)
         /\ OpenConfirmed(s, path, io).prompt = NoPrompt
  <1> DEFINE bound == CHOOSE t \in BoundTo(s, path) : TRUE
             id    == FreshDoc(s)
  <1>1. CASE ReadStatus(s.disk, path, "hard", io) # "success"
    BY <1>1 DEF OpenConfirmed
  <1>2. CASE ReadStatus(s.disk, path, "hard", io) = "success"
    <2>1. s.disk[path].exists BY <1>2 DEF ReadStatus
    <2>2. CASE BoundTo(s, path) # {}
      <3>1. bound \in DOMAIN s.tab BY <2>2 DEF BoundTo
      <3> HIDE DEF bound
      <3>2. Sound(Activate(s, bound), F) /\ SameButShown(s, Activate(s, bound))
        BY <3>1, ActivateSound
      <3> QED BY <1>2, <2>2, <3>2 DEF bound, OpenConfirmed, SameButShown
    <2>3. CASE BoundTo(s, path) = {}
      <3>1. id \in DocIds \ LiveDocs(s) BY FreshIdentity
      <3> HIDE DEF id
      <3>2. /\ Sound(LoadOpenedDocument(s, id, path), F)
            /\ LoadOpenedDocument(s, id, path).prompt = NoPrompt
        BY <2>1, <2>3, <3>1, LoadOpenedDocumentSound
      <3> QED BY <1>2, <2>3, <3>2 DEF id, OpenConfirmed
    <2> QED BY <2>2, <2>3
  <1> QED BY <1>1, <1>2

\* Every answer to the large-file card, and the rest of its list.
LEMMA ChooseLargeFileSound ==
  ASSUME NEW s, Good(s), NEW F, Sound(s, F), DocRoom(s), NEW choice, NEW io
  PROVE  Sound(ChooseLargeFile(s, choice, io), F)
  <1> DEFINE closed == [s EXCEPT !.large = NoLarge]
             after  == IF choice = "open"
                       THEN OpenConfirmed(closed, s.large.path, io)
                       ELSE closed
  <1>1. CASE s.large = NoLarge \/ s.external # NoExternal
    BY <1>1 DEF ChooseLargeFile
  <1>2. CASE s.large # NoLarge /\ s.external = NoExternal
    <2>1. s.prompt = NoPrompt BY <1>2 DEF Good, NoOverlap
    <2>2. Good(closed)
      <3>1. NoLarge \in LargeOpen BY EmptySeq DEF NoLarge, LargeOpen, PathRef
      <3> QED
        BY <3>1 DEF Good, IsState, States, StripIsTabs, TabsHaveDocuments,
                    OneTab, NoOverlap, Pending
    <2>3. LiveDocs(closed) = LiveDocs(s)
      BY DEF Good, IsState, States, LiveDocs
    <2>4. /\ SameMatter(s, closed) /\ closed.prompt = s.prompt
          /\ closed.active = s.active /\ closed.editing = s.editing
          /\ closed.opening = s.opening /\ closed.resolved = s.resolved
          /\ closed.requests = s.requests /\ closed.paste = s.paste
      BY DEF SameMatter, Good, IsState, States
    <2>5. s.large.path \in Paths /\ s.large.rest \in Seq(Names)
      BY <1>2 DEF Good, Pending, IsState, States, LargeOpen
    <2> HIDE DEF closed
    <2>6. Walk(closed, F) BY <2>4 DEF Sound, Walk, Given, SameMatter
    <2>7. Sound(closed, F) BY <2>1, <2>4, <2>6, MatterSound
    <2>8. DocRoom(closed) BY <2>3 DEF DocRoom
    <2>9. Good(after) BY <2>2, <2>5, <2>8, OpenConfirmedGood
    <2>10. Sound(after, F) /\ after.prompt = NoPrompt
      BY <2>1, <2>2, <2>4, <2>5, <2>7, <2>8, OpenConfirmedSound
    <2> HIDE DEF after
    <2>11. Sound(OpenPathList(after, s.large.rest), F)
      BY <2>9, <2>10, OpenPathListSound
    <2> QED BY <1>2, <2>10, <2>11 DEF after, closed, ChooseLargeFile
  <1> QED BY <1>1, <1>2

\* The close that ran into the conflict goes on with its tab settled.
LEMMA ContinueDirtyCloseSound ==
  ASSUME NEW s, Good(s), NEW F, Sound(s, F), DocRoom(s), GenRoom(s),
         NEW pending, Given(s, pending.tab, F), s.external = NoExternal
  PROVE  Sound(ContinueDirtyClose(s, pending), F)
  <1>1. InitiatingPrompt(s, pending) =>
          s.prompt # NoPrompt /\ s.prompt.tab = pending.tab
    BY DEF InitiatingPrompt
  <1> QED BY <1>1, PerformCloseSound DEF ContinueDirtyClose

\* Overwrite.
LEMMA OverwriteSound ==
  ASSUME NEW s, Good(s), NEW F, Sound(s, F),
         DocRoom(s), GenRoom(s), StampRoom(s), NEW pending,
         pending.path \in Paths, NEW io \in Faults
  PROVE  Sound(Overwrite(s, pending, io), F)
  <1> DEFINE saved   == SaveToPath(s, pending.tab, pending.path, TRUE, NoGen, io)
             success == SaveStatus(s, pending.tab, pending.path, TRUE, io)
                          = "success"
             closed  == [saved EXCEPT !.external = NoExternal]
  <1>1. NoGen \in GenRef BY DEF GenRef
  <1>2. CASE success
    <2>1. Good(saved)
      <3>1. \A b : Good(SaveToPath(s, pending.tab, pending.path, b, NoGen, io))
        BY <1>1, SaveToPathGood
      <3> QED BY <3>1
    <2>2. Keeps(s, saved)
      <3>1. \A b : SaveStatus(s, pending.tab, pending.path, b, io) = "success"
              => Keeps(s, SaveToPath(s, pending.tab, pending.path, b, NoGen, io))
        BY <1>1, SaveToPathKeeps
      <3> QED BY <1>2, <3>1
    <2>3. /\ Sound(closed, F) /\ Given(closed, pending.tab, F)
          /\ closed.external = NoExternal
      <3>1. \A b : SaveStatus(s, pending.tab, pending.path, b, io) = "success"
              => LET c == [SaveToPath(s, pending.tab, pending.path, b, NoGen, io)
                             EXCEPT !.external = NoExternal]
                 IN  /\ Sound(c, F) /\ Given(c, pending.tab, F)
                     /\ c.external = NoExternal
        BY <1>1, SaveClosesConflict
      <3> QED BY <1>2, <3>1
    <2> HIDE DEF saved
    <2>4. Good(closed) /\ Keeps(saved, closed) BY <2>1, NoExternalGood
    <2> HIDE DEF closed
    <2>5. DocRoom(closed) /\ GenRoom(closed) BY <2>2, <2>4, KeepsRoom
    <2>6. Sound(ContinueDirtyClose(closed, pending), F)
      BY <2>3, <2>4, <2>5, ContinueDirtyCloseSound
    <2> QED BY <1>2, <2>6 DEF closed, saved, Overwrite
  <1>3. CASE ~ success
    <2>1. \A b : SaveStatus(s, pending.tab, pending.path, b, io) # "success"
            => Sound(SaveToPath(s, pending.tab, pending.path, b, NoGen, io), F)
      BY <1>1, SaveFailsSound
    <2>2. Sound(saved, F) BY <1>3, <2>1
    <2> HIDE DEF saved
    <2> QED BY <1>3, <2>2 DEF saved, Overwrite
  <1> QED BY <1>2, <1>3

\* Reload fills the captured tab's document, which it has shown first.
LEMMA ReloadedSound ==
  ASSUME NEW s, Good(s), NEW F, Sound(s, F), ~ Quiet, NEW pending,
         pending.path \in Paths, pending.tab \in DOMAIN s.tab,
         s.tab[pending.tab].path = pending.path,
         s.disk[pending.path].exists
  PROVE  /\ Sound(Reloaded(s, pending), F)
         /\ Given(Reloaded(s, pending), pending.tab, F)
         /\ Reloaded(s, pending).external = NoExternal
  <1> DEFINE id    == pending.tab
             file  == s.disk[pending.path]
             shown == ShowTab(s, id)
             docsN  == [shown.docs EXCEPT ![id] = AtSavePoint(file.text)]
             tabN   == [shown.tab EXCEPT ![id].stamp = file.stamp]
             n     == Reloaded(s, pending)
  <1>1. Good(shown) BY ShowTabGood
  <1>2. /\ SameButShown(s, shown) /\ shown.active = id /\ shown.editing = id
    BY ShowTabFields DEF Sound, Aligned
  <1> HIDE DEF shown
  <1>3. /\ n.docs = docsN /\ n.tab = tabN /\ n.paste = FALSE
        /\ n.external = NoExternal
        /\ n.disk = shown.disk /\ n.spell = shown.spell
        /\ n.fault = shown.fault /\ n.active = shown.active
        /\ n.editing = shown.editing /\ n.opening = shown.opening
        /\ n.prompt = shown.prompt /\ n.resolved = shown.resolved
        /\ n.requests = shown.requests
    BY <1>1, <1>2
    DEF Reloaded, LoadInitialBuffer, shown, Good, IsState, States
  <1>4. id \in DOMAIN s.docs BY DEF Sound, Aligned
  <1>5. /\ DOMAIN docsN = DOMAIN s.docs
        /\ docsN[id] = AtSavePoint(file.text)
        /\ \A d \in DOMAIN s.docs \ {id} : docsN[d] = s.docs[d]
    BY <1>2, <1>4 DEF SameButShown
  <1>6. /\ DOMAIN tabN = DOMAIN s.tab
        /\ tabN[id].path = pending.path /\ tabN[id].stamp = file.stamp
        /\ \A t \in DOMAIN s.tab \ {id} : tabN[t] = s.tab[t]
    BY <1>1, <1>2 DEF SameButShown, Good, IsState, States, Tab
  <1> HIDE DEF docsN, tabN, n
  <1>7. /\ n.disk = s.disk /\ n.spell = s.spell /\ n.fault = s.fault
        /\ n.active = id /\ n.editing = id /\ n.opening = s.opening
        /\ n.prompt = s.prompt /\ n.resolved = s.resolved
        /\ n.requests = s.requests
    BY <1>2, <1>3 DEF SameButShown
  <1>8. Aligned(n) BY <1>3, <1>5, <1>6, <1>7 DEF Sound, Aligned
  <1>9. \A t \in DOMAIN s.tab \ {id} : Matches(n, t) = Matches(s, t)
    BY <1>3, <1>6, <1>7 DEF Matches
  <1>10. Vouched(n)
    <2> SUFFICES ASSUME NEW t \in DOMAIN n.tab, n.tab[t].path # NoPath,
                        Matches(n, t)
                 PROVE  n.docs[t].saved = n.disk[n.tab[t].path].text
      BY DEF Vouched
    <2>1. CASE t = id BY <1>3, <1>5, <1>6, <1>7, <2>1 DEF AtSavePoint
    <2>2. CASE t # id
      BY <1>3, <1>5, <1>6, <1>7, <1>9, <2>2 DEF Sound, Aligned, Vouched
    <2> QED BY <2>1, <2>2
  <1>11. Current(n) /\ Calm(n) BY <1>3 DEF Current, Calm
  <1>12. n.docs[id].clean BY <1>3, <1>5 DEF AtSavePoint
  <1>13. Walk(n, F)
    BY <1>3, <1>5, <1>7, <1>12 DEF Sound, Walk, Given
  <1> QED
    BY <1>3, <1>8, <1>10, <1>11, <1>12, <1>13 DEF Sound, Given, n

\* Reload.
LEMMA ReloadSound ==
  ASSUME NEW s, Good(s), NEW F, Sound(s, F), ~ Quiet,
         DocRoom(s), GenRoom(s), NEW pending, pending.path \in Paths,
         pending.tab \in DOMAIN s.tab,
         s.tab[pending.tab].path = pending.path, NEW io
  PROVE  Sound(Reload(s, pending, io), F)
  <1> DEFINE n == Reloaded(s, pending)
  <1>1. CASE ReadStatus(s.disk, pending.path, "hard", io) = "success"
    <2>1. s.disk[pending.path].exists BY <1>1 DEF ReadStatus
    <2>2. Good(n) /\ DocRoom(n) /\ GenRoom(n) BY <2>1, ReloadedGood
    <2>3. /\ Sound(n, F) /\ Given(n, pending.tab, F)
          /\ n.external = NoExternal
      BY <2>1, ReloadedSound
    <2> HIDE DEF n
    <2>4. Sound(ContinueDirtyClose(n, pending), F)
      BY <2>2, <2>3, ContinueDirtyCloseSound
    <2> QED BY <1>1, <2>4 DEF n, Reload, Reloaded
  <1>2. CASE ReadStatus(s.disk, pending.path, "hard", io) # "success"
    BY <1>2 DEF Reload
  <1> QED BY <1>1, <1>2
\* Every answer to the conflict card.
LEMMA ChooseExternalChangeSound ==
  ASSUME NEW s, Good(s), NEW F, Sound(s, F),
         DocRoom(s), GenRoom(s), StampRoom(s),
         NEW choice \in {"cancel", "saveAs", "overwrite", "reload"},
         NEW io \in Faults
  PROVE  Sound(ChooseExternalChange(s, choice, io), F)
  <1> DEFINE pending == s.external
             closed  == [s EXCEPT !.external = NoExternal]
             slotN    == [tab |-> pending.tab, gen |-> NoGen]
             manual  == Queue([closed EXCEPT !.slot = slotN], "ShowSaveAs")
  <1>1. Good(closed) BY NoExternalGood
  <1>2. Sound(closed, F) /\ closed.prompt = s.prompt
    BY NoExternalParts DEF Sound
  <1>3. slotN \in SaveAsIntent
    BY DEF Good, IsState, States, ExternalChange, SaveAsIntent, GenRef
  <1>4. CASE \/ pending = NoExternal \/ ~ HasTab(s, pending.tab)
             \/ s.tab[pending.tab].path # pending.path
    BY <1>2, <1>4 DEF ChooseExternalChange
  <1>5. CASE /\ pending # NoExternal /\ HasTab(s, pending.tab)
             /\ s.tab[pending.tab].path = pending.path
    <2>1. pending.path \in Paths /\ pending.tab \in DOMAIN s.tab
      BY <1>5 DEF Good, Pending, HasTab
    <2>2. ~ Quiet BY <1>5 DEF Sound, Calm
    <2>3. InitiatingPrompt(s, pending) => closed.prompt # NoPrompt
      BY <1>2 DEF InitiatingPrompt
    <2> HIDE DEF closed, slotN
    <2>4. InitiatingPrompt(s, pending) =>
            /\ Sound(NotifySaveIncomplete(closed), F)
            /\ Sound(AwaitSaveAs(closed), F)
      BY <1>1, <1>2, <2>3, NotifySaveIncompleteSound, AwaitSaveAsSound
    <2>5. Sound(manual, F) BY <1>1, <1>2, <1>3, SlotSound
    <2> HIDE DEF pending
    <2>6. Sound(Overwrite(s, pending, io), F) BY <2>1, OverwriteSound
    <2>7. Sound(Reload(s, pending, io), F)
      BY <1>5, <2>1, <2>2, ReloadSound
    <2> QED
      BY <1>2, <1>5, <2>4, <2>5, <2>6, <2>7
      DEF pending, slotN, closed, ChooseExternalChange
  <1> QED BY <1>4, <1>5
-----------------------------------------------------------------------------
(* File dialogs *)

\* Dialogs and the slot say nothing of tabs, files and documents.
LEMMA DialogsSound ==
  ASSUME NEW s, Good(s), NEW F, Sound(s, F), NEW dialogsN, NEW slotN
  PROVE  /\ Sound([s EXCEPT !.dialogs = dialogsN], F)
         /\ Sound([s EXCEPT !.slot = slotN, !.dialogs = dialogsN], F)
  <1>1. ASSUME NEW n,
               n \in {[s EXCEPT !.dialogs = dialogsN],
                      [s EXCEPT !.slot = slotN, !.dialogs = dialogsN]}
        PROVE  Sound(n, F)
    <2>1. /\ SameMatter(s, n) /\ n.prompt = s.prompt
          /\ n.active = s.active /\ n.editing = s.editing
          /\ n.opening = s.opening /\ n.resolved = s.resolved
          /\ n.requests = s.requests /\ n.paste = s.paste
      BY <1>1 DEF SameMatter, Good, IsState, States
    <2>2. Walk(n, F) BY <2>1 DEF Sound, Walk, Given, SameMatter
    <2>3. /\ s.opening # NoOpening => n.prompt = NoPrompt
          /\ Quiet => n.prompt = NoPrompt \/ n.prompt.tab = s.active
      BY <2>1 DEF Sound, Aligned, Calm
    <2> QED BY <2>1, <2>2, <2>3, MatterSound
  <1> QED BY <1>1

\* A dialog is asked for.
LEMMA BeginDialogSound ==
  ASSUME NEW s, Good(s), NEW F, Sound(s, F)
  PROVE  Sound(BeginOpenDialog(s), F) /\ Sound(BeginSaveAsDialog(s), F)
  BY DialogsSound DEF BeginOpenDialog, BeginSaveAsDialog

\* A dialog the portal could not show.
LEMMA AbandonDialogSound ==
  ASSUME NEW s, Good(s), NEW F, Sound(s, F), NEW dialog
  PROVE  Sound(AbandonDialog(s, dialog), F)
  <1> DEFINE gone == [s EXCEPT !.dialogs = @ \ {dialog}]
  <1>1. Sound(gone, F) BY DialogsSound
  <1>2. Good(gone) /\ gone.prompt = s.prompt BY DialogGone
  <1>3. s.prompt.awaiting => s.prompt # NoPrompt BY DEF NoPrompt
  <1> HIDE DEF gone
  <1>4. s.prompt.awaiting => Sound(NotifySaveIncomplete(gone), F)
    BY <1>1, <1>2, <1>3, NotifySaveIncompleteSound
  <1> QED BY <1>1, <1>4 DEF gone, AbandonDialog

\* Every answer to a dialog.
LEMMA HandleDialogResultSound ==
  ASSUME NEW s, Good(s), NEW F, Sound(s, F),
         DocRoom(s), GenRoom(s), StampRoom(s),
         NEW dialog \in s.dialogs, NEW accepted \in BOOLEAN,
         NEW names \in Seq(Names), names # << >>, NEW io \in Faults
  PROVE  Sound(HandleDialogResult(s, dialog, accepted, names, io), F)
  <1> DEFINE gone == [s EXCEPT !.dialogs = @ \ {dialog}]
             path == Normalize[Head(names)]
             done == ApplySaveResult(gone, dialog.tab, accepted, path,
                                     dialog.gen, io)
  <1>1. /\ Good(gone) /\ Keeps(s, gone)
        /\ gone.disk = s.disk /\ gone.tab = s.tab
    BY DialogGone
  <1>2. Sound(gone, F) BY DialogsSound
  <1>3. dialog.gen \in GenRef BY DEF Good, IsState, States, Dialog
  <1>4. path \in Paths BY HeadTailProperties, WorkspaceConstants
  <1> HIDE DEF gone, path
  <1>5. DocRoom(gone) /\ GenRoom(gone) BY <1>1, KeepsRoom
  <1>6. StampRoom(gone) BY <1>1 DEF StampRoom, LiveStamps
  <1>7. Sound(done, F)
    BY <1>1, <1>2, <1>3, <1>4, <1>5, <1>6, ApplySaveResultSound
  <1>8. Sound(ApplyOpenPaths(gone, names), F)
    BY <1>1, <1>2, ApplyOpenPathsSound
  <1> QED BY <1>2, <1>7, <1>8 DEF gone, path, HandleDialogResult
-----------------------------------------------------------------------------
(* The application *)

\* The invariant of a session without the spelling card. Before the loop
\* starts nothing has been asked for.
SessionInv ==
  /\ IndInv
  /\ Sound(S, forgone)
  /\ turn = "start" => external = NoExternal /\ requests = << >>
                       /\ large = NoLarge

\* A state with no prompt and no accepted close depends on nothing given up.
LEMMA SoundWithoutWalk ==
  ASSUME NEW s, NEW F, NEW G, Sound(s, F), s.prompt = NoPrompt,
         "AcceptClose" \notin ToSet(s.requests)
  PROVE  Sound(s, G)
  BY DEF Sound, Walk, NoPrompt

\* The variables become the fields of a sound state.
LEMMA BecomeSound ==
  ASSUME NEW n, Good(n), NEW F, Sound(n, F), Become(n)
  PROVE  Sound(S', F)
  <1>1. S' = n BY DEF S, Become, Good, IsState, States
  <1> QED BY <1>1

\* A step inside the turn that ends in a good and sound state.
LEMMA StepSound ==
  ASSUME SessionInv, turn # "start", NEW n, Good(n),
         NEW lost \in SUBSET (DocIds \X Texts),
         Sound(n, forgone \cup lost), Step(n, lost)
  PROVE  SessionInv'
  <1>1. IndInv' BY StepGood DEF SessionInv
  <1>2. Become(n) BY DEF Step
  <1>3. S' = n BY <1>2 DEF S, Become, Good, IsState, States
  <1>4. Sound(n, forgone')
    <2>1. CASE n.prompt # NoPrompt \/ Accepting(n)
      BY <2>1 DEF Step
    <2>2. CASE ~ (n.prompt # NoPrompt \/ Accepting(n))
      BY <2>2, SoundWithoutWalk DEF Accepting
    <2> QED BY <2>1, <2>2
  <1>5. Sound(S', forgone') BY <1>3, <1>4
  <1>6. turn' = turn BY DEF Step
  <1> QED BY <1>1, <1>5, <1>6 DEF SessionInv

\* The same, where the user gives nothing up.
LEMMA PlainStepSound ==
  ASSUME SessionInv, turn # "start", NEW n, Good(n), Sound(n, forgone),
         Step(n, {})
  PROVE  SessionInv'
  <1>1. forgone \cup {} = forgone OBVIOUS
  <1>2. {} \in SUBSET (DocIds \X Texts) OBVIOUS
  <1> QED BY <1>1, <1>2, StepSound

\* Nothing of the record changes, nor what was given up.
LEMMA UnchangedSound ==
  ASSUME Sound(S, forgone),
         UNCHANGED <<editorVars, disk, workspaceVars, forgone>>
  PROVE  Sound(S, forgone)'
  <1>1. S' = S /\ forgone' = forgone BY DEF S, editorVars, workspaceVars
  <1>2. Sound(S', forgone') BY <1>1
  <1> QED BY <1>2

\* One untitled tab.
LEMMA InitSound == Init => SessionInv
  <1> SUFFICES ASSUME Init PROVE SessionInv
    OBVIOUS
  <1>1. IndInv BY InitGood
  <1>2. /\ S.docs = [id \in {1} |-> AtSavePoint(Empty)] /\ S.editing = 1
        /\ S.tab = [id \in {1} |-> Untitled] /\ S.active = 1
        /\ S.spell = "closed" /\ S.fault = FALSE
        /\ S.prompt = NoPrompt /\ S.external = NoExternal
        /\ S.opening = NoOpening /\ S.requests = << >>
    BY DEF Init, S
  <1>3. external = NoExternal /\ requests = << >> /\ large = NoLarge
    BY DEF Init
  <1> HIDE DEF S
  <1>4. \A id \in DOMAIN S.tab : S.tab[id].path = NoPath
    BY <1>2 DEF Untitled
  <1>5. Aligned(S) BY <1>2 DEF Aligned, NoOpening
  <1>6. Vouched(S) /\ Current(S) /\ Calm(S)
    BY <1>2, <1>4 DEF Vouched, Current, Calm
  <1>7. Walk(S, forgone)
    <2>1. ToSet(S.requests) = {} BY <1>2 DEF ToSet
    <2> QED BY <1>2, <2>1 DEF Walk, NoPrompt
  <1> QED BY <1>1, <1>3, <1>5, <1>6, <1>7 DEF SessionInv, Sound
-----------------------------------------------------------------------------
(* Every action keeps the invariant *)

\* What an action finds in a sound state.
LEMMA Found ==
  ASSUME SessionInv
  PROVE  /\ Good(S) /\ Sound(S, forgone)
         /\ S.prompt = prompt /\ S.opening = opening
         /\ S.requests = requests /\ S.external = external
         /\ S.spell = spell /\ spell = "closed"
  <1>1. Good(S) /\ Sound(S, forgone) BY DEF SessionInv, IndInv
  <1>2. S.prompt = prompt /\ S.opening = opening
        /\ S.requests = requests /\ S.external = external /\ S.spell = spell
    BY DEF S
  <1> QED BY <1>1, <1>2 DEF Sound, Aligned

\* An input with no card up, or a result, finds no list half opened.
LEMMA FoundRoom ==
  ASSUME SessionInv, Input \/ Result
  PROVE  /\ turn # "start" /\ S.opening = NoOpening
         /\ DocRoom(S) /\ GenRoom(S) /\ StampRoom(S)
         /\ Input => S.requests = << >>
         /\ Card = "none" => S.prompt = NoPrompt
  <1>1. spell = "closed" BY Found
  <1>2. Card = "none" => prompt = NoPrompt BY <1>1 DEF Card
  <1> QED BY <1>2, RoomParts, Found DEF Input, Result, Ready, Between

\* Startup with files: their tabs know them, or the process leaves.
LEMMA StartWithFilesSound ==
  ASSUME SessionInv, StartWithFiles
  PROVE  SessionInv'
  <1>1. /\ Good(S) /\ Sound(S, forgone) /\ S.prompt = NoPrompt
        /\ S.external = NoExternal /\ S.opening = NoOpening
        /\ S.requests = << >>
    BY Found DEF SessionInv, IndInv, StartWithFiles
  <1>2. PICK n \in 1 .. MaxTabs :
          \E paths \in [1 .. n -> Paths], last \in 1 .. n :
            /\ \A i, j \in 1 .. n : i # j => paths[i] # paths[j]
            /\ IF StartupReadable(S, paths)
               THEN /\ Become(LoadStartupFiles(S, paths, last))
                    /\ turn' = "results"
               ELSE Become(S) /\ turn' = "left"
    BY DEF StartWithFiles
  <1>3. PICK paths \in [1 .. n -> Paths], last \in 1 .. n :
            /\ \A i, j \in 1 .. n : i # j => paths[i] # paths[j]
            /\ IF StartupReadable(S, paths)
               THEN /\ Become(LoadStartupFiles(S, paths, last))
                    /\ turn' = "results"
               ELSE Become(S) /\ turn' = "left"
    BY <1>2
  <1>4. n \in Nat /\ n <= MaxDocs
    BY ApplicationConstants, DocumentConstants
  <1>5. CASE StartupReadable(S, paths)
    <2>1. Good(LoadStartupFiles(S, paths, last))
      BY <1>1, <1>3, <1>4, <1>5, LoadStartupFilesGood
    <2>2. Sound(LoadStartupFiles(S, paths, last), forgone)
      BY <1>1, <1>4, <1>5, LoadStartupFilesSound
    <2>3. Sound(S', forgone) BY <1>3, <1>5, <2>1, <2>2, BecomeSound
    <2>4. forgone' = forgone /\ turn' = "results"
      BY <1>3, <1>5 DEF StartWithFiles
    <2> QED BY <2>3, <2>4, StartWithFilesGood DEF SessionInv
  <1>6. CASE ~ StartupReadable(S, paths)
    <2>1. Sound(S', forgone) BY <1>1, <1>3, <1>6, BecomeSound
    <2>2. forgone' = forgone /\ turn' = "left"
      BY <1>3, <1>6 DEF StartWithFiles
    <2> QED BY <2>1, <2>2, StartWithFilesGood DEF SessionInv
  <1> QED BY <1>5, <1>6

\* A portal answers a dialog.
LEMMA DialogResultSound ==
  ASSUME SessionInv, DialogResult
  PROVE  SessionInv'
  <1>1. /\ turn # "start" /\ DocRoom(S) /\ GenRoom(S) /\ StampRoom(S)
        /\ Good(S) /\ Sound(S, forgone)
    BY Found, FoundRoom DEF DialogResult
  <1>2. PICK d \in dialogs, accepted \in BOOLEAN, names \in NameLists,
             io \in Faults :
          Step(HandleDialogResult(S, d, accepted, names, io), {})
    BY DEF DialogResult
  <1>3. d \in S.dialogs BY DEF S
  <1>4. names \in Seq(Names) /\ names # << >> BY NameListIsSeq
  <1>5. /\ Good(HandleDialogResult(S, d, accepted, names, io))
        /\ Sound(HandleDialogResult(S, d, accepted, names, io), forgone)
    BY <1>1, <1>3, <1>4, HandleDialogResultGood, HandleDialogResultSound
  <1> QED BY <1>1, <1>2, <1>5, PlainStepSound

\* The next file of a list is opened.
LEMMA OpenNextSound ==
  ASSUME SessionInv, OpenNext
  PROVE  SessionInv'
  <1>1. /\ Good(S) /\ Sound(S, forgone) /\ turn # "start" /\ DocRoom(S)
        /\ S.opening # NoOpening
    BY Found, RoomParts DEF OpenNext, SessionInv, IndInv
  <1>2. PICK io \in Faults : Step(OpenNextPath(S, io), {}) BY DEF OpenNext
  <1>3. Good(OpenNextPath(S, io)) /\ Sound(OpenNextPath(S, io), forgone)
    BY <1>1, OpenNextPathGood, OpenNextPathSound
  <1> QED BY <1>1, <1>2, <1>3, PlainStepSound

\* The clipboard answers.
LEMMA PasteResultSound ==
  ASSUME SessionInv, PasteResult
  PROVE  SessionInv'
  <1>1. /\ Good(S) /\ Sound(S, forgone) /\ turn # "start"
        /\ S.requests = << >>
    BY Found DEF PasteResult, Result
  <1>2. PICK text \in Typed : Step(HandleClipboardResult(S, text), {})
    BY DEF PasteResult
  <1>3. text \in Texts BY ApplicationConstants
  <1>4. /\ Good(HandleClipboardResult(S, text))
        /\ Sound(HandleClipboardResult(S, text), forgone)
    BY <1>1, <1>3, HandleClipboardResultGood, HandleClipboardResultSound
  <1> QED BY <1>1, <1>2, <1>4, PlainStepSound

\* What is left of the queue was in it.
LEMMA RequestTakenSound ==
  ASSUME Good(S), NEW F, Sound(S, F), requests # << >>
  PROVE  Sound([S EXCEPT !.requests = Tail(@)], F)
  <1> DEFINE q == requests
             n == [S EXCEPT !.requests = Tail(q)]
  <1>1. q \in Seq(Request) /\ S.requests = q
    BY DEF Good, IsState, States, S
  <1> HIDE DEF q
  <1>2. ToSet(Tail(q)) \subseteq ToSet(q)
    <2>1. /\ Len(Tail(q)) = Len(q) - 1
          /\ \A i \in 1 .. Len(Tail(q)) : Tail(q)[i] = q[i + 1]
          /\ Tail(q) \in Seq(Request)
      BY <1>1, HeadTailProperties DEF q
    <2>2. /\ DOMAIN q = 1 .. Len(q) /\ Len(q) \in Nat
          /\ DOMAIN Tail(q) = 1 .. Len(Tail(q))
      BY <1>1, <2>1, LenProperties
    <2>3. \A i \in DOMAIN Tail(q) : i + 1 \in DOMAIN q
      BY <2>1, <2>2
    <2> QED BY <2>1, <2>2, <2>3 DEF ToSet
  <1> HIDE DEF S
  <1>3. /\ SameMatter(S, n) /\ n.prompt = S.prompt
        /\ n.active = S.active /\ n.editing = S.editing
        /\ n.opening = S.opening /\ n.resolved = S.resolved
        /\ n.paste = S.paste /\ n.requests = Tail(q)
    BY DEF SameMatter, Good, IsState, States
  <1> HIDE DEF n
  <1>4. Walk(n, F)
    BY <1>1, <1>2, <1>3 DEF Sound, Walk, Given, SameMatter
  <1>5. /\ S.opening # NoOpening => n.prompt = NoPrompt
        /\ Quiet => n.prompt = NoPrompt \/ n.prompt.tab = S.active
    BY <1>3 DEF Sound, Aligned, Calm
  <1>6. Sound(n, F) BY <1>3, <1>4, <1>5, MatterSound
  <1> QED BY <1>1, <1>6 DEF n

\* A dialog request becomes a dialog, shown or abandoned.
LEMMA TakeDialogRequestSound ==
  ASSUME SessionInv, TakeDialogRequest
  PROVE  SessionInv'
  <1> DEFINE popped == [S EXCEPT !.requests = Tail(@)]
             begun  == IF Head(requests) = "ShowOpen"
                       THEN BeginOpenDialog(popped)
                       ELSE BeginSaveAsDialog(popped)
  <1>1. /\ Good(S) /\ Sound(S, forgone) /\ turn # "start"
        /\ DialogRoom(S) /\ requests # << >>
    BY Found DEF TakeDialogRequest
  <1>2. Good(popped) /\ Sound(popped, forgone)
    BY <1>1, RequestTaken, RequestTakenSound
  <1>3. DialogRoom(popped) BY <1>1 DEF DialogRoom, LiveDialogs, S
  <1>4. \/ Step(begun, {})
        \/ \E d \in begun.dialogs \ dialogs : Step(AbandonDialog(begun, d), {})
    BY DEF TakeDialogRequest
  <1> HIDE DEF popped
  <1>5. Good(begun) /\ Sound(begun, forgone)
    BY <1>2, <1>3, BeginOpenDialogGood, BeginSaveAsDialogGood, BeginDialogSound
  <1> HIDE DEF begun
  <1>6. \A d : /\ Good(AbandonDialog(begun, d))
               /\ Sound(AbandonDialog(begun, d), forgone)
    BY <1>5, AbandonDialogGood, AbandonDialogSound
  <1> QED BY <1>1, <1>4, <1>5, <1>6, PlainStepSound

\* The accepted close is taken from the queue.
LEMMA AcceptCloseSound ==
  ASSUME SessionInv, AcceptClose
  PROVE  SessionInv'
  <1> DEFINE n == [S EXCEPT !.requests = Tail(@)]
  <1>1. Good(S) /\ Sound(S, forgone) /\ requests # << >>
    BY Found DEF AcceptClose
  <1>2. Good(n) /\ Sound(n, forgone)
    BY <1>1, RequestTaken, RequestTakenSound
  <1>3. Become(n) /\ forgone' = forgone /\ turn' = "inputs"
    BY DEF AcceptClose
  <1> HIDE DEF n
  <1>4. Sound(S', forgone) BY <1>2, <1>3, BecomeSound
  <1> QED BY <1>3, <1>4, AcceptCloseGood DEF SessionInv

\* The queue goes with the process, and the card is closed.
LEMMA LeavingSound ==
  ASSUME NEW n, Good(n), NEW F, Sound(n, F)
  PROVE  /\ Sound([n EXCEPT !.requests = << >>, !.spell = "closed",
                            !.scope = NoDoc], F)
         /\ Sound(CloseSpellcheck(n), F)
  <1>1. ASSUME NEW m,
               \/ m = [n EXCEPT !.requests = << >>, !.spell = "closed",
                                !.scope = NoDoc]
               \/ m = [n EXCEPT !.spell = "closed", !.scope = NoDoc]
        PROVE  Sound(m, F)
    <2>1. n.spell = "closed" BY DEF Sound, Aligned
    <2>6. n \in States(DOMAIN n.docs, DOMAIN n.tab) BY DEF Good, IsState
    <2>2. /\ SameMatter(n, m) /\ m.prompt = n.prompt
          /\ m.active = n.active /\ m.editing = n.editing
          /\ m.opening = n.opening /\ m.resolved = n.resolved
          /\ m.requests \in {n.requests, << >>} /\ m.paste = n.paste
      <3>1. CASE m = [n EXCEPT !.requests = << >>, !.spell = "closed", !.scope = NoDoc]
        BY <2>1, <2>6, <3>1 DEF SameMatter, States
      <3>2. CASE m = [n EXCEPT !.spell = "closed", !.scope = NoDoc]
        BY <2>1, <2>6, <3>2 DEF SameMatter, States
      <3> QED BY <1>1, <3>1, <3>2
    <2>3. ToSet(m.requests) \subseteq ToSet(n.requests)
      BY <2>2 DEF ToSet
    <2>4. Walk(m, F) BY <2>2, <2>3 DEF Sound, Walk, Given, SameMatter
    <2>5. /\ n.opening # NoOpening => m.prompt = NoPrompt
          /\ Quiet => m.prompt = NoPrompt \/ m.prompt.tab = n.active
      BY <2>2 DEF Sound, Aligned, Calm
    <2> QED BY <2>2, <2>4, <2>5, MatterSound
  <1> QED BY <1>1 DEF CloseSpellcheck

\* The compositor's close: the walk starts, or the process leaves.
LEMMA WindowCloseSound ==
  ASSUME SessionInv, WindowClose
  PROVE  SessionInv'
  <1> DEFINE n == RequestClose(S)
             m == [n EXCEPT !.requests = << >>, !.spell = "closed",
                            !.scope = NoDoc]
  <1>1. /\ Good(S) /\ Sound(S, forgone) /\ turn # "start" /\ GenRoom(S)
        /\ S.opening = NoOpening
    BY Found, FoundRoom DEF WindowClose
  <1>2. Good(n) /\ Sound(n, forgone)
    BY <1>1, RequestCloseGood, RequestCloseSound
  <1>3. \/ Become(m) /\ quit' = TRUE /\ turn' = "left" /\ UNCHANGED forgone
        \/ Step(n, {})
    BY DEF WindowClose
  <1> HIDE DEF n
  <1>4. Good(m) /\ Sound(m, forgone) BY <1>2, LeavingGood, LeavingSound
  <1> HIDE DEF m
  <1>5. CASE Step(n, {}) BY <1>1, <1>2, <1>5, PlainStepSound
  <1>6. CASE Become(m) /\ quit' = TRUE /\ turn' = "left" /\ UNCHANGED forgone
    <2>1. Sound(S', forgone) BY <1>4, <1>6, BecomeSound
    <2> QED BY <1>6, <2>1, WindowCloseGood DEF SessionInv
  <1> QED BY <1>3, <1>5, <1>6

\* An input with no card up that one handler serves.
LEMMA PlainInputSound ==
  ASSUME SessionInv, QuitAction \/ Edit \/ Undo \/ Paste
  PROVE  SessionInv'
  <1>1. /\ Good(S) /\ Sound(S, forgone) /\ turn # "start" /\ GenRoom(S)
        /\ S.opening = NoOpening /\ S.requests = << >>
        /\ S.prompt = NoPrompt
    BY Found, FoundRoom DEF QuitAction, Edit, Undo, Paste
  <1>2. CASE QuitAction
    BY <1>1, <1>2, RequestCloseGood, RequestCloseSound, PlainStepSound
    DEF QuitAction
  <1>3. CASE Edit
    <2>1. PICK text \in Typed : Step(EditText(S, text), {})
      BY <1>3 DEF Edit
    <2>2. text \in Texts BY ApplicationConstants
    <2>3. Good(EditText(S, text)) /\ Sound(EditText(S, text), forgone)
      BY <1>1, <2>2, EditTextGood, EditTextSound
    <2> QED BY <1>1, <2>1, <2>3, PlainStepSound
  <1>4. CASE Undo
    BY <1>1, <1>4, UndoToSavePointGood, UndoToSavePointSound, PlainStepSound
    DEF Undo
  <1>5. CASE Paste
    BY <1>1, <1>5, CardGood, RequestClipboardPasteSound, PlainStepSound
    DEF Paste
  <1> QED BY <1>2, <1>3, <1>4, <1>5

\* New Tab, a click on a tab, next and previous tab, Close Tab.
LEMMA TabActionsSound ==
  ASSUME SessionInv, TabActions \/ Close
  PROVE  SessionInv'
  <1>1. /\ Good(S) /\ Sound(S, forgone) /\ turn # "start"
        /\ DocRoom(S) /\ GenRoom(S) /\ S.opening = NoOpening
    BY Found, FoundRoom DEF TabActions, Close
  <1>2. CASE Step(NewTab(S), {})
    BY <1>1, <1>2, NewTabGood, NewTabSound, PlainStepSound
  <1>3. ASSUME NEW id \in DOMAIN tab, Step(ActivateTab(S, id), {})
        PROVE  SessionInv'
    BY <1>1, <1>3, ActivateTabGood, ActivateTabSound, PlainStepSound
  <1>4. ASSUME NEW delta \in {-1, 1}, Step(CycleTab(S, delta), {})
        PROVE  SessionInv'
    BY <1>1, <1>4, CycleTabGood, CycleTabSound, PlainStepSound
  <1>5. ASSUME NEW id \in DOMAIN tab, Step(CloseTab(S, id), {})
        PROVE  SessionInv'
    BY <1>1, <1>5, CloseTabGood, CloseTabSound, PlainStepSound
  <1> QED BY <1>2, <1>3, <1>4, <1>5 DEF TabActions, Close

\* Open, Save As, Save, and a Recent entry.
LEMMA FileActionsSound ==
  ASSUME SessionInv, FileActions \/ OpenRecent
  PROVE  SessionInv'
  <1>1. Good(S) /\ Sound(S, forgone) /\ turn # "start" /\ StampRoom(S)
    BY Found, FoundRoom DEF FileActions, OpenRecent
  <1>2. CASE Step(RequestOpen(S), {})
    BY <1>1, <1>2, RequestOpenGood, RequestOpenSound, PlainStepSound
  <1>3. CASE Step(RequestSaveAs(S), {})
    BY <1>1, <1>3, RequestSaveAsGood, RequestOpenSound, PlainStepSound
  <1>4. ASSUME NEW io \in Faults, Step(RequestSave(S, io), {})
        PROVE  SessionInv'
    BY <1>1, <1>4, RequestSaveGood, RequestSaveSound, PlainStepSound
  <1>5. ASSUME NEW name \in Names, Step(ApplyOpenPaths(S, <<name>>), {})
        PROVE  SessionInv'
    <2>1. <<name>> \in Seq(Names) /\ <<name>> # << >> OBVIOUS
    <2>2. /\ Good(ApplyOpenPaths(S, <<name>>))
          /\ Sound(ApplyOpenPaths(S, <<name>>), forgone)
      BY <1>1, <2>1, ApplyOpenPathsGood, ApplyOpenPathsSound
    <2> QED BY <1>1, <1>5, <2>2, PlainStepSound
  <1> QED BY <1>2, <1>3, <1>4, <1>5 DEF FileActions, OpenRecent

\* What the user discards is what the card names.
LEMMA AnswerUnsavedSound ==
  ASSUME SessionInv, AnswerUnsaved
  PROVE  SessionInv'
  <1> DEFINE lost == {<<prompt.tab, docs[prompt.tab].text>>}
  <1>1. /\ Good(S) /\ Sound(S, forgone) /\ turn # "start"
        /\ DocRoom(S) /\ GenRoom(S) /\ StampRoom(S)
    BY Found, FoundRoom DEF AnswerUnsaved
  <1>2. \A choice \in {"cancel", "discard", "save"} : \A io :
          Good(Choose(S, choice, io))
    BY <1>1, ChooseGood
  <1>3. \A choice \in {"cancel", "save"} : \A io \in Faults :
          Sound(Choose(S, choice, io), forgone)
    BY <1>1, ChooseSound
  <1>4. "ok" \in Faults BY ApplicationConstants
  <1>5. CASE Step(Choose(S, "cancel", "ok"), {})
    BY <1>1, <1>2, <1>3, <1>4, <1>5, PlainStepSound
  <1>6. CASE Step(Choose(S, "discard", "ok"), lost)
    <2>1. <<S.prompt.tab, S.docs[S.prompt.tab].text>> \in forgone \cup lost
      BY DEF S
    <2>2. lost \in SUBSET (DocIds \X Texts)
      <3>1. prompt # NoPrompt BY DEF AnswerUnsaved, Card
      <3>2. prompt.tab \in DOMAIN docs
        BY <1>1, <3>1 DEF Good, Pending, TabsHaveDocuments, S
      <3>3. docs \in [DOMAIN docs -> Document] /\ DOMAIN docs \subseteq DocIds
        BY <1>1 DEF Good, IsState, States, S
      <3> QED BY <3>2, <3>3 DEF Document
    <2> HIDE DEF lost
    <2>3. Sound(S, forgone \cup lost) BY <1>1, GivenMore
    <2>4. Sound(Choose(S, "discard", "ok"), forgone \cup lost)
      BY <1>1, <1>4, <2>1, <2>3, ChooseSound
    <2>5. Good(Choose(S, "discard", "ok")) BY <1>2
    <2> QED BY <1>1, <1>6, <2>2, <2>4, <2>5, StepSound
  <1>7. ASSUME NEW io \in Faults, Step(Choose(S, "save", io), {})
        PROVE  SessionInv'
    BY <1>1, <1>2, <1>3, <1>7, PlainStepSound
  <1> QED BY <1>5, <1>6, <1>7 DEF AnswerUnsaved

\* An answer to the large-file card.
LEMMA AnswerLargeFileSound ==
  ASSUME SessionInv, AnswerLargeFile
  PROVE  SessionInv'
  <1>1. Good(S) /\ Sound(S, forgone) /\ turn # "start" /\ DocRoom(S)
    BY Found, FoundRoom DEF AnswerLargeFile
  <1>2. \A choice, io : /\ Good(ChooseLargeFile(S, choice, io))
                        /\ Sound(ChooseLargeFile(S, choice, io), forgone)
    BY <1>1, ChooseLargeFileGood, ChooseLargeFileSound
  <1> QED BY <1>1, <1>2, PlainStepSound DEF AnswerLargeFile

\* An answer to the conflict card.
LEMMA AnswerExternalChangeSound ==
  ASSUME SessionInv, AnswerExternalChange
  PROVE  SessionInv'
  <1>1. /\ Good(S) /\ Sound(S, forgone) /\ turn # "start"
        /\ DocRoom(S) /\ GenRoom(S) /\ StampRoom(S)
    BY Found, FoundRoom DEF AnswerExternalChange
  <1>2. \A choice \in {"cancel", "saveAs", "overwrite", "reload"} :
          \A io \in Faults :
            /\ Good(ChooseExternalChange(S, choice, io))
            /\ Sound(ChooseExternalChange(S, choice, io), forgone)
    BY <1>1, ChooseExternalChangeGood, ChooseExternalChangeSound
  <1>3. PICK choice \in {"cancel", "saveAs", "overwrite", "reload"},
             io \in Faults :
          Step(ChooseExternalChange(S, choice, io), {})
    BY ApplicationConstants DEF AnswerExternalChange
  <1>4. /\ Good(ChooseExternalChange(S, choice, io))
        /\ Sound(ChooseExternalChange(S, choice, io), forgone)
    BY <1>2
  <1> QED BY <1>1, <1>3, <1>4, PlainStepSound

\* The batch of inputs is done.
LEMMA EndTurnSound ==
  ASSUME SessionInv, EndTurn
  PROVE  SessionInv'
  <1>1. Good(S) /\ Sound(S, forgone) BY Found
  <1>2. Good(CloseSpellcheck(S)) /\ Sound(CloseSpellcheck(S), forgone)
    BY <1>1, CardGood, LeavingSound
  <1>3. Sound(S', forgone) BY <1>1, <1>2, BecomeSound DEF EndTurn
  <1>4. turn' \in {"left", "results"} /\ forgone' = forgone BY DEF EndTurn
  <1> QED BY <1>3, <1>4, EndTurnGood DEF SessionInv

\* A file that another program writes is one that no tab knows.
LEMMA DiskSound ==
  ASSUME NEW s, Good(s), NEW F, Sound(s, F), ~ Quiet, NEW p \in Paths,
         NEW file, file.exists => file.stamp \notin LiveStamps(s)
  PROVE  Sound([s EXCEPT !.disk = [s.disk EXCEPT ![p] = file]], F)
  <1> DEFINE diskN == [s.disk EXCEPT ![p] = file]
             n    == [s EXCEPT !.disk = diskN]
  <1>1. /\ n.docs = s.docs /\ n.tab = s.tab /\ n.disk = diskN
        /\ n.external = s.external /\ n.spell = s.spell /\ n.fault = s.fault
        /\ n.active = s.active /\ n.editing = s.editing
        /\ n.opening = s.opening /\ n.prompt = s.prompt
        /\ n.resolved = s.resolved /\ n.requests = s.requests
        /\ n.paste = s.paste
    BY DEF Good, IsState, States
  <1>2. /\ diskN[p] = file
        /\ \A q \in Paths \ {p} : diskN[q] = s.disk[q]
    BY DEF Good, IsState, States, Disk
  <1> HIDE DEF diskN, n
  <1>3. \A t \in DOMAIN s.tab : s.tab[t].path \in Paths \cup {NoPath}
    BY DEF Good, IsState, States, Tab, PathRef
  <1>4. \A t \in DOMAIN s.tab : s.tab[t].path = p => ~ Matches(n, t)
    BY <1>1, <1>2 DEF Matches, DestinationMatches, LiveStamps
  <1>5. \A t \in DOMAIN s.tab :
          s.tab[t].path # p /\ s.tab[t].path # NoPath =>
            /\ Matches(n, t) = Matches(s, t)
            /\ diskN[s.tab[t].path] = s.disk[s.tab[t].path]
    BY <1>1, <1>2, <1>3 DEF Matches, DestinationMatches
  <1>6. Aligned(n) BY <1>1 DEF Sound, Aligned
  <1>7. Vouched(n)
    <2> SUFFICES ASSUME NEW t \in DOMAIN s.tab, s.tab[t].path # NoPath,
                        Matches(n, t)
                 PROVE  s.docs[t].saved = diskN[s.tab[t].path].text
      BY <1>1 DEF Vouched
    <2> QED BY <1>4, <1>5 DEF Sound, Vouched
  <1>8. Current(n)
    <2> SUFFICES ASSUME s.external # NoExternal
                 PROVE  /\ s.external.tab \in DOMAIN s.tab
                        /\ s.tab[s.external.tab].path = s.external.path
                        /\ "blind" \notin Faults => ~ Matches(n, s.external.tab)
      BY <1>1 DEF Current
    <2>1. /\ s.external.tab \in DOMAIN s.tab
          /\ s.tab[s.external.tab].path = s.external.path
          /\ "blind" \notin Faults => ~ Matches(s, s.external.tab)
      BY DEF Sound, Current
    <2>2. s.external.path # NoPath
      BY WorkspaceConstants DEF Good, Pending
    <2> QED BY <1>4, <1>5, <2>1, <2>2
  <1>9. Calm(n) BY DEF Calm
  <1>10. Walk(n, F) BY <1>1 DEF Sound, Walk, Given
  <1> QED BY <1>6, <1>7, <1>8, <1>9, <1>10 DEF Sound, n, diskN

\* Other programs.
LEMMA OtherProgramSound ==
  ASSUME SessionInv, OtherProgram
  PROVE  SessionInv'
  <1>1. /\ Good(S) /\ Sound(S, forgone) /\ StampRoom(S) /\ turn # "start"
        /\ ~ Quiet
    BY Found, RoomParts DEF OtherProgram, Quiet
  <1>2. FreshStamp(S) \notin LiveStamps(S) BY <1>1, FreshIdentity
  <1>3. PICK p \in Paths :
          \/ disk' = [disk EXCEPT ![p] = Absent]
          \/ \E text \in Foreign :
               disk' = [disk EXCEPT ![p] = FileOf(text, FreshStamp(S))]
    BY DEF OtherProgram
  <1>4. \E file : /\ file.exists => file.stamp \notin LiveStamps(S)
                  /\ disk' = [disk EXCEPT ![p] = file]
    <2>1. CASE disk' = [disk EXCEPT ![p] = Absent]
      BY <2>1 DEF Absent
    <2>2. ASSUME NEW text \in Foreign,
                 disk' = [disk EXCEPT ![p] = FileOf(text, FreshStamp(S))]
          PROVE  \E file : /\ file.exists => file.stamp \notin LiveStamps(S)
                           /\ disk' = [disk EXCEPT ![p] = file]
      <3>1. FileOf(text, FreshStamp(S)).stamp = FreshStamp(S)
        BY DEF FileOf
      <3> QED BY <1>2, <2>2, <3>1
    <2> QED BY <1>3, <2>1, <2>2
  <1>5. PICK file : /\ file.exists => file.stamp \notin LiveStamps(S)
                    /\ disk' = [disk EXCEPT ![p] = file]
    BY <1>4
  <1>6. Sound([S EXCEPT !.disk = [S.disk EXCEPT ![p] = file]], forgone)
    BY <1>1, <1>5, DiskSound
  <1>7. S' = [S EXCEPT !.disk = [S.disk EXCEPT ![p] = file]]
    BY <1>5 DEF S, OtherProgram, editorVars, workspaceVars
  <1>8. Sound(S', forgone) BY <1>6, <1>7
  <1>9. forgone' = forgone /\ turn' = turn BY DEF OtherProgram
  <1> QED BY <1>1, <1>8, <1>9, OtherProgramGood DEF SessionInv
-----------------------------------------------------------------------------
\* No action of a session without the spelling card leads out of the sound
\* states.
LEMMA NextSound ==
  ASSUME "spelling" \notin Features
  PROVE  SessionInv /\ [Next]_vars => SessionInv'
  <1> SUFFICES ASSUME SessionInv, [Next]_vars PROVE SessionInv'
    OBVIOUS
  <1>1. IndInv' BY NextGood DEF SessionInv
  <1>2. Good(S) /\ Sound(S, forgone) /\ spell = "closed" BY Found
  <1>3. CASE UNCHANGED vars \/ Terminated
    <2>1. UNCHANGED <<editorVars, disk, workspaceVars, forgone>> /\ turn' = turn
      BY <1>3 DEF vars, Terminated
    <2>2. Sound(S, forgone)' BY <1>2, <2>1, UnchangedSound
    <2>3. external' = external /\ requests' = requests /\ large' = large
      BY <2>1 DEF workspaceVars
    <2> QED BY <1>1, <2>1, <2>2, <2>3 DEF SessionInv
  <1>4. CASE StartInteractive \/ EndResults
    <2>1. /\ UNCHANGED <<editorVars, disk, workspaceVars, forgone>>
          /\ turn' # "start"
      BY <1>4 DEF StartInteractive, EndResults
    <2>2. Sound(S, forgone)' BY <1>2, <2>1, UnchangedSound
    <2> QED BY <1>1, <2>1, <2>2 DEF SessionInv
  <1>5. CASE StartWithFiles BY <1>5, StartWithFilesSound
  <1>6. CASE DialogResult BY <1>6, DialogResultSound
  <1>7. CASE OpenNext BY <1>7, OpenNextSound
  <1>8. CASE PasteResult BY <1>8, PasteResultSound
  <1>9. CASE SpellcheckResult BY <1>2, <1>9 DEF SpellcheckResult
  <1>10. CASE TakeDialogRequest BY <1>10, TakeDialogRequestSound
  <1>11. CASE AcceptClose BY <1>11, AcceptCloseSound
  <1>12. CASE WindowClose BY <1>12, WindowCloseSound
  <1>13. CASE QuitAction \/ Edit \/ Undo \/ Paste BY <1>13, PlainInputSound
  <1>14. CASE TabActions \/ Close BY <1>14, TabActionsSound
  <1>15. CASE FileActions \/ OpenRecent BY <1>15, FileActionsSound
  <1>16. CASE AnswerUnsaved BY <1>16, AnswerUnsavedSound
  <1>17. CASE AnswerLargeFile BY <1>17, AnswerLargeFileSound
  <1>18. CASE AnswerExternalChange BY <1>18, AnswerExternalChangeSound
  <1>19. CASE OpenSpelling BY <1>19 DEF OpenSpelling
  <1>20. CASE AnswerSpelling
    <2>1. Card # "spelling" BY <1>2 DEF Card
    <2> QED BY <1>20, <2>1 DEF AnswerSpelling
  <1>21. CASE EndTurn BY <1>21, EndTurnSound
  <1>22. CASE OtherProgram BY <1>22, OtherProgramSound
  <1> QED
    BY <1>3, <1>4, <1>5, <1>6, <1>7, <1>8, <1>9, <1>10, <1>11, <1>12, <1>13,
       <1>14, <1>15, <1>16, <1>17, <1>18, <1>19, <1>20, <1>21, <1>22 DEF Next

\* The invariant holds in every reachable state.
LEMMA SessionInvariant ==
  ASSUME "spelling" \notin Features
  PROVE  Spec => []SessionInv
  <1>1. Init => SessionInv BY InitSound
  <1>2. SessionInv /\ [Next]_vars => SessionInv' BY NextSound
  <1> QED BY <1>1, <1>2, PTL DEF Spec
-----------------------------------------------------------------------------
\* A tab whose stamp is the file's holds that file's bytes at its save point,
\* through every open, save, reload and overwrite and every write of another
\* program: a guarded save replaces only what the user has seen.
THEOREM StampsVouch ==
  ASSUME "spelling" \notin Features
  PROVE  Spec => []StampVouchesForSavePoint
  <1>1. SessionInv => StampVouchesForSavePoint
    <2> SUFFICES ASSUME SessionInv PROVE StampVouchesForSavePoint
      OBVIOUS
    <2>1. Vouched(S) BY DEF SessionInv, Sound
    <2>2. S.tab = tab /\ S.docs = docs /\ S.disk = disk BY DEF S
    <2> HIDE DEF S
    <2> QED BY <2>1, <2>2 DEF Vouched, Matches, StampVouchesForSavePoint
  <1> QED BY <1>1, SessionInvariant, PTL

\* Whenever the window close is accepted, every modified document is one
\* whose contents the user chose to discard in this very walk, whatever was
\* typed, pasted, saved or conflicting in between (AdvanceOrAcceptWindowClose).
THEOREM ClosesAreAgreed ==
  ASSUME "spelling" \notin Features
  PROVE  Spec => []AcceptedCloseWasAgreed
  <1>1. SessionInv => AcceptedCloseWasAgreed
    <2> SUFFICES ASSUME SessionInv PROVE AcceptedCloseWasAgreed
      OBVIOUS
    <2>1. Walk(S, forgone) BY DEF SessionInv, Sound
    <2>2. S.requests = requests /\ S.docs = docs BY DEF S
    <2> HIDE DEF S
    <2> QED BY <2>1, <2>2 DEF Walk, Given, AcceptedCloseWasAgreed
  <1> QED BY <1>1, SessionInvariant, PTL

\* Outside a review the tabs are the retained documents, the active tab is
\* the one being edited, and the editor is never told to close the document
\* it edits or to show one that is gone (it would throw, and nothing catches).
THEOREM TabsStayDocuments ==
  ASSUME "spelling" \notin Features
  PROVE  Spec => [](TabsAreDocuments /\ NoEditorMisuse /\ ActiveIsEdited)
  <1>1. SessionInv => TabsAreDocuments /\ NoEditorMisuse /\ ActiveIsEdited
    <2> SUFFICES ASSUME SessionInv
                 PROVE  TabsAreDocuments /\ NoEditorMisuse /\ ActiveIsEdited
      OBVIOUS
    <2>1. Aligned(S) /\ StripIsTabs(S) BY DEF SessionInv, Sound, IndInv, Good
    <2>2. /\ S.tab = tab /\ S.docs = docs /\ S.strip = strip
          /\ S.active = active /\ S.editing = editing /\ S.fault = fault
      BY DEF S
    <2> HIDE DEF S
    <2> QED
      BY <2>1, <2>2
      DEF Aligned, StripIsTabs, TabsAreDocuments, NoEditorMisuse,
          ActiveIsEdited
  <1> QED BY <1>1, SessionInvariant, PTL

\* When every destination can be inspected, the conflict card names an open
\* tab, the path that tab is bound to, and a conflict that still exists,
\* although delayed Save As results save, rebind and close tabs under it.
THEOREM ConflictsStayTrue ==
  ASSUME "spelling" \notin Features, "blind" \notin Faults
  PROVE  Spec => []ConflictStaysInItsTab
  <1>1. SessionInv => ConflictStaysInItsTab
    <2> SUFFICES ASSUME SessionInv PROVE ConflictStaysInItsTab
      OBVIOUS
    <2>1. Aligned(S) /\ Current(S) BY DEF SessionInv, Sound
    <2>2. /\ S.tab = tab /\ S.disk = disk /\ S.external = external
          /\ S.active = active /\ S.editing = editing
      BY DEF S
    <2> HIDE DEF S
    <2>3. ConflictIsCurrent
      BY <2>1, <2>2
      DEF Current, Matches, DestinationMatches, ConflictIsCurrent
    <2> QED
      BY <2>1, <2>2, <2>3
      DEF Aligned, ActiveIsEdited, ConflictStaysInItsTab
  <1> QED BY <1>1, SessionInvariant, PTL

\* While nothing but the application touches the files no save finds a
\* conflict, and then the dirty-close card always names the active tab. (A
\* conflict card covers the prompt of one tab with another tab's conflict.)
THEOREM PromptsNameTheActiveTab ==
  ASSUME "spelling" \notin Features, Quiet
  PROVE  Spec => []TabsAgree
  <1>1. SessionInv => PromptNamesActive
    <2> SUFFICES ASSUME SessionInv PROVE PromptNamesActive
      OBVIOUS
    <2>1. Calm(S) BY DEF SessionInv, Sound
    <2>2. S.prompt = prompt /\ S.active = active BY DEF S
    <2> HIDE DEF S
    <2> QED BY <2>1, <2>2 DEF Calm, PromptNamesActive
  <1>2. TabsAreDocuments /\ NoEditorMisuse /\ PromptNamesActive => TabsAgree
    BY DEF TabsAgree
  <1>3. Spec => []PromptNamesActive BY <1>1, SessionInvariant, PTL
  <1>4. Spec => [](TabsAreDocuments /\ NoEditorMisuse /\ ActiveIsEdited)
    BY TabsStayDocuments
  <1> QED BY <1>2, <1>3, <1>4, PTL

=============================================================================
