----------------------- MODULE HistoryAndDialogProofs -----------------------
(* Proofs about two components that share nothing.

   The undo history of a document: between any two calls the editor record is Good.
   The recorded actions lead along "trail", their data lying one after the other in
   the scraps (Placed says where); the trail is the saved one as far as the save
   point or the point where it was left for good; units of undo end where the text
   was saved; and what is only composed is the last that was recorded.

   The file dialogs: every dialog that is tracked can be answered, and the workspace
   is told of each what DialogPromise says.  The messages that have been sent and not
   dispatched are a set here: no part of the invariant depends on their order, nor on
   where they are.                                                                *)
EXTENDS UndoHistory, PortalDialogs, SequenceTheorems, WellFoundedInduction, TLAPS

-----------------------------------------------------------------------------
(* Texts *)

\* Three texts on end.
LEMMA ConcatenatedThree ==
  ASSUME NEW S, NEW a \in Seq(S), NEW s \in Seq(S), NEW b \in Seq(S)
  PROVE  \A i \in 1 .. Len((a \o s) \o b) :
           ((a \o s) \o b)[i] = IF i <= Len(a) THEN a[i]
                                ELSE IF i <= Len(a) + Len(s) THEN s[i - Len(a)]
                                ELSE b[i - (Len(a) + Len(s))]
  <1>1. PICK f : f = a \o s OBVIOUS
  <1>2. PICK g : g = f \o b OBVIOUS
  <1>3. /\ f \in Seq(S) /\ Len(f) = Len(a) + Len(s)
        /\ \A i \in 1 .. Len(a) + Len(s) : f[i] = IF i <= Len(a) THEN a[i] ELSE s[i - Len(a)]
    BY <1>1, ConcatProperties, Zenon
  <1>4. /\ g \in Seq(S) /\ Len(g) = Len(f) + Len(b)
        /\ \A i \in 1 .. Len(f) + Len(b) : g[i] = IF i <= Len(f) THEN f[i] ELSE b[i - Len(f)]
    <2>1. /\ f \o b \in Seq(S) /\ Len(f \o b) = Len(f) + Len(b)
          /\ \A i \in 1 .. Len(f) + Len(b) :
               (f \o b)[i] = IF i <= Len(f) THEN f[i] ELSE b[i - Len(f)]
      <3>1. f \in Seq(S) BY <1>3
      <3> QED BY <3>1, ConcatProperties, Zenon
    <2> QED BY <1>2, <2>1, Zenon
  <1>5. g = (a \o s) \o b BY <1>1, <1>2, Zenon
  <1>6. Len(a) \in Nat /\ Len(s) \in Nat /\ Len(b) \in Nat OBVIOUS
  <1>7. ASSUME NEW i \in 1 .. Len(g)
        PROVE  g[i] = IF i <= Len(a) THEN a[i]
                      ELSE IF i <= Len(a) + Len(s) THEN s[i - Len(a)]
                      ELSE b[i - (Len(a) + Len(s))]
    <2>0. i \in 1 .. Len(f) + Len(b) BY <1>4
    <2>1. CASE i <= Len(f)
      <3>1. i \in 1 .. Len(a) + Len(s) BY <1>3, <1>6, <2>1
      <3>2. g[i] = f[i] BY <1>4, <2>0, <2>1
      <3> QED BY <1>3, <2>1, <3>1, <3>2
    <2>2. CASE ~(i <= Len(f))
      <3>1. g[i] = b[i - Len(f)] BY <1>4, <2>0, <2>2
      <3>2. ~(i <= Len(a)) BY <1>3, <1>6, <2>2
      <3> QED BY <1>3, <2>2, <3>1, <3>2
    <2> QED BY <2>1, <2>2
  <1> QED BY <1>5, <1>7, Zenon

\* What inserting makes of a text, character by character.
LEMMA JoinedIs ==
  ASSUME NEW S, NEW t \in Seq(S), NEW p \in 0 .. Len(t), NEW s \in Seq(S)
  PROVE  /\ Joined(t, p, s) \in Seq(S) /\ Len(Joined(t, p, s)) = Len(t) + Len(s)
         /\ \A i \in 1 .. Len(t) + Len(s) :
              Joined(t, p, s)[i] =
                IF i <= p THEN t[i] ELSE IF i <= p + Len(s) THEN s[i - p] ELSE t[i - Len(s)]
  <1>0. Len(t) \in Nat /\ Len(s) \in Nat /\ p \in Nat /\ p <= Len(t) OBVIOUS
  <1>1. PICK a : a = SubSeq(t, 1, p) OBVIOUS
  <1>2. PICK b : b = SubSeq(t, p + 1, Len(t)) OBVIOUS
  <1>3. a \in Seq(S) /\ Len(a) = p /\ \A i \in 1 .. p : a[i] = t[i] BY <1>1
  <1>4. /\ b \in Seq(S) /\ Len(b) = Len(t) - p
        /\ \A i \in 1 .. Len(t) - p : b[i] = t[p + i]
    BY <1>2
  <1>5. PICK j \in Seq(S) :
        /\ j = (a \o s) \o b /\ Len(j) = Len(a) + Len(s) + Len(b)
        /\ \A i \in 1 .. Len(j) :
             j[i] = IF i <= Len(a) THEN a[i]
                    ELSE IF i <= Len(a) + Len(s) THEN s[i - Len(a)]
                    ELSE b[i - (Len(a) + Len(s))]
    <2>1. a \in Seq(S) /\ b \in Seq(S) BY <1>3, <1>4
    <2>2. (a \o s) \o b \in Seq(S) /\ Len((a \o s) \o b) = Len(a) + Len(s) + Len(b) BY <2>1
    <2>3. \A i \in 1 .. Len((a \o s) \o b) :
            ((a \o s) \o b)[i] = IF i <= Len(a) THEN a[i]
                                 ELSE IF i <= Len(a) + Len(s) THEN s[i - Len(a)]
                                 ELSE b[i - (Len(a) + Len(s))]
      BY <2>1, ConcatenatedThree, Zenon
    <2> QED BY <2>2, <2>3, Zenon
  <1>6. Joined(t, p, s) = j BY <1>1, <1>2, <1>5, Zenon DEF Joined
  <1>7. Len(j) = Len(t) + Len(s)
    <2>1. Len(j) = Len(a) + Len(s) + Len(b) /\ Len(a) = p /\ Len(b) = Len(t) - p
      BY <1>3, <1>4, <1>5, Zenon
    <2> QED BY <1>0, <2>1
  <1>8. ASSUME NEW i \in 1 .. Len(t) + Len(s)
        PROVE  j[i] = IF i <= p THEN t[i] ELSE IF i <= p + Len(s) THEN s[i - p] ELSE t[i - Len(s)]
    <2>0. j[i] = IF i <= p THEN a[i] ELSE IF i <= p + Len(s) THEN s[i - p] ELSE b[i - (p + Len(s))]
      BY <1>3, <1>5, <1>7, Zenon
    <2>1. CASE i <= p
      <3>1. i \in 1 .. p BY <2>1
      <3> QED BY <1>3, <2>0, <2>1, <3>1
    <2>2. CASE ~(i <= p) /\ i <= p + Len(s) BY <2>0, <2>2
    <2>3. CASE ~(i <= p) /\ ~(i <= p + Len(s))
      <3>1. i - (p + Len(s)) \in 1 .. Len(t) - p /\ p + (i - (p + Len(s))) = i - Len(s)
        BY <1>0, <2>3
      <3>2. j[i] = b[i - (p + Len(s))] BY <2>0, <2>3
      <3>3. b[i - (p + Len(s))] = t[p + (i - (p + Len(s)))] BY <1>4, <3>1
      <3> QED BY <2>3, <3>1, <3>2, <3>3
    <2> QED BY <2>1, <2>2, <2>3
  <1> QED BY <1>6, <1>7, <1>8, Zenon

\* What deleting makes of a text, character by character.
LEMMA CutIs ==
  ASSUME NEW S, NEW t \in Seq(S), NEW p \in Nat, NEW l \in Nat, p + l <= Len(t)
  PROVE  /\ Cut(t, p, l) \in Seq(S) /\ Len(Cut(t, p, l)) = Len(t) - l
         /\ \A i \in 1 .. Len(t) - l : Cut(t, p, l)[i] = IF i <= p THEN t[i] ELSE t[i + l]
  <1> DEFINE a == SubSeq(t, 1, p)
             b == SubSeq(t, p + l + 1, Len(t))
             c == a \o b
  <1>0. Len(t) \in Nat OBVIOUS
  <1>1. a \in Seq(S) /\ Len(a) = p /\ \A i \in 1 .. p : a[i] = t[i] BY <1>0
  <1>2. /\ b \in Seq(S) /\ Len(b) = Len(t) - l - p
        /\ \A i \in 1 .. Len(t) - l - p : b[i] = t[p + l + i]
    BY <1>0
  <1> HIDE DEF a, b
  <1>3. /\ c \in Seq(S) /\ Len(c) = Len(t) - l
        /\ \A i \in 1 .. Len(t) - l : c[i] = IF i <= p THEN a[i] ELSE b[i - p]
    <2>1. a \in Seq(S) /\ Len(a) = p BY <1>1
    <2>2. b \in Seq(S) /\ Len(b) = Len(t) - l - p BY <1>2
    <2> QED BY <1>0, <2>1, <2>2
  <1>4. Cut(t, p, l) = c BY DEF Cut, c, a, b
  <1> HIDE DEF c
  <1>5. ASSUME NEW i \in 1 .. Len(t) - l
        PROVE  c[i] = IF i <= p THEN t[i] ELSE t[i + l]
    <2>1. CASE i <= p
      <3>1. i \in 1 .. p BY <2>1
      <3> QED BY <1>1, <1>3, <2>1, <3>1
    <2>2. CASE ~(i <= p)
      <3>1. i - p \in 1 .. Len(t) - l - p /\ p + l + (i - p) = i + l BY <1>0, <2>2
      <3> QED BY <1>2, <1>3, <2>2, <3>1
    <2> QED BY <2>1, <2>2
  <1> QED BY <1>3, <1>4, <1>5

(* The same, in one word. *)
IsCut(c, t, p, l) ==
    /\ Len(c) = Len(t) - l
    /\ \A i \in 1 .. Len(t) - l : c[i] = IF i <= p THEN t[i] ELSE t[i + l]

LEMMA CutAre ==
  ASSUME NEW S, NEW t \in Seq(S), NEW p \in Nat, NEW l \in Nat, p + l <= Len(t)
  PROVE  Cut(t, p, l) \in Seq(S) /\ IsCut(Cut(t, p, l), t, p, l)
  <1>1. PICK c : c = Cut(t, p, l) OBVIOUS
  <1>2. /\ c \in Seq(S) /\ Len(c) = Len(t) - l
        /\ \A i \in 1 .. Len(t) - l : c[i] = IF i <= p THEN t[i] ELSE t[i + l]
    BY <1>1, CutIs, Zenon
  <1>3. IsCut(c, t, p, l) BY <1>2, Zenon DEF IsCut
  <1> QED BY <1>1, <1>2, <1>3, Zenon

\* What a part of a text holds.
LEMMA PartIs ==
  ASSUME NEW S, NEW t \in Seq(S), NEW p \in Nat, NEW l \in Nat, p + l <= Len(t)
  PROVE  /\ Part(t, p, l) \in Seq(S) /\ Len(Part(t, p, l)) = l
         /\ \A i \in 1 .. l : Part(t, p, l)[i] = t[p + i]
  <1>1. Len(t) \in Nat OBVIOUS
  <1> QED BY <1>1 DEF Part

\* Deleting what was inserted, and inserting what was deleted, gives the text back.
LEMMA CutOfJoined ==
  ASSUME NEW S, NEW t \in Seq(S), NEW p \in 0 .. Len(t), NEW s \in Seq(S)
  PROVE  Cut(Joined(t, p, s), p, Len(s)) = t
  <1> DEFINE j == Joined(t, p, s)
             c == Cut(j, p, Len(s))
  <1>0. Len(t) \in Nat /\ Len(s) \in Nat /\ p \in Nat /\ p <= Len(t) OBVIOUS
  <1>1. /\ j \in Seq(S) /\ Len(j) = Len(t) + Len(s)
        /\ \A i \in 1 .. Len(t) + Len(s) :
             j[i] = IF i <= p THEN t[i] ELSE IF i <= p + Len(s) THEN s[i - p] ELSE t[i - Len(s)]
    BY JoinedIs
  <1> HIDE DEF j
  <1>2. p + Len(s) <= Len(j) BY <1>0, <1>1
  <1>3. /\ c \in Seq(S) /\ Len(c) = Len(j) - Len(s)
        /\ \A i \in 1 .. Len(j) - Len(s) : c[i] = IF i <= p THEN j[i] ELSE j[i + Len(s)]
    <2>1. j \in Seq(S) BY <1>1
    <2>2. Len(s) \in Nat /\ p \in Nat BY <1>0
    <2>3. c \in Seq(S) /\ IsCut(c, j, p, Len(s)) BY <1>2, <2>1, <2>2, CutAre, Zenon
    <2> QED BY <2>3 DEF IsCut
  <1> HIDE DEF c
  <1>4. Len(c) = Len(t) BY <1>0, <1>1, <1>3
  <1>5. ASSUME NEW i \in 1 .. Len(t) PROVE c[i] = t[i]
    <2>0. i \in 1 .. Len(j) - Len(s) BY <1>0, <1>1
    <2>1. CASE i <= p
      <3>1. i \in 1 .. Len(t) + Len(s) BY <1>0
      <3> QED BY <1>1, <1>3, <2>0, <2>1, <3>1
    <2>2. CASE ~(i <= p)
      <3>1. /\ i + Len(s) \in 1 .. Len(t) + Len(s) /\ ~(i + Len(s) <= p)
            /\ ~(i + Len(s) <= p + Len(s)) /\ i + Len(s) - Len(s) = i
        BY <1>0, <2>2
      <3>2. c[i] = j[i + Len(s)] BY <1>3, <2>0, <2>2
      <3>3. j[i + Len(s)] = t[i] BY <1>1, <3>1
      <3> QED BY <3>2, <3>3
    <2> QED BY <2>1, <2>2
  <1>6. c = t BY <1>3, <1>4, <1>5, SeqEqual
  <1> QED BY <1>6 DEF c, j

\* Putting back what was cut gives the text again.
LEMMA JoinedOfCut ==
  ASSUME NEW S, NEW t \in Seq(S), NEW p \in Nat, NEW l \in Nat, p + l <= Len(t)
  PROVE  p <= Len(Cut(t, p, l)) /\ Joined(Cut(t, p, l), p, Part(t, p, l)) = t
  <1> DEFINE c == Cut(t, p, l)
             s == Part(t, p, l)
             j == Joined(c, p, s)
  <1>0. Len(t) \in Nat OBVIOUS
  <1>1. /\ c \in Seq(S) /\ Len(c) = Len(t) - l
        /\ \A i \in 1 .. Len(t) - l : c[i] = IF i <= p THEN t[i] ELSE t[i + l]
    BY CutIs
  <1>2. s \in Seq(S) /\ Len(s) = l /\ \A i \in 1 .. l : s[i] = t[p + i]
    BY PartIs
  <1> HIDE DEF c, s
  <1>3. p \in 0 .. Len(c) BY <1>0, <1>1
  <1>4. /\ j \in Seq(S) /\ Len(j) = Len(c) + Len(s)
        /\ \A i \in 1 .. Len(c) + Len(s) :
             j[i] = IF i <= p THEN c[i] ELSE IF i <= p + Len(s) THEN s[i - p] ELSE c[i - Len(s)]
    <2>1. c \in Seq(S) /\ s \in Seq(S) BY <1>1, <1>2
    <2> QED BY <1>3, <2>1, JoinedIs
  <1> HIDE DEF j
  <1>5. Len(j) = Len(t) BY <1>0, <1>1, <1>2, <1>4
  <1>6. ASSUME NEW i \in 1 .. Len(t) PROVE j[i] = t[i]
    <2>0. i \in 1 .. Len(c) + Len(s) BY <1>0, <1>1, <1>2
    <2>1. CASE i <= p
      <3>1. i \in 1 .. Len(t) - l BY <1>0, <2>1
      <3> QED BY <1>1, <1>4, <2>0, <2>1, <3>1
    <2>2. CASE ~(i <= p) /\ i <= p + l
      <3>1. i - p \in 1 .. l /\ p + (i - p) = i BY <2>2
      <3> QED BY <1>2, <1>4, <2>0, <2>2, <3>1
    <2>3. CASE ~(i <= p) /\ ~(i <= p + l)
      <3>1. i - l \in 1 .. Len(t) - l /\ ~(i - l <= p) /\ i - l + l = i BY <1>0, <2>3
      <3> QED BY <1>1, <1>2, <1>4, <2>0, <2>3, <3>1
    <2> QED BY <2>1, <2>2, <2>3
  <1>7. j = t BY <1>4, <1>5, <1>6, SeqEqual
  <1>8. p <= Len(c) BY <1>3, <1>0, <1>1
  <1> QED BY <1>7, <1>8 DEF j, c, s
-----------------------------------------------------------------------------
(* What is true of an editor between any two calls. *)

Chars == Letters \cup {Composed}
Actions == [at : {"insert", "remove"}, mayCoalesce : BOOLEAN, position : Nat, length : Nat \ {0}]
Places == Nat \cup {None}
Editors ==
    [text : Texts, actions : Seq(Actions), current : Nat, depth : Nat,
     savePoint : Places, tentative : Places, detach : Places, scraps : Texts, scrapAt : Nat,
     notified : BOOLEAN, trail : Seq(Texts), savedTrail : Seq(Texts)]

IsEditor(d) ==
    /\ d \in Editors /\ d.current <= Recorded(d) /\ d.tentative <= d.current
    /\ Len(d.trail) = Recorded(d) + 1 /\ d.text = d.trail[d.current + 1]

(* An action and its data lead from one text to the next. *)
Leads(before, action, data, after) ==
    /\ Len(data) = action.length
    /\ IF action.at = "insert"
       THEN action.position <= Len(before) /\ after = Joined(before, action.position, data)
       ELSE /\ action.position + action.length <= Len(before)
            /\ data = Part(before, action.position, action.length)
            /\ after = Cut(before, action.position, action.length)

(* Where in the scraps the data of the actions lie: the actions led along the trail. *)
Placed(d, at) ==
    /\ at \in [1 .. Recorded(d) + 1 -> 0 .. Len(d.scraps)] /\ d.scrapAt = at[d.current + 1]
    /\ \A j, k \in 1 .. Recorded(d) + 1 : j <= k => at[j] <= at[k]
    /\ \A k \in 1 .. Recorded(d) :
          /\ at[k + 1] = at[k] + d.actions[k].length
          /\ Leads(d.trail[k], d.actions[k], Part(d.scraps, at[k], d.actions[k].length),
                   d.trail[k + 1])
Retraced(d) == \E at : Placed(d, at)

(* As far as the save point, or where it was left for good, the trail is the saved one. *)
Saved(d) ==
    /\ d.savedTrail # <<>>
    /\ d.savePoint # None =>
          /\ Len(d.savedTrail) = d.savePoint + 1 /\ d.detach = None
          /\ \A i \in 1 .. d.savePoint + 1 : i <= Len(d.trail) => d.savedTrail[i] = d.trail[i]
    /\ d.detach # None =>
          /\ Len(d.savedTrail) > d.detach /\ Len(d.trail) > d.detach
          /\ \A i \in 1 .. d.detach + 1 : d.savedTrail[i] = d.trail[i]

(* Units of undo end at the save point and at the current place. *)
Parted(d) ==
    /\ d.savePoint \in 1 .. Recorded(d) - 1 => ~d.actions[d.savePoint].mayCoalesce
    /\ d.current \in 1 .. Recorded(d) - 1 => ~d.actions[d.current].mayCoalesce
    /\ d.depth > 0 /\ d.current = d.savePoint /\ d.current > 0 =>
          ~d.actions[d.current].mayCoalesce

Plain(text) == Composed \notin Range(text)
Clean(d) ==
    \A k \in 1 .. Len(d.trail) : (Tentative(d) => k <= d.tentative + 1) => Plain(d.trail[k])

Good(d) ==
    /\ IsEditor(d) /\ Retraced(d) /\ Saved(d) /\ Parted(d) /\ Clean(d)
    /\ d.notified = IsSavePoint(d)

(* Tentative text is what was recorded last, past the point of leaving the saved way. *)
Composes(d) == d.tentative < d.current /\ d.current = Recorded(d) /\ d.detach <= d.tentative

HistoryInv == Good(editor) /\ editor.depth = 0 /\ (Tentative(editor) => Composes(editor))

(* The same but for its depth, and for actions that coalesce less. *)
Alike(d, e) ==
    /\ e.text = d.text /\ e.current = d.current /\ e.savePoint = d.savePoint
    /\ e.tentative = d.tentative /\ e.detach = d.detach
    /\ e.scraps = d.scraps /\ e.scrapAt = d.scrapAt /\ e.notified = d.notified
    /\ e.trail = d.trail /\ e.savedTrail = d.savedTrail
    /\ Recorded(e) = Recorded(d)
    /\ \A k \in 1 .. Recorded(d) :
          /\ e.actions[k].at = d.actions[k].at /\ e.actions[k].position = d.actions[k].position
          /\ e.actions[k].length = d.actions[k].length
          /\ e.actions[k].mayCoalesce => d.actions[k].mayCoalesce

\* What an editor record holds, field by field.
LEMMA EditorFields ==
  ASSUME NEW d, IsEditor(d)
  PROVE  /\ d \in Editors /\ d.text \in Texts /\ d.actions \in Seq(Actions) /\ Recorded(d) \in Nat
         /\ d.current \in 0 .. Recorded(d) /\ d.depth \in Nat
         /\ d.savePoint \in Places /\ d.tentative \in Places /\ d.detach \in Places
         /\ d.tentative <= d.current
         /\ d.scraps \in Texts /\ d.scrapAt \in Nat /\ d.notified \in BOOLEAN
         /\ d.trail \in Seq(Texts) /\ d.savedTrail \in Seq(Texts)
         /\ Len(d.trail) = Recorded(d) + 1 /\ d.text = d.trail[d.current + 1]
         /\ \A k \in 1 .. Recorded(d) : d.actions[k] \in Actions
         /\ \A k \in 1 .. Recorded(d) + 1 : d.trail[k] \in Texts
  <1>1. d \in Editors BY DEF IsEditor
  <1>2. /\ d.text \in Texts /\ d.actions \in Seq(Actions) /\ d.current \in Nat /\ d.depth \in Nat
        /\ d.savePoint \in Places /\ d.tentative \in Places /\ d.detach \in Places
        /\ d.scraps \in Texts /\ d.scrapAt \in Nat /\ d.notified \in BOOLEAN
        /\ d.trail \in Seq(Texts) /\ d.savedTrail \in Seq(Texts)
    BY <1>1 DEF Editors
  <1>3. Recorded(d) \in Nat /\ \A k \in 1 .. Recorded(d) : d.actions[k] \in Actions
    BY <1>2 DEF Recorded
  <1>4. /\ d.current <= Recorded(d) /\ d.tentative <= d.current
        /\ Len(d.trail) = Recorded(d) + 1 /\ d.text = d.trail[d.current + 1]
    BY DEF IsEditor
  <1>5. \A k \in 1 .. Recorded(d) + 1 : d.trail[k] \in Texts BY <1>2, <1>4
  <1> QED BY <1>1, <1>2, <1>3, <1>4, <1>5

\* An action that ends its unit.
LEMMA QuietAction ==
  ASSUME NEW s \in Seq(Actions), NEW c \in 1 .. Len(s)
  PROVE  LET r == [s EXCEPT ![c].mayCoalesce = FALSE] IN
         /\ r \in Seq(Actions) /\ Len(r) = Len(s) /\ ~r[c].mayCoalesce
         /\ \A k \in 1 .. Len(s) :
               /\ r[k].at = s[k].at /\ r[k].position = s[k].position /\ r[k].length = s[k].length
               /\ r[k].mayCoalesce => s[k].mayCoalesce
  <1>1. PICK v : v = [s[c] EXCEPT !.mayCoalesce = FALSE] OBVIOUS
  <1>2. s[c] \in Actions OBVIOUS
  <1>3. /\ v \in Actions /\ v.at = s[c].at /\ v.position = s[c].position
        /\ v.length = s[c].length /\ v.mayCoalesce = FALSE
    BY <1>1, <1>2 DEF Actions
  <1>4. PICK r : r = [s EXCEPT ![c] = v] OBVIOUS
  <1>5. /\ r \in Seq(Actions) /\ Len(r) = Len(s)
        /\ \A k \in 1 .. Len(s) : r[k] = IF k = c THEN v ELSE s[k]
    BY <1>3, <1>4, ExceptSeq
  <1>6. \A k \in 1 .. Len(s) :
               /\ r[k].at = s[k].at /\ r[k].position = s[k].position /\ r[k].length = s[k].length
               /\ r[k].mayCoalesce => s[k].mayCoalesce
    BY <1>3, <1>5
  <1>7. [s EXCEPT ![c].mayCoalesce = FALSE] = r BY <1>1, <1>4
  <1> QED BY <1>3, <1>5, <1>6, <1>7

\* Closing a unit of undo changes no more than what coalesces.
LEMMA CloseIs ==
  ASSUME NEW d, IsEditor(d)
  PROVE  /\ Close(d) \in Editors /\ Alike(d, Close(d)) /\ Close(d).depth = d.depth
         /\ d.current > 0 => ~Close(d).actions[d.current].mayCoalesce
  <1>1. d \in Editors /\ d.actions \in Seq(Actions) /\ d.current \in 0 .. Recorded(d)
    BY EditorFields
  <1>2. CASE d.current = 0 BY <1>1, <1>2 DEF Close, Alike
  <1>3. CASE d.current # 0
    <2>1. d.current \in 1 .. Len(d.actions) BY <1>1, <1>3 DEF Recorded
    <2>2. PICK r : r = [d.actions EXCEPT ![d.current].mayCoalesce = FALSE] OBVIOUS
    <2>3. /\ r \in Seq(Actions) /\ Len(r) = Len(d.actions) /\ ~r[d.current].mayCoalesce
          /\ \A k \in 1 .. Len(d.actions) :
               /\ r[k].at = d.actions[k].at /\ r[k].position = d.actions[k].position
               /\ r[k].length = d.actions[k].length
               /\ r[k].mayCoalesce => d.actions[k].mayCoalesce
      BY <1>1, <2>1, <2>2, QuietAction
    <2>4. Close(d) = [d EXCEPT !.actions = r] BY <1>3, <2>2 DEF Close
    <2>5. Close(d) \in Editors BY <1>1, <2>3, <2>4 DEF Editors
    <2>6. Alike(d, Close(d)) /\ Close(d).depth = d.depth /\ Close(d).actions = r
      BY <1>1, <2>3, <2>4 DEF Editors, Alike, Recorded
    <2> QED BY <2>3, <2>5, <2>6
  <1> QED BY <1>2, <1>3

\* Alike editors are both editors,
LEMMA AlikeEditor ==
  ASSUME NEW d, NEW e, IsEditor(d), e \in Editors, Alike(d, e)
  PROVE  IsEditor(e)
  BY DEF IsEditor, Alike

\* retrace the same trail,
LEMMA AlikeRetraced ==
  ASSUME NEW d, NEW e, IsEditor(d), Retraced(d), Alike(d, e)
  PROVE  Retraced(e)
  <1>1. PICK at : Placed(d, at) BY DEF Retraced
  <1>2. at \in [1 .. Recorded(e) + 1 -> 0 .. Len(e.scraps)] /\ e.scrapAt = at[e.current + 1]
    BY <1>1 DEF Placed, Alike
  <1>3. \A j, k \in 1 .. Recorded(e) + 1 : j <= k => at[j] <= at[k]
    BY <1>1 DEF Placed, Alike
  <1>4. ASSUME NEW k \in 1 .. Recorded(e)
        PROVE  /\ at[k + 1] = at[k] + e.actions[k].length
               /\ Leads(e.trail[k], e.actions[k], Part(e.scraps, at[k], e.actions[k].length),
                        e.trail[k + 1])
    <2>1. /\ Recorded(e) = Recorded(d) /\ e.trail = d.trail /\ e.scraps = d.scraps
          /\ e.actions[k].at = d.actions[k].at /\ e.actions[k].position = d.actions[k].position
          /\ e.actions[k].length = d.actions[k].length
      BY <1>4 DEF Alike
    <2>2. /\ at[k + 1] = at[k] + d.actions[k].length
          /\ Leads(d.trail[k], d.actions[k], Part(d.scraps, at[k], d.actions[k].length),
                   d.trail[k + 1])
      BY <1>1, <2>1 DEF Placed
    <2> QED BY <2>1, <2>2 DEF Leads
  <1>5. Placed(e, at) BY <1>2, <1>3, <1>4 DEF Placed
  <1> QED BY <1>5 DEF Retraced

\* What coalesces less is as good as it was.
LEMMA AlikeGood ==
  ASSUME NEW d, NEW e, Good(d), e \in Editors, Alike(d, e),
         e.depth > 0 /\ e.current = e.savePoint /\ e.current > 0 => ~e.actions[e.current].mayCoalesce
  PROVE  Good(e)
  <1>1. IsEditor(d) /\ Retraced(d) /\ Saved(d) /\ Parted(d) /\ Clean(d) BY DEF Good
  <1>2. IsEditor(e) /\ Retraced(e) BY <1>1, AlikeEditor, AlikeRetraced
  <1>3. Saved(e) BY <1>1 DEF Saved, Alike
  <1>4. Parted(e)
    <2>1. Recorded(d) \in Nat /\ Recorded(e) = Recorded(d) BY <1>1, EditorFields DEF Alike
    <2>2. \A k \in 1 .. Recorded(d) - 1 : e.actions[k].mayCoalesce => d.actions[k].mayCoalesce
      BY <2>1 DEF Alike
    <2>3. e.savePoint = d.savePoint /\ e.current = d.current BY DEF Alike
    <2>4. /\ d.savePoint \in 1 .. Recorded(d) - 1 => ~d.actions[d.savePoint].mayCoalesce
          /\ d.current \in 1 .. Recorded(d) - 1 => ~d.actions[d.current].mayCoalesce
      BY <1>1 DEF Parted
    <2> QED BY <2>1, <2>2, <2>3, <2>4 DEF Parted
  <1>5. Clean(e) BY <1>1 DEF Clean, Alike, Tentative
  <1>6. e.notified = IsSavePoint(e) BY DEF Good, Alike, IsSavePoint
  <1> QED BY <1>2, <1>3, <1>4, <1>5, <1>6 DEF Good

\* One that is like one that is like a third is like the third.
LEMMA AlikeTransitive ==
  ASSUME NEW d, NEW e, NEW f, Alike(d, e), Alike(e, f)
  PROVE  Alike(d, f)
  BY DEF Alike

\* BeginUndoAction opens a group and leaves the rest.
LEMMA BeginGood ==
  ASSUME NEW d, Good(d), d.depth = 0
  PROVE  Good(BeginUndoAction(d)) /\ Alike(d, BeginUndoAction(d)) /\ BeginUndoAction(d).depth = 1
  <1> DEFINE b == BeginUndoAction(d)
  <1>1. IsEditor(d) BY DEF Good
  <1>2. PICK c : c = Close(d) OBVIOUS
  <1>3. /\ c \in Editors /\ Alike(d, c) /\ c.depth = 0
        /\ d.current > 0 => ~c.actions[d.current].mayCoalesce
    BY <1>1, <1>2, CloseIs
  <1>4. b = [c EXCEPT !.depth = 1] BY <1>2, <1>3 DEF BeginUndoAction
  <1> HIDE DEF b
  <1>5. b \in Editors /\ Alike(c, b) /\ b.depth = 1 /\ b.actions = c.actions /\ b.current = c.current
    <2>1. b \in Editors /\ b.depth = 1 /\ b.actions = c.actions BY <1>3, <1>4 DEF Editors
    <2>2. /\ b.text = c.text /\ b.current = c.current /\ b.savePoint = c.savePoint
          /\ b.tentative = c.tentative /\ b.detach = c.detach
          /\ b.scraps = c.scraps /\ b.scrapAt = c.scrapAt /\ b.notified = c.notified
          /\ b.trail = c.trail /\ b.savedTrail = c.savedTrail
      BY <1>3, <1>4 DEF Editors
    <2> QED BY <2>1, <2>2 DEF Alike, Recorded
  <1>6. Alike(d, b) BY <1>3, <1>5, AlikeTransitive
  <1>7. b.current > 0 => ~b.actions[b.current].mayCoalesce BY <1>3, <1>5 DEF Alike
  <1>8. Good(b) BY <1>5, <1>6, <1>7, AlikeGood
  <1> QED BY <1>5, <1>6, <1>8 DEF b

\* EndUndoAction closes it.
LEMMA EndGood ==
  ASSUME NEW d, Good(d), d.depth = 1
  PROVE  Good(EndUndoAction(d)) /\ Alike(d, EndUndoAction(d)) /\ EndUndoAction(d).depth = 0
  <1> DEFINE b == EndUndoAction(d)
  <1>1. IsEditor(d) /\ d \in Editors BY DEF Good, IsEditor
  <1>2. PICK c : c = [d EXCEPT !.depth = 0] OBVIOUS
  <1>3. c \in Editors /\ Alike(d, c) /\ c.depth = 0
    <2>1. c \in Editors /\ c.depth = 0 /\ c.actions = d.actions BY <1>1, <1>2 DEF Editors
    <2>2. /\ c.text = d.text /\ c.current = d.current /\ c.savePoint = d.savePoint
          /\ c.tentative = d.tentative /\ c.detach = d.detach
          /\ c.scraps = d.scraps /\ c.scrapAt = d.scrapAt /\ c.notified = d.notified
          /\ c.trail = d.trail /\ c.savedTrail = d.savedTrail
      BY <1>1, <1>2 DEF Editors
    <2> QED BY <2>1, <2>2 DEF Alike, Recorded
  <1>4. IsEditor(c) BY <1>1, <1>3, AlikeEditor
  <1>5. b = Close(c) BY <1>2, <1>3 DEF EndUndoAction
  <1>6. b \in Editors /\ Alike(c, b) /\ b.depth = 0 BY <1>3, <1>4, <1>5, CloseIs
  <1>7. Alike(d, b) BY <1>3, <1>6, AlikeTransitive
  <1> HIDE DEF b
  <1>8. Good(b) BY <1>6, <1>7, AlikeGood
  <1> QED BY <1>6, <1>7, <1>8 DEF b

-----------------------------------------------------------------------------
(* Recording an action. *)

\* Part of what is kept is part of what there was; what is appended is there.
LEMMA PartOfKept ==
  ASSUME NEW S, NEW s \in Seq(S), NEW t \in Seq(S), NEW n \in 0 .. Len(s),
         NEW p \in Nat, NEW l \in Nat, p + l <= n
  PROVE  Part(SubSeq(s, 1, n) \o t, p, l) = Part(s, p, l)
  <1>0. Len(s) \in Nat /\ Len(t) \in Nat /\ n \in Nat /\ n <= Len(s) OBVIOUS
  <1>1. PICK a : a = SubSeq(s, 1, n) OBVIOUS
  <1>2. a \in Seq(S) /\ Len(a) = n /\ \A i \in 1 .. n : a[i] = s[i] BY <1>1
  <1>3. PICK j : j = a \o t OBVIOUS
  <1>4. j \in Seq(S) /\ Len(j) = n + Len(t)
    <2>1. a \in Seq(S) /\ Len(a) = n BY <1>2
    <2>2. a \o t \in Seq(S) /\ Len(a \o t) = n + Len(t) BY <1>0, <2>1
    <2> QED BY <1>3, <2>2, Zenon
  <1>5. \A i \in 1 .. n : j[i] = a[i]
    <2>1. a \in Seq(S) /\ Len(a) = n BY <1>2
    <2> QED BY <1>0, <1>3, <2>1
  <1>6. Part(j, p, l) \in Seq(S) /\ Len(Part(j, p, l)) = l /\ \A i \in 1 .. l : Part(j, p, l)[i] = j[p + i]
    <2>1. p + l <= Len(j) /\ j \in Seq(S) BY <1>0, <1>4
    <2> QED BY <2>1, PartIs
  <1>7. Part(s, p, l) \in Seq(S) /\ Len(Part(s, p, l)) = l /\ \A i \in 1 .. l : Part(s, p, l)[i] = s[p + i]
    <2>1. p + l <= Len(s) BY <1>0
    <2> QED BY <2>1, PartIs
  <1>8. \A i \in 1 .. l : Part(j, p, l)[i] = Part(s, p, l)[i]
    <2> TAKE i \in 1 .. l
    <2>1. p + i \in 1 .. n BY <1>0
    <2> QED BY <1>2, <1>5, <1>6, <1>7, <2>1
  <1>9. Part(j, p, l) = Part(s, p, l) BY <1>6, <1>7, <1>8, SeqEqual
  <1> QED BY <1>1, <1>3, <1>9

\* What is appended is found where it was put.
LEMMA PartOfAppended ==
  ASSUME NEW S, NEW s \in Seq(S), NEW t \in Seq(S), NEW n \in 0 .. Len(s)
  PROVE  /\ Part(SubSeq(s, 1, n) \o t, n, Len(t)) = t
         /\ SubSeq(s, 1, n) \o t \in Seq(S) /\ Len(SubSeq(s, 1, n) \o t) = n + Len(t)
  <1>0. Len(s) \in Nat /\ Len(t) \in Nat /\ n \in Nat /\ n <= Len(s) OBVIOUS
  <1>1. PICK a : a = SubSeq(s, 1, n) OBVIOUS
  <1>2. a \in Seq(S) /\ Len(a) = n BY <1>1
  <1>3. PICK j : j = a \o t OBVIOUS
  <1>4. j \in Seq(S) /\ Len(j) = n + Len(t)
    <2>1. a \in Seq(S) /\ Len(a) = n BY <1>2
    <2>2. a \o t \in Seq(S) /\ Len(a \o t) = n + Len(t) BY <1>0, <2>1
    <2> QED BY <1>3, <2>2, Zenon
  <1>5. \A i \in 1 .. Len(t) : j[n + i] = t[i] BY <1>0, <1>2, <1>3
  <1>6. /\ Part(j, n, Len(t)) \in Seq(S) /\ Len(Part(j, n, Len(t))) = Len(t)
        /\ \A i \in 1 .. Len(t) : Part(j, n, Len(t))[i] = j[n + i]
    <2>1. n + Len(t) <= Len(j) /\ j \in Seq(S) /\ n \in Nat /\ Len(t) \in Nat BY <1>0, <1>4
    <2> QED BY <2>1, PartIs
  <1>7. \A i \in 1 .. Len(t) : Part(j, n, Len(t))[i] = t[i] BY <1>5, <1>6
  <1>8. Part(j, n, Len(t)) = t BY <1>6, <1>7, SeqEqual
  <1> QED BY <1>1, <1>3, <1>4, <1>8

\* What is cut off and what is put on end.
IsGrown(r, s, n, x) == r = Append(SubSeq(s, 1, n), x)

\* A sequence cut short and grown by one.
LEMMA GrownIs ==
  ASSUME NEW S, NEW s \in Seq(S), NEW n \in 0 .. Len(s), NEW x \in S, NEW r, IsGrown(r, s, n, x)
  PROVE  /\ r \in Seq(S) /\ Len(r) = n + 1 /\ r[n + 1] = x
         /\ \A i \in 1 .. n : r[i] = s[i]
  <1>1. PICK a : a = SubSeq(s, 1, n) OBVIOUS
  <1>2. a \in Seq(S) /\ Len(a) = n /\ \A i \in 1 .. n : a[i] = s[i] BY <1>1
  <1>3. r = Append(a, x) BY <1>1 DEF IsGrown
  <1>4. r \in Seq(S) /\ Len(r) = n + 1 /\ r[n + 1] = x /\ \A i \in 1 .. n : r[i] = a[i]
    BY <1>2, <1>3
  <1> QED BY <1>2, <1>4

\* Where the history leaves the saved way.
LEMMA DetachedIs ==
  ASSUME NEW d, IsEditor(d), Saved(d)
  PROVE  LET l == Detached(d) IN
         /\ l \in Editors /\ l = [d EXCEPT !.savePoint = l.savePoint, !.detach = l.detach]
         /\ l.savePoint # None => /\ l.savePoint = d.savePoint /\ l.savePoint <= d.current
                                  /\ l.detach = None
         /\ l.detach <= d.current
         /\ l.detach # None =>
               /\ Len(d.savedTrail) > l.detach
               /\ \A i \in 1 .. l.detach + 1 : d.savedTrail[i] = d.trail[i]
         /\ d.current >= d.savePoint /\ d.detach <= d.current =>
               l.detach = d.detach /\ l.savePoint = d.savePoint
  <1> DEFINE l == Detached(d)
  <1>1. /\ d \in Editors /\ d.savePoint \in Places /\ d.detach \in Places
        /\ d.current \in 0 .. Recorded(d) /\ Recorded(d) \in Nat /\ d.savedTrail \in Seq(Texts)
        /\ Len(d.trail) = Recorded(d) + 1
    BY EditorFields
  <1>2. CASE d.current < d.savePoint
    <2>1. /\ d.savePoint # None /\ d.detach = None /\ Len(d.savedTrail) = d.savePoint + 1
          /\ \A i \in 1 .. d.savePoint + 1 : i <= Len(d.trail) => d.savedTrail[i] = d.trail[i]
      BY <1>1, <1>2 DEF Saved, None, Places
    <2>2. l = [d EXCEPT !.savePoint = None, !.detach = d.current] BY <1>2, <2>1 DEF Detached
    <2>3. l \in Editors /\ l.savePoint = None /\ l.detach = d.current
      BY <1>1, <2>2 DEF Editors, Places, None
    <2>4. \A i \in 1 .. d.current + 1 : d.savedTrail[i] = d.trail[i]
      BY <1>1, <1>2, <2>1 DEF Places, None
    <2>5. Len(d.savedTrail) > d.current BY <1>1, <1>2, <2>1 DEF Places, None
    <2>6. l = [d EXCEPT !.savePoint = l.savePoint, !.detach = l.detach] BY <2>2, <2>3
    <2> HIDE DEF l
    <2>7. l.detach <= d.current BY <1>1, <2>3
    <2>8. ~(d.current >= d.savePoint) BY <1>1, <1>2 DEF Places, None
    <2> QED BY <2>3, <2>4, <2>5, <2>6, <2>7, <2>8 DEF l
  <1>3. CASE ~(d.current < d.savePoint) /\ d.detach > d.current
    <2>1. l = [d EXCEPT !.detach = d.current] BY <1>3 DEF Detached
    <2>2. /\ d.detach # None /\ Len(d.savedTrail) > d.detach
          /\ \A i \in 1 .. d.detach + 1 : d.savedTrail[i] = d.trail[i]
      BY <1>1, <1>3 DEF Saved, None, Places
    <2>3. d.savePoint = None BY <2>2 DEF Saved
    <2>4. l \in Editors /\ l.savePoint = d.savePoint /\ l.detach = d.current
      BY <1>1, <2>1 DEF Editors, Places
    <2>5. Len(d.savedTrail) > d.current /\ \A i \in 1 .. d.current + 1 : d.savedTrail[i] = d.trail[i]
      BY <1>1, <1>3, <2>2 DEF Places, None
    <2>6. l = [d EXCEPT !.savePoint = l.savePoint, !.detach = l.detach] BY <1>1, <2>1, <2>4 DEF Editors
    <2> HIDE DEF l
    <2>7. l.detach <= d.current /\ ~(d.detach <= d.current) BY <1>1, <1>3, <2>4 DEF Places, None
    <2> QED BY <2>3, <2>4, <2>5, <2>6, <2>7 DEF l
  <1>4. CASE ~(d.current < d.savePoint) /\ ~(d.detach > d.current)
    <2>1. l = d BY <1>4 DEF Detached
    <2>2. d = [d EXCEPT !.savePoint = d.savePoint, !.detach = d.detach] BY <1>1 DEF Editors
    <2>3. d.savePoint <= d.current /\ d.detach <= d.current BY <1>1, <1>4 DEF Places, None
    <2>4. d.savePoint # None => d.detach = None BY DEF Saved
    <2>5. d.detach # None =>
               /\ Len(d.savedTrail) > d.detach
               /\ \A i \in 1 .. d.detach + 1 : d.savedTrail[i] = d.trail[i]
      BY DEF Saved
    <2> HIDE DEF l
    <2> QED BY <1>1, <2>1, <2>2, <2>3, <2>4, <2>5 DEF l
  <1> QED BY <1>2, <1>3, <1>4

Entry(at, position, data) ==
    [at |-> at, mayCoalesce |-> TRUE, position |-> position, length |-> Len(data)]

(* The same actions, whatever they coalesce with. *)
SameActions(acts, d) ==
    /\ acts \in Seq(Actions) /\ Len(acts) = Recorded(d)
    /\ \A k \in 1 .. Recorded(d) :
          /\ acts[k].at = d.actions[k].at /\ acts[k].position = d.actions[k].position
          /\ acts[k].length = d.actions[k].length

(* The record of a change, field by field. *)
Recording(d, e, l, acts, action, data, text) ==
    /\ SameActions(acts, d)
    /\ \A k \in 1 .. Recorded(d) : acts[k].mayCoalesce => d.actions[k].mayCoalesce
    /\ d.current > 0 /\ d.current = d.savePoint => ~acts[d.current].mayCoalesce
    /\ e = [text |-> text, actions |-> Append(SubSeq(acts, 1, d.current), action),
             current |-> d.current + 1, depth |-> d.depth, savePoint |-> l.savePoint,
             tentative |-> d.tentative, detach |-> l.detach,
             scraps |-> SubSeq(d.scraps, 1, d.scrapAt) \o data,
             scrapAt |-> d.scrapAt + Len(data), notified |-> FALSE,
             trail |-> Append(SubSeq(d.trail, 1, d.current + 1), text),
             savedTrail |-> d.savedTrail]

\* What AppendAction and the change of the text make of a good editor.
LEMMA RecordIs ==
  ASSUME NEW d, Good(d), NEW at \in {"insert", "remove"}, NEW position \in Nat,
         NEW data \in Texts, data # <<>>, NEW text \in Texts
  PROVE  \E acts : Recording(d, Changed(AppendAction(d, at, position, data), d, text),
                             Detached(d), acts, Entry(at, position, data), data, text)
  <1> DEFINE n == d.current
             e == Changed(AppendAction(d, at, position, data), d, text)
  <1>1. IsEditor(d) /\ Saved(d) /\ Parted(d) /\ d.notified = IsSavePoint(d) BY DEF Good
  <1>2. /\ d \in Editors /\ n \in 0 .. Recorded(d) /\ d.savePoint \in Places
        /\ Recorded(d) \in Nat /\ d.depth \in Nat
    BY <1>1, EditorFields
  <1>3. PICK l : l = Detached(d) OBVIOUS
  <1>4. /\ l \in Editors /\ l = [d EXCEPT !.savePoint = l.savePoint, !.detach = l.detach]
        /\ l.savePoint # None => l.savePoint = d.savePoint /\ l.savePoint <= n
        /\ d.savePoint = n => l.savePoint = n
    <2>1. /\ l \in Editors /\ l = [d EXCEPT !.savePoint = l.savePoint, !.detach = l.detach]
          /\ l.savePoint # None => l.savePoint = d.savePoint /\ l.savePoint <= n
      BY <1>1, <1>3, DetachedIs
    <2>2. d.savePoint = n => l.savePoint = d.savePoint
      BY <1>2, <1>3 DEF Detached, Editors
    <2> QED BY <2>1, <2>2
  <1>5. /\ l.actions = d.actions /\ l.current = n /\ l.depth = d.depth /\ l.scraps = d.scraps
        /\ l.scrapAt = d.scrapAt /\ l.trail = d.trail /\ l.savedTrail = d.savedTrail
        /\ l.tentative = d.tentative /\ l.text = d.text /\ l.notified = d.notified
    BY <1>2, <1>4 DEF Editors
  <1>6. IsEditor(l) BY <1>1, <1>4, <1>5 DEF IsEditor, Recorded
  <1>7. PICK action : action = Entry(at, position, data) OBVIOUS
  <1>8. PICK c : c = IF Coalesces(l, action) THEN l ELSE Close(l) OBVIOUS
  <1>9. /\ c \in Editors /\ Alike(l, c) /\ c.depth = d.depth
        /\ n > 0 /\ n = d.savePoint => ~c.actions[n].mayCoalesce
    <2>1. CASE Coalesces(l, action)
      <3>1. c = l BY <1>8, <2>1
      <3>2. n > 0 => n # d.savePoint
        <4> SUFFICES ASSUME n > 0, n = d.savePoint PROVE FALSE OBVIOUS
        <4>1. l.depth > 0 /\ l.actions[n].mayCoalesce
          BY <1>4, <1>5, <2>1 DEF Coalesces
        <4>2. d.depth > 0 /\ d.actions[n].mayCoalesce BY <1>5, <4>1
        <4> QED BY <1>1, <4>2 DEF Parted
      <3> QED BY <1>4, <1>5, <3>1, <3>2 DEF Alike
    <2>2. CASE ~Coalesces(l, action)
      <3>1. c = Close(l) BY <1>8, <2>2
      <3> QED BY <1>5, <1>6, <3>1, CloseIs
    <2> QED BY <2>1, <2>2
  <1>10. PICK acts : acts = c.actions OBVIOUS
  <1>11. /\ acts \in Seq(Actions) /\ Len(acts) = Recorded(d)
         /\ \A k \in 1 .. Recorded(d) :
               /\ acts[k].at = d.actions[k].at /\ acts[k].position = d.actions[k].position
               /\ acts[k].length = d.actions[k].length
               /\ acts[k].mayCoalesce => d.actions[k].mayCoalesce
    BY <1>5, <1>9, <1>10 DEF Alike, Recorded, Editors
  <1>12. PICK p : p = Push(c, data) OBVIOUS
  <1>13. p = [c EXCEPT !.scraps = SubSeq(d.scraps, 1, d.scrapAt) \o data, !.scrapAt = d.scrapAt + Len(data)]
    BY <1>5, <1>9, <1>12 DEF Push, Alike
  <1>14. AppendAction(d, at, position, data) =
            [p EXCEPT !.actions = Append(SubSeq(p.actions, 1, n), action), !.current = n + 1]
    BY <1>3, <1>7, <1>8, <1>12 DEF AppendAction, Entry
  <1>15. PICK a : a = AppendAction(d, at, position, data) OBVIOUS
  <1>16. a = [c EXCEPT !.scraps = SubSeq(d.scraps, 1, d.scrapAt) \o data, !.scrapAt = d.scrapAt + Len(data),
                       !.actions = Append(SubSeq(acts, 1, n), action), !.current = n + 1]
    BY <1>9, <1>10, <1>13, <1>14, <1>15 DEF Editors
  <1>17. e = [a EXCEPT !.text = text, !.trail = Append(SubSeq(d.trail, 1, n + 1), text),
                       !.notified = FALSE]
    <2>1. (IF IsSavePoint(d) THEN FALSE ELSE d.notified) = FALSE BY <1>1
    <2> QED BY <1>15, <2>1 DEF Changed
  <1>18. e = [text |-> text, actions |-> Append(SubSeq(acts, 1, n), action),
              current |-> n + 1, depth |-> d.depth, savePoint |-> l.savePoint,
              tentative |-> d.tentative, detach |-> l.detach,
              scraps |-> SubSeq(d.scraps, 1, d.scrapAt) \o data,
              scrapAt |-> d.scrapAt + Len(data), notified |-> FALSE,
              trail |-> Append(SubSeq(d.trail, 1, n + 1), text), savedTrail |-> d.savedTrail]
    <2>1. /\ c.depth = d.depth /\ c.savePoint = l.savePoint /\ c.tentative = d.tentative
          /\ c.detach = l.detach /\ c.savedTrail = d.savedTrail
      BY <1>5, <1>9 DEF Alike
    <2>2. PICK ss : ss = SubSeq(d.scraps, 1, d.scrapAt) \o data OBVIOUS
    <2>3. PICK sa : sa = d.scrapAt + Len(data) OBVIOUS
    <2>4. PICK aa : aa = Append(SubSeq(acts, 1, n), action) OBVIOUS
    <2>5. PICK tt : tt = Append(SubSeq(d.trail, 1, n + 1), text) OBVIOUS
    <2>6. a = [c EXCEPT !.scraps = ss, !.scrapAt = sa, !.actions = aa, !.current = n + 1]
      BY <1>16, <2>2, <2>3, <2>4
    <2>7. e = [a EXCEPT !.text = text, !.trail = tt, !.notified = FALSE] BY <1>17, <2>5
    <2> HIDE DEF e, n
    <2>8. e = [text |-> text, actions |-> aa, current |-> n + 1, depth |-> c.depth,
               savePoint |-> c.savePoint, tentative |-> c.tentative, detach |-> c.detach,
               scraps |-> ss, scrapAt |-> sa, notified |-> FALSE, trail |-> tt,
               savedTrail |-> c.savedTrail]
      BY <1>9, <2>6, <2>7 DEF Editors
    <2> QED BY <2>1, <2>2, <2>3, <2>4, <2>5, <2>8
  <1>19. SameActions(acts, d) BY <1>11, Zenon DEF SameActions
  <1>20. /\ \A k \in 1 .. Recorded(d) : acts[k].mayCoalesce => d.actions[k].mayCoalesce
         /\ n > 0 /\ n = d.savePoint => ~acts[n].mayCoalesce
    BY <1>9, <1>10, <1>11, Zenon
  <1>21. Recording(d, e, l, acts, action, data, text) BY <1>18, <1>19, <1>20, Zenon DEF Recording
  <1> QED BY <1>3, <1>7, <1>21, Zenon


(* What recording an action does to the history. *)
Records(d, e, acts, action, data, text) ==
    /\ e.actions = Append(SubSeq(acts, 1, d.current), action) /\ e.current = d.current + 1
    /\ e.scraps = SubSeq(d.scraps, 1, d.scrapAt) \o data /\ e.scrapAt = d.scrapAt + Len(data)
    /\ e.trail = Append(SubSeq(d.trail, 1, d.current + 1), text)

\* The trail of a recorded change: it is the data appended to the scraps that lead on.
LEMMA RecordRetraced ==
  ASSUME NEW d, IsEditor(d), Retraced(d), NEW e, NEW acts, SameActions(acts, d),
         NEW action \in Actions, NEW data \in Texts, NEW text \in Texts,
         Leads(d.text, action, data, text), Records(d, e, acts, action, data, text)
  PROVE  Retraced(e)
  <1>n. PICK n : n = d.current OBVIOUS
  <1>l. PICK l : l = Len(data) OBVIOUS
  <1>r. PICK r : r = Recorded(d) OBVIOUS
  <1>a. /\ n \in 0 .. r /\ r \in Nat /\ d.scraps \in Texts /\ d.scrapAt \in Nat
        /\ d.trail \in Seq(Texts) /\ Len(d.trail) = r + 1 /\ d.text = d.trail[n + 1]
    BY <1>n, <1>r, EditorFields
  <1>b. /\ Texts = Seq(Chars) /\ data \in Seq(Chars) /\ d.scraps \in Seq(Chars)
    BY <1>a DEF Texts, Chars
  <1>0. n \in Nat /\ r \in Nat /\ n <= r /\ l \in Nat /\ d.scrapAt \in Nat
    BY <1>a, <1>b, <1>l
  <1>1. PICK at : Placed(d, at) BY DEF Retraced
  <1>2. /\ at \in [1 .. r + 1 -> 0 .. Len(d.scraps)] /\ d.scrapAt = at[n + 1]
        /\ \A j, k \in 1 .. r + 1 : j <= k => at[j] <= at[k]
        /\ \A k \in 1 .. r :
              /\ at[k + 1] = at[k] + d.actions[k].length
              /\ Leads(d.trail[k], d.actions[k], Part(d.scraps, at[k], d.actions[k].length),
                       d.trail[k + 1])
    BY <1>1, <1>n, <1>r DEF Placed
  <1>3. n + 1 \in 1 .. r + 1 /\ d.scrapAt \in 0 .. Len(d.scraps)
    <2>1. n + 1 \in 1 .. r + 1 BY <1>0
    <2> QED BY <1>2, <2>1
  <1>4. /\ Part(e.scraps, d.scrapAt, l) = data /\ e.scraps \in Seq(Chars) /\ Len(e.scraps) = d.scrapAt + l
    <2>1. e.scraps = SubSeq(d.scraps, 1, d.scrapAt) \o data BY DEF Records
    <2>2. data \in Seq(Chars) /\ d.scraps \in Seq(Chars) BY <1>b
    <2>3. /\ Part(SubSeq(d.scraps, 1, d.scrapAt) \o data, d.scrapAt, Len(data)) = data
          /\ SubSeq(d.scraps, 1, d.scrapAt) \o data \in Seq(Chars)
          /\ Len(SubSeq(d.scraps, 1, d.scrapAt) \o data) = d.scrapAt + Len(data)
      BY <2>2, <1>3, PartOfAppended, Zenon
    <2> QED BY <1>l, <2>1, <2>3, Zenon
  <1>5. /\ e.actions \in Seq(Actions) /\ Recorded(e) = n + 1 /\ e.actions[n + 1] = action
        /\ \A k \in 1 .. n : e.actions[k] = acts[k]
    <2>0. acts \in Seq(Actions) /\ Len(acts) = r BY <1>r DEF SameActions
    <2>1. n \in 0 .. Len(acts) BY <1>0, <2>0
    <2>2. e.actions = Append(SubSeq(acts, 1, n), action) BY <1>n DEF Records
    <2>3. IsGrown(e.actions, acts, n, action) BY <2>2, Zenon DEF IsGrown
    <2> QED BY <2>0, <2>1, <2>3, GrownIs DEF Recorded
  <1>6. /\ Len(e.trail) = n + 2 /\ e.trail[n + 2] = text
        /\ \A k \in 1 .. n + 1 : e.trail[k] = d.trail[k]
    <2>1. n + 1 \in 0 .. Len(d.trail) /\ (n + 1) + 1 = n + 2 BY <1>0, <1>a
    <2>2. e.trail = Append(SubSeq(d.trail, 1, n + 1), text) BY <1>n DEF Records
    <2>3. IsGrown(e.trail, d.trail, n + 1, text) BY <2>2, Zenon DEF IsGrown
    <2>4. d.trail \in Seq(Texts) BY <1>a
    <2>5. /\ Len(e.trail) = (n + 1) + 1 /\ e.trail[(n + 1) + 1] = text
          /\ \A k \in 1 .. n + 1 : e.trail[k] = d.trail[k]
      BY <2>1, <2>3, <2>4, GrownIs
    <2> QED BY <2>1, <2>5
  <1> DEFINE to == [k \in 1 .. n + 2 |-> IF k <= n + 1 THEN at[k] ELSE d.scrapAt + l]
  <1>7. /\ \A k \in 1 .. n + 1 : to[k] = at[k] /\ at[k] \in 0 .. d.scrapAt
        /\ to[n + 2] = d.scrapAt + l
    <2>1. \A k \in 1 .. n + 1 : k \in 1 .. r + 1 /\ k <= n + 1 BY <1>0
    <2>2. \A k \in 1 .. n + 1 : at[k] \in 0 .. Len(d.scraps) /\ at[k] <= at[n + 1]
      BY <1>2, <1>3, <2>1
    <2>3. \A k \in 1 .. n + 1 : at[k] \in 0 .. d.scrapAt BY <1>0, <1>2, <2>2
    <2> QED BY <1>0, <2>3
  <1>8. to \in [1 .. Recorded(e) + 1 -> 0 .. Len(e.scraps)]
    <2>1. ASSUME NEW k \in 1 .. n + 2 PROVE to[k] \in 0 .. Len(e.scraps)
      <3>1. k \in 1 .. n + 1 \/ k = n + 2 BY <1>0
      <3> HIDE DEF to
      <3> QED BY <1>0, <1>4, <1>7, <3>1
    <2>2. Recorded(e) + 1 = n + 2 BY <1>0, <1>5
    <2> QED BY <2>1, <2>2
  <1> HIDE DEF to
  <1>9. \A j, k \in 1 .. Recorded(e) + 1 : j <= k => to[j] <= to[k]
    <2> SUFFICES ASSUME NEW j \in 1 .. n + 2, NEW k \in 1 .. n + 2, j <= k PROVE to[j] <= to[k]
      BY <1>0, <1>5
    <2>1. CASE k \in 1 .. n + 1
      <3>1. j \in 1 .. n + 1 /\ j \in 1 .. r + 1 /\ k \in 1 .. r + 1 BY <1>0, <2>1
      <3> QED BY <1>2, <1>7, <2>1, <3>1
    <2>2. CASE k = n + 2 /\ j \in 1 .. n + 1 BY <1>0, <1>7, <2>2
    <2>3. CASE k = n + 2 /\ j = n + 2 BY <1>0, <1>7, <2>3
    <2> QED BY <1>0, <2>1, <2>2, <2>3
  <1>10. ASSUME NEW k \in 1 .. Recorded(e)
         PROVE  /\ to[k + 1] = to[k] + e.actions[k].length
                /\ Leads(e.trail[k], e.actions[k], Part(e.scraps, to[k], e.actions[k].length),
                         e.trail[k + 1])
    <2>1. CASE k \in 1 .. n
      <3>1. /\ k \in 1 .. n + 1 /\ k + 1 \in 1 .. n + 1 /\ k \in 1 .. r BY <1>0, <2>1
      <3>2. to[k] = at[k] /\ to[k + 1] = at[k + 1] /\ at[k + 1] <= d.scrapAt /\ at[k] \in Nat BY <1>7, <3>1
      <3>3. /\ at[k + 1] = at[k] + d.actions[k].length
            /\ Leads(d.trail[k], d.actions[k], Part(d.scraps, at[k], d.actions[k].length), d.trail[k + 1])
        BY <1>2, <3>1
      <3>4. /\ e.actions[k].at = d.actions[k].at /\ e.actions[k].position = d.actions[k].position
            /\ e.actions[k].length = d.actions[k].length
        BY <1>5, <1>r, <2>1, <3>1 DEF SameActions
      <3>5. d.actions[k].length \in Nat BY <1>r, <3>1, EditorFields DEF Actions
      <3>6. Part(e.scraps, at[k], d.actions[k].length) = Part(d.scraps, at[k], d.actions[k].length)
        <4>1. at[k] + d.actions[k].length <= d.scrapAt BY <3>2, <3>3
        <4>2. e.scraps = SubSeq(d.scraps, 1, d.scrapAt) \o data BY DEF Records
        <4>3. d.scraps \in Seq(Chars) /\ data \in Seq(Chars) BY <1>b
        <4>4. Part(SubSeq(d.scraps, 1, d.scrapAt) \o data, at[k], d.actions[k].length)
                = Part(d.scraps, at[k], d.actions[k].length)
          BY <4>1, <4>3, <1>3, <3>2, <3>5, PartOfKept, Zenon
        <4> QED BY <4>2, <4>4, Zenon
      <3>7. e.trail[k] = d.trail[k] /\ e.trail[k + 1] = d.trail[k + 1] BY <1>6, <3>1
      <3> QED BY <3>2, <3>3, <3>4, <3>6, <3>7 DEF Leads
    <2>2. CASE k = n + 1
      <3>1. to[k] = d.scrapAt /\ to[k + 1] = d.scrapAt + l
        <4>1. n + 1 \in 1 .. n + 1 /\ k + 1 = n + 2 BY <1>0, <2>2
        <4> QED BY <1>2, <1>7, <2>2, <4>1
      <3>2. e.actions[k] = action /\ action.length = l 
        <4>1. e.actions[k] = action BY <1>5, <2>2, Zenon
        <4>2. action.length = l BY <1>l DEF Leads
        <4> QED BY <4>1, <4>2
      <3>3. e.trail[k] = d.text /\ e.trail[k + 1] = text
        <4>1. n + 1 \in 1 .. n + 1 /\ k + 1 = n + 2 BY <1>0, <2>2
        <4>2. e.trail[k] = d.trail[n + 1] BY <1>6, <2>2, <4>1
        <4> QED BY <1>6, <1>a, <4>1, <4>2, Zenon
      <3> QED BY <1>4, <3>1, <3>2, <3>3
    <2> QED BY <1>0, <1>5, <2>1, <2>2
  <1>11. e.scrapAt = to[e.current + 1]
    <2>1. e.current + 1 = n + 2 BY <1>0, <1>n DEF Records
    <2> QED BY <1>7, <1>l, <2>1 DEF Records
  <1>12. Placed(e, to) BY <1>8, <1>9, <1>10, <1>11 DEF Placed
  <1> QED BY <1>12 DEF Retraced

(* What a call that changes the text makes of an editor. *)
Change(d, e, at, position, data, text) ==
    e = Changed(AppendAction(d, at, position, data), d, text)

\* A change of the text, recorded, is as good as what it changes.
LEMMA RecordGood ==
  ASSUME NEW d, Good(d), NEW at \in {"insert", "remove"}, NEW position \in Nat,
         NEW data \in Texts, data # <<>>, NEW text \in Texts,
         Leads(d.text, Entry(at, position, data), data, text),
         Tentative(d) \/ Plain(text),
         NEW e, Change(d, e, at, position, data, text)
  PROVE  /\ Good(e) /\ e.text = text /\ e.depth = d.depth /\ e.tentative = d.tentative
         /\ e.current = d.current + 1 /\ Recorded(e) = e.current
         /\ e.savePoint <= d.current /\ e.detach <= d.current
         /\ d.current >= d.savePoint /\ d.detach <= d.current => e.detach = d.detach
  <1> DEFINE n == d.current
  <1>1. IsEditor(d) /\ Retraced(d) /\ Saved(d) /\ Parted(d) /\ Clean(d) BY DEF Good
  <1>2. /\ d \in Editors /\ n \in 0 .. Recorded(d) /\ Recorded(d) \in Nat /\ d.depth \in Nat
        /\ d.savePoint \in Places /\ d.tentative \in Places /\ d.tentative <= n
        /\ d.scraps \in Texts /\ d.scrapAt \in Nat
        /\ d.trail \in Seq(Texts) /\ d.savedTrail \in Seq(Texts) /\ Len(d.trail) = Recorded(d) + 1
    BY <1>1, EditorFields
  <1>3. PICK l : l = Detached(d) OBVIOUS
  <1>4. /\ l \in Editors
        /\ l.savePoint # None => /\ l.savePoint = d.savePoint /\ l.savePoint <= n /\ l.detach = None
        /\ l.detach <= n
        /\ l.detach # None =>
              /\ Len(d.savedTrail) > l.detach
              /\ \A i \in 1 .. l.detach + 1 : d.savedTrail[i] = d.trail[i]
        /\ n >= d.savePoint /\ d.detach <= n => l.detach = d.detach /\ l.savePoint = d.savePoint
    BY <1>1, <1>3, DetachedIs
  <1>5. l.savePoint \in Places /\ l.detach \in Places BY <1>4 DEF Editors
  <1>6. e = Changed(AppendAction(d, at, position, data), d, text) BY DEF Change
  <1>7. PICK action : action = Entry(at, position, data) OBVIOUS
  <1>8. action \in Actions
    <2>1. Len(data) \in Nat \ {0} BY DEF Texts
    <2> QED BY <1>7, <2>1 DEF Entry, Actions
  <1>9. PICK acts : Recording(d, e, l, acts, action, data, text)
    BY <1>3, <1>6, <1>7, RecordIs, Zenon
  <1>s. SameActions(acts, d) /\ acts \in Seq(Actions) /\ Len(acts) = Recorded(d)
    BY <1>9, Zenon DEF Recording, SameActions
  <1>r. e = [text |-> text, actions |-> Append(SubSeq(acts, 1, n), action),
             current |-> n + 1, depth |-> d.depth, savePoint |-> l.savePoint,
             tentative |-> d.tentative, detach |-> l.detach,
             scraps |-> SubSeq(d.scraps, 1, d.scrapAt) \o data,
             scrapAt |-> d.scrapAt + Len(data), notified |-> FALSE,
             trail |-> Append(SubSeq(d.trail, 1, n + 1), text), savedTrail |-> d.savedTrail]
    BY <1>9, Zenon DEF Recording
  <1>10. /\ e.text = text /\ e.actions = Append(SubSeq(acts, 1, n), action)
         /\ e.current = n + 1 /\ e.depth = d.depth /\ e.savePoint = l.savePoint
         /\ e.tentative = d.tentative /\ e.detach = l.detach
         /\ e.scraps = SubSeq(d.scraps, 1, d.scrapAt) \o data
         /\ e.scrapAt = d.scrapAt + Len(data) /\ e.notified = FALSE
         /\ e.trail = Append(SubSeq(d.trail, 1, n + 1), text) /\ e.savedTrail = d.savedTrail
         /\ e = [text |-> e.text, actions |-> e.actions, current |-> e.current, depth |-> e.depth,
                 savePoint |-> e.savePoint, tentative |-> e.tentative, detach |-> e.detach,
                 scraps |-> e.scraps, scrapAt |-> e.scrapAt, notified |-> e.notified,
                 trail |-> e.trail, savedTrail |-> e.savedTrail]
    BY <1>r
  <1>f. /\ e.text = text /\ e.current = n + 1 /\ e.depth = d.depth /\ e.savePoint = l.savePoint
        /\ e.tentative = d.tentative /\ e.detach = l.detach /\ e.notified = FALSE
        /\ e.savedTrail = d.savedTrail
    BY <1>10, Zenon
  <1>g. /\ \A k \in 1 .. Recorded(d) : acts[k].mayCoalesce => d.actions[k].mayCoalesce
        /\ n > 0 /\ n = d.savePoint => ~acts[n].mayCoalesce
    BY <1>9, Zenon DEF Recording
  <1>h. e = [text |-> e.text, actions |-> e.actions, current |-> e.current, depth |-> e.depth,
                 savePoint |-> e.savePoint, tentative |-> e.tentative, detach |-> e.detach,
                 scraps |-> e.scraps, scrapAt |-> e.scrapAt, notified |-> e.notified,
                 trail |-> e.trail, savedTrail |-> e.savedTrail]
    BY <1>10, Zenon
  <1>11. Retraced(e)
    <2>1. SameActions(acts, d) BY <1>s, Zenon
    <2>2. Records(d, e, acts, action, data, text) BY <1>10, Zenon DEF Records
    <2>3. Leads(d.text, action, data, text) BY <1>7, Zenon
    <2> QED BY <1>1, <1>8, <2>1, <2>2, <2>3, RecordRetraced, Zenon
  <1>12. /\ e.actions \in Seq(Actions) /\ Recorded(e) = n + 1
         /\ \A k \in 1 .. n : e.actions[k] = acts[k]
    <2>1. IsGrown(e.actions, acts, n, action) BY <1>10, Zenon DEF IsGrown
    <2>2. n \in 0 .. Len(acts) BY <1>2, <1>s
    <2> QED BY <1>8, <1>s, <2>1, <2>2, GrownIs DEF Recorded
  <1>13. /\ e.trail \in Seq(Texts) /\ Len(e.trail) = n + 2 /\ e.trail[n + 2] = text
         /\ \A k \in 1 .. n + 1 : e.trail[k] = d.trail[k]
    <2>1. n + 1 \in 0 .. Len(d.trail) /\ (n + 1) + 1 = n + 2 BY <1>2
    <2>2. IsGrown(e.trail, d.trail, n + 1, text) BY <1>10, Zenon DEF IsGrown
    <2>3. d.trail \in Seq(Texts) BY <1>2
    <2>4. /\ e.trail \in Seq(Texts) /\ Len(e.trail) = (n + 1) + 1 /\ e.trail[(n + 1) + 1] = text
          /\ \A k \in 1 .. n + 1 : e.trail[k] = d.trail[k]
      BY <2>1, <2>2, <2>3, GrownIs
    <2> QED BY <2>1, <2>4
  <1>14. e.scraps \in Texts /\ e.scrapAt \in Nat
    <2>1. d.scrapAt \in 0 .. Len(d.scraps)
      <3>1. PICK at1 : Placed(d, at1) BY <1>1 DEF Retraced
      <3>2. n + 1 \in 1 .. Recorded(d) + 1 BY <1>2
      <3> QED BY <3>1, <3>2 DEF Placed
    <2>2. SubSeq(d.scraps, 1, d.scrapAt) \o data \in Texts
      <3>1. data \in Seq(Chars) /\ d.scraps \in Seq(Chars) BY <1>2 DEF Texts, Chars
      <3>2. SubSeq(d.scraps, 1, d.scrapAt) \o data \in Seq(Chars) BY <2>1, <3>1, PartOfAppended, Zenon
      <3> QED BY <3>2, Zenon DEF Texts, Chars
    <2>3. Len(data) \in Nat BY DEF Texts
    <2>4. e.scraps \in Texts BY <1>10, <2>2, Zenon
    <2>5. e.scrapAt = d.scrapAt + Len(data) BY <1>10, Zenon
    <2> QED BY <1>2, <2>3, <2>4, <2>5
  <1>15. e \in Editors
    <2>0. n + 1 \in Nat /\ d.depth \in Nat /\ FALSE \in BOOLEAN BY <1>2
    <2>1. e.current \in Nat /\ e.depth \in Nat /\ e.notified \in BOOLEAN BY <1>f, <2>0, Zenon
    <2>2. /\ e.text \in Texts /\ e.savePoint \in Places /\ e.detach \in Places
          /\ e.tentative \in Places /\ e.savedTrail \in Seq(Texts)
      BY <1>2, <1>5, <1>f
    <2> QED BY <1>h, <1>12, <1>13, <1>14, <2>1, <2>2 DEF Editors
  <1>16. IsEditor(e)
    <2>1. e.current <= Recorded(e) /\ Len(e.trail) = Recorded(e) + 1 BY <1>2, <1>f, <1>12, <1>13
    <2>2. e.tentative <= e.current BY <1>2, <1>f DEF Places, None
    <2>3. e.text = e.trail[e.current + 1]
      <3>1. e.current + 1 = n + 2 BY <1>2, <1>f
      <3> QED BY <1>f, <1>13, <3>1
    <2> QED BY <1>15, <2>1, <2>2, <2>3 DEF IsEditor
  <1>17. Saved(e)
    <2>1. e.savedTrail # <<>> BY <1>1, <1>f DEF Saved
    <2>2. ASSUME e.savePoint # None
          PROVE  /\ Len(e.savedTrail) = e.savePoint + 1 /\ e.detach = None
                 /\ \A i \in 1 .. e.savePoint + 1 : i <= Len(e.trail) => e.savedTrail[i] = e.trail[i]
      <3>1. e.savePoint = d.savePoint /\ d.savePoint <= n /\ e.detach = None BY <1>4, <1>f, <2>2
      <3>2. /\ Len(d.savedTrail) = d.savePoint + 1
            /\ \A i \in 1 .. d.savePoint + 1 : i <= Len(d.trail) => d.savedTrail[i] = d.trail[i]
        BY <1>1, <2>2, <3>1 DEF Saved
      <3>3. \A i \in 1 .. d.savePoint + 1 : i \in 1 .. n + 1 /\ i <= Len(d.trail)
        <4>1. n \in Nat /\ Recorded(d) \in Nat /\ n <= Recorded(d) /\ Len(d.trail) = Recorded(d) + 1
          BY <1>2
        <4>2. d.savePoint \in Nat \/ d.savePoint = -1 BY <1>2 DEF Places, None
        <4> QED BY <3>1, <4>1, <4>2
      <3> QED BY <1>f, <1>13, <3>1, <3>2, <3>3
    <2>3. ASSUME e.detach # None
          PROVE  /\ Len(e.savedTrail) > e.detach /\ Len(e.trail) > e.detach
                 /\ \A i \in 1 .. e.detach + 1 : e.savedTrail[i] = e.trail[i]
      <3>1. /\ l.detach <= n /\ Len(d.savedTrail) > l.detach
            /\ \A i \in 1 .. l.detach + 1 : d.savedTrail[i] = d.trail[i]
        BY <1>4, <1>f, <2>3
      <3>2. \A i \in 1 .. l.detach + 1 : i \in 1 .. n + 1
        <4>1. n \in Nat BY <1>2
        <4>2. l.detach \in Nat \/ l.detach = -1 BY <1>5 DEF Places, None
        <4> QED BY <3>1, <4>1, <4>2
      <3>3. n + 2 > l.detach
        <4>1. n \in Nat BY <1>2
        <4>2. l.detach \in Nat \/ l.detach = -1 BY <1>5 DEF Places, None
        <4> QED BY <3>1, <4>1, <4>2
      <3> QED BY <1>f, <1>13, <3>1, <3>2, <3>3
    <2> QED BY <2>1, <2>2, <2>3 DEF Saved
  <1>18. Parted(e)
    <2>1. e.savePoint = None \/ (e.savePoint = d.savePoint /\ d.savePoint <= n)
      BY <1>4, <1>f
    <2>2. ASSUME e.savePoint \in 1 .. Recorded(e) - 1 PROVE ~e.actions[e.savePoint].mayCoalesce
      <3>1. e.savePoint = d.savePoint /\ d.savePoint \in 1 .. n BY <1>2, <1>12, <2>1, <2>2 DEF None
      <3>2. ~acts[d.savePoint].mayCoalesce
        <4>1. CASE d.savePoint = n BY <1>g, <3>1, <4>1
        <4>2. CASE d.savePoint # n
          <5>1. d.savePoint \in 1 .. Recorded(d) - 1 /\ d.savePoint \in 1 .. Recorded(d)
            BY <1>2, <3>1, <4>2
          <5>2. ~d.actions[d.savePoint].mayCoalesce BY <1>1, <5>1 DEF Parted
          <5> QED BY <1>g, <5>1, <5>2
        <4> QED BY <4>1, <4>2
      <3> QED BY <1>12, <3>1, <3>2
    <2>3. ~(e.current \in 1 .. Recorded(e) - 1) BY <1>2, <1>f, <1>12
    <2>4. e.current # e.savePoint BY <1>2, <1>f, <2>1 DEF None, Places
    <2> QED BY <2>2, <2>3, <2>4 DEF Parted
  <1>19. Clean(e)
    <2> SUFFICES ASSUME NEW k \in 1 .. Len(e.trail), Tentative(e) => k <= e.tentative + 1
                 PROVE  Plain(e.trail[k])
      BY DEF Clean
    <2>1. Tentative(e) <=> Tentative(d) BY <1>f DEF Tentative
    <2>2. CASE k \in 1 .. n + 1
      <3>1. k \in 1 .. Len(d.trail) BY <1>2, <2>2
      <3>2. Plain(d.trail[k]) BY <1>1, <1>f, <2>1, <3>1 DEF Clean
      <3> QED BY <1>13, <2>2, <3>2
    <2>3. CASE k = n + 2
      <3>1. ~Tentative(e) BY <1>2, <1>f, <2>3 DEF Tentative, Places, None
      <3> QED BY <1>13, <2>1, <2>3, <3>1
    <2>4. k \in 1 .. n + 1 \/ k = n + 2 BY <1>2, <1>13
    <2> QED BY <2>2, <2>3, <2>4
  <1>20. e.notified = IsSavePoint(e)
    <2>1. e.current # e.savePoint
      <3>1. e.savePoint = None \/ (e.savePoint = d.savePoint /\ d.savePoint <= n) BY <1>4, <1>f
      <3> QED BY <1>2, <1>f, <3>1 DEF None, Places
    <2> QED BY <1>f, <2>1 DEF IsSavePoint
  <1>21. Good(e) BY <1>11, <1>16, <1>17, <1>18, <1>19, <1>20 DEF Good
  <1>22. e.savePoint <= n /\ e.detach <= n /\ (n >= d.savePoint /\ d.detach <= n => e.detach = d.detach)
    <2>1. l.savePoint <= n BY <1>2, <1>4, <1>5 DEF None, Places
    <2> QED BY <1>4, <1>f, <2>1
  <1> QED BY <1>6, <1>f, <1>12, <1>21, <1>22

\* A text is plain when no character of it is composed.
LEMMA PlainIs ==
  ASSUME NEW text \in Texts
  PROVE  Plain(text) <=> \A i \in 1 .. Len(text) : text[i] # Composed
  <1>1. DOMAIN text = 1 .. Len(text) BY DEF Texts
  <1>2. Range(text) = {text[i] : i \in 1 .. Len(text)} BY <1>1, Zenon DEF Range
  <1> QED BY <1>2 DEF Plain

\* Inserting plain text in plain text leaves it plain;
LEMMA JoinedPlain ==
  ASSUME NEW t \in Texts, NEW p \in 0 .. Len(t), NEW s \in Texts
  PROVE  /\ Joined(t, p, s) \in Texts /\ Len(Joined(t, p, s)) = Len(t) + Len(s)
         /\ Plain(t) /\ Plain(s) => Plain(Joined(t, p, s))
  <1>1. Texts = Seq(Chars) BY Zenon DEF Texts, Chars
  <1>2. t \in Seq(Chars) /\ s \in Seq(Chars) BY <1>1, Zenon
  <1>3. PICK j : j = Joined(t, p, s) OBVIOUS
  <1>4. /\ j \in Seq(Chars) /\ Len(j) = Len(t) + Len(s)
        /\ \A i \in 1 .. Len(t) + Len(s) :
              j[i] = IF i <= p THEN t[i] ELSE IF i <= p + Len(s) THEN s[i - p] ELSE t[i - Len(s)]
    BY <1>2, <1>3, JoinedIs, Zenon
  <1>5. j \in Texts BY <1>1, <1>4, Zenon
  <1>6. ASSUME Plain(t), Plain(s) PROVE Plain(j)
    <2>1. /\ \A i \in 1 .. Len(t) : t[i] # Composed
          /\ \A i \in 1 .. Len(s) : s[i] # Composed
      BY <1>6, PlainIs, Zenon
    <2>2. Len(t) \in Nat /\ Len(s) \in Nat /\ p \in 0 .. Len(t) BY <1>2
    <2>3. ASSUME NEW i \in 1 .. Len(t) + Len(s) PROVE j[i] # Composed
      <3>1. CASE i <= p
        <4>1. i \in 1 .. Len(t) BY <2>2, <3>1
        <4>2. j[i] = t[i] BY <1>4, <3>1
        <4> QED BY <2>1, <4>1, <4>2
      <3>2. CASE ~(i <= p) /\ i <= p + Len(s)
        <4>1. i - p \in 1 .. Len(s) BY <2>2, <3>2
        <4>2. j[i] = s[i - p] BY <1>4, <3>2
        <4> QED BY <2>1, <4>1, <4>2
      <3>3. CASE ~(i <= p) /\ ~(i <= p + Len(s))
        <4>1. i - Len(s) \in 1 .. Len(t) BY <2>2, <3>3
        <4>2. j[i] = t[i - Len(s)] BY <1>4, <3>3
        <4> QED BY <2>1, <4>1, <4>2
      <3> QED BY <3>1, <3>2, <3>3
    <2>4. \A i \in 1 .. Len(j) : j[i] # Composed BY <1>4, <2>3, Zenon
    <2> QED BY <1>5, <2>4, PlainIs, Zenon
  <1> QED BY <1>3, <1>4, <1>5, <1>6, Zenon

\* so does removing.
LEMMA CutPlain ==
  ASSUME NEW t \in Texts, NEW p \in Nat, NEW l \in Nat, p + l <= Len(t)
  PROVE  /\ Cut(t, p, l) \in Texts /\ Len(Cut(t, p, l)) = Len(t) - l
         /\ Part(t, p, l) \in Texts /\ Len(Part(t, p, l)) = l
         /\ Plain(t) => Plain(Cut(t, p, l))
  <1>1. Texts = Seq(Chars) BY Zenon DEF Texts, Chars
  <1>2. t \in Seq(Chars) BY <1>1, Zenon
  <1>3. PICK c : c = Cut(t, p, l) OBVIOUS
  <1>4. /\ c \in Seq(Chars) /\ Len(c) = Len(t) - l
        /\ \A i \in 1 .. Len(t) - l : c[i] = IF i <= p THEN t[i] ELSE t[i + l]
    <2>1. c \in Seq(Chars) /\ IsCut(c, t, p, l) BY <1>2, <1>3, CutAre, Zenon
    <2> QED BY <2>1 DEF IsCut
  <1>5. Part(t, p, l) \in Seq(Chars) /\ Len(Part(t, p, l)) = l BY <1>2, PartIs, Zenon
  <1>6. c \in Texts BY <1>1, <1>4, Zenon
  <1>7. ASSUME Plain(t) PROVE Plain(c)
    <2>1. \A i \in 1 .. Len(t) : t[i] # Composed BY <1>7, PlainIs, Zenon
    <2>2. Len(t) \in Nat BY <1>2
    <2>3. ASSUME NEW i \in 1 .. Len(t) - l PROVE c[i] # Composed
      <3>1. i \in 1 .. Len(t) /\ i + l \in 1 .. Len(t) BY <2>2
      <3>2. c[i] = t[i] \/ c[i] = t[i + l] BY <1>4
      <3> QED BY <2>1, <3>1, <3>2
    <2>4. \A i \in 1 .. Len(c) : c[i] # Composed BY <1>4, <2>3, Zenon
    <2> QED BY <1>6, <2>4, PlainIs, Zenon
  <1> QED BY <1>1, <1>3, <1>4, <1>5, <1>6, <1>7, Zenon

\* The current text of a document that is not composing is plain.
LEMMA PlainText ==
  ASSUME NEW d, IsEditor(d), Clean(d), ~Tentative(d)
  PROVE  Plain(d.text)
  <1>1. /\ d.current \in 0 .. Recorded(d) /\ Recorded(d) \in Nat
        /\ Len(d.trail) = Recorded(d) + 1 /\ d.text = d.trail[d.current + 1]
    BY EditorFields
  <1>2. d.current + 1 \in 1 .. Len(d.trail) BY <1>1
  <1> QED BY <1>1, <1>2 DEF Clean

(* What one recorded change adds to an editor. *)
Adds(d, e) ==
    /\ e.current = d.current + 1 /\ Recorded(e) = e.current
    /\ e.savePoint <= d.current /\ e.detach <= d.current
    /\ d.current >= d.savePoint /\ d.detach <= d.current => e.detach = d.detach

\* InsertString keeps an editor good.
LEMMA InsertGood ==
  ASSUME NEW d, Good(d), NEW position \in 0 .. Len(d.text), NEW data \in Texts,
         Tentative(d) \/ Plain(data)
  PROVE  LET e == InsertString(d, position, data) IN
         /\ Good(e) /\ e.depth = d.depth /\ e.tentative = d.tentative
         /\ Len(e.text) = Len(d.text) + Len(data)
         /\ data # <<>> => Adds(d, e)
  <1>1. IsEditor(d) /\ Clean(d) BY DEF Good
  <1>2. d.text \in Texts BY <1>1, EditorFields
  <1>3. PICK text : text = Joined(d.text, position, data) OBVIOUS
  <1>4. /\ text \in Texts /\ Len(text) = Len(d.text) + Len(data)
        /\ Plain(d.text) /\ Plain(data) => Plain(text)
    BY <1>2, <1>3, JoinedPlain, Zenon
  <1>5. PICK e : e = InsertString(d, position, data) OBVIOUS
  <1>6. CASE data = <<>>
    <2>1. e = d BY <1>5, <1>6 DEF InsertString
    <2>2. Len(d.text) \in Nat BY <1>2 DEF Texts
    <2> QED BY <1>5, <1>6, <2>1, <2>2
  <1>7. CASE data # <<>>
    <2>1. Change(d, e, "insert", position, data, text)
      BY <1>3, <1>5, <1>7, Zenon DEF InsertString, Change
    <2>2. position \in Nat /\ position <= Len(d.text)
      <3>1. Len(d.text) \in Nat BY <1>2 DEF Texts
      <3> QED BY <3>1
    <2>3. Leads(d.text, Entry("insert", position, data), data, text)
      BY <1>3, <2>2, Zenon DEF Leads, Entry
    <2>4. Tentative(d) \/ Plain(text) BY <1>1, <1>4, PlainText
    <2>5. "insert" \in {"insert", "remove"} OBVIOUS
    <2>6. /\ Good(e) /\ e.text = text /\ e.depth = d.depth /\ e.tentative = d.tentative
          /\ e.current = d.current + 1 /\ Recorded(e) = e.current
          /\ e.savePoint <= d.current /\ e.detach <= d.current
          /\ d.current >= d.savePoint /\ d.detach <= d.current => e.detach = d.detach
      BY <1>4, <1>7, <2>1, <2>2, <2>3, <2>4, <2>5, RecordGood
    <2> QED BY <1>4, <1>5, <2>6, Zenon DEF Adds
  <1> QED BY <1>6, <1>7

\* So does DeleteChars.
LEMMA DeleteGood ==
  ASSUME NEW d, Good(d), NEW position \in Nat, NEW length \in Nat,
         position + length <= Len(d.text)
  PROVE  LET e == DeleteChars(d, position, length) IN
         /\ Good(e) /\ e.depth = d.depth /\ e.tentative = d.tentative
         /\ Len(e.text) = Len(d.text) - length
         /\ length # 0 => Adds(d, e)
  <1>1. IsEditor(d) /\ Clean(d) BY DEF Good
  <1>2. d.text \in Texts BY <1>1, EditorFields
  <1>3. PICK text : text = Cut(d.text, position, length) OBVIOUS
  <1>d. PICK data : data = Part(d.text, position, length) OBVIOUS
  <1>4. /\ text \in Texts /\ Len(text) = Len(d.text) - length
        /\ data \in Texts /\ Len(data) = length
        /\ Plain(d.text) => Plain(text)
    BY <1>2, <1>3, <1>d, CutPlain, Zenon
  <1>5. PICK e : e = DeleteChars(d, position, length) OBVIOUS
  <1>6. CASE length = 0
    <2>1. e = d BY <1>5, <1>6 DEF DeleteChars
    <2>2. Len(d.text) \in Nat BY <1>2 DEF Texts
    <2> QED BY <1>5, <1>6, <2>1, <2>2
  <1>7. CASE length # 0
    <2>1. Change(d, e, "remove", position, data, text)
      BY <1>3, <1>d, <1>5, <1>7, Zenon DEF DeleteChars, Change
    <2>2. data # <<>> BY <1>4, <1>7
    <2>3. Leads(d.text, Entry("remove", position, data), data, text)
      <3>1. "remove" # "insert" OBVIOUS
      <3> QED BY <1>3, <1>d, <1>4, <3>1, Zenon DEF Leads, Entry
    <2>4. Tentative(d) \/ Plain(text) BY <1>1, <1>4, PlainText
    <2>5. "remove" \in {"insert", "remove"} OBVIOUS
    <2>6. /\ Good(e) /\ e.text = text /\ e.depth = d.depth /\ e.tentative = d.tentative
          /\ e.current = d.current + 1 /\ Recorded(e) = e.current
          /\ e.savePoint <= d.current /\ e.detach <= d.current
          /\ d.current >= d.savePoint /\ d.detach <= d.current => e.detach = d.detach
      BY <1>4, <2>1, <2>2, <2>3, <2>4, <2>5, RecordGood
    <2> QED BY <1>4, <1>5, <2>6, Zenon DEF Adds
  <1> QED BY <1>6, <1>7

-----------------------------------------------------------------------------
(* Undo and redo. *)

\* A set of numbers that is not empty has a least one.
LEMMA LeastNatural ==
  ASSUME NEW T, T \subseteq Nat, T # {}
  PROVE  \E m \in T : \A n \in T : m <= n
  <1> DEFINE R == OpToRel(<, Nat)
  <1>1. IsWellFoundedOn(R, Nat) BY NatLessThanWellFounded, Zenon
  <1>2. \A x, y \in Nat : <<x, y>> \in R <=> x < y BY DEF OpToRel
  <1> HIDE DEF R
  <1>3. PICK x \in T : \A y \in T : ~ (<<y, x>> \in R) BY <1>1, WFMin
  <1>4. \A n \in T : ~ (n < x) BY <1>2, <1>3
  <1> QED BY <1>4

\* Induction by the first counterexample: no operator is needed to state it.
LEMMA Inductive ==
  ASSUME NEW n \in Nat, NEW H, 0 \in H, \A i \in 1 .. n : i - 1 \in H => i \in H
  PROVE  \A i \in 0 .. n : i \in H
  <1> DEFINE T == {i \in 0 .. n : i \notin H}
  <1> SUFFICES ASSUME T # {} PROVE FALSE OBVIOUS
  <1>1. T \subseteq Nat OBVIOUS
  <1>2. PICK m \in T : \A i \in T : m <= i BY <1>1, LeastNatural
  <1>3. m \in 1 .. n /\ m - 1 \in 0 .. n BY <1>2
  <1>4. m - 1 \in H BY <1>2, <1>3
  <1> QED BY <1>2, <1>3, <1>4

\* Each action leads from the text before it to the one after it, and back.
LEMMA Ways ==
  ASSUME NEW d, IsEditor(d), NEW at, Placed(d, at), NEW k \in 1 .. Recorded(d)
  PROVE  /\ d.actions[k] \in Actions /\ at[k + 1] = at[k] + d.actions[k].length
         /\ at[k] \in Nat /\ at[k + 1] \in Nat
         /\ d.actions[k].at = "insert" =>
               /\ Joined(d.trail[k], d.actions[k].position, Part(d.scraps, at[k], d.actions[k].length))
                     = d.trail[k + 1]
               /\ Cut(d.trail[k + 1], d.actions[k].position, d.actions[k].length) = d.trail[k]
         /\ d.actions[k].at # "insert" =>
               /\ Cut(d.trail[k], d.actions[k].position, d.actions[k].length) = d.trail[k + 1]
               /\ Joined(d.trail[k + 1], d.actions[k].position, Part(d.scraps, at[k], d.actions[k].length))
                     = d.trail[k]
  <1>1. PICK a : a = d.actions[k] OBVIOUS
  <1>2. PICK before : before = d.trail[k] OBVIOUS
  <1>3. PICK after : after = d.trail[k + 1] OBVIOUS
  <1>4. PICK data : data = Part(d.scraps, at[k], a.length) OBVIOUS
  <1>5. a \in Actions /\ before \in Texts /\ after \in Texts /\ d.scraps \in Texts
    <2>1. /\ d.actions[k] \in Actions /\ d.scraps \in Texts /\ Recorded(d) \in Nat
          /\ \A i \in 1 .. Recorded(d) + 1 : d.trail[i] \in Texts
      BY EditorFields
    <2>2. k \in 1 .. Recorded(d) + 1 /\ k + 1 \in 1 .. Recorded(d) + 1 BY <2>1
    <2> QED BY <1>1, <1>2, <1>3, <2>1, <2>2
  <1>6. /\ at[k + 1] = at[k] + a.length /\ Leads(before, a, data, after)
    BY <1>1, <1>2, <1>3, <1>4 DEF Placed
  <1>7. at[k] \in 0 .. Len(d.scraps) /\ at[k + 1] \in 0 .. Len(d.scraps)
    <2>1. Recorded(d) \in Nat BY EditorFields
    <2>2. k \in 1 .. Recorded(d) + 1 /\ k + 1 \in 1 .. Recorded(d) + 1 BY <2>1
    <2> QED BY <2>2 DEF Placed
  <1>8. Texts = Seq(Chars) BY Zenon DEF Texts, Chars
  <1>9. d.scraps \in Seq(Chars) /\ before \in Seq(Chars) BY <1>5, <1>8, Zenon
  <1>10. a.length \in Nat /\ a.position \in Nat /\ at[k] \in Nat BY <1>5, <1>7 DEF Actions
  <1>11. data \in Seq(Chars) /\ Len(data) = a.length
    <2>1. at[k] + a.length <= Len(d.scraps)
      <3>1. Len(d.scraps) \in Nat BY <1>9
      <3> QED BY <1>6, <1>7, <3>1
    <2>2. PICK p : p = at[k] OBVIOUS
    <2>3. PICK l : l = a.length OBVIOUS
    <2>4. p \in Nat /\ l \in Nat /\ p + l <= Len(d.scraps) BY <1>10, <2>1, <2>2, <2>3
    <2>5. Part(d.scraps, p, l) \in Seq(Chars) /\ Len(Part(d.scraps, p, l)) = l
      BY <1>9, <2>4, PartIs, Zenon
    <2> QED BY <1>4, <2>2, <2>3, <2>5, Zenon
  <1>12. ASSUME a.at = "insert"
         PROVE  Joined(before, a.position, data) = after /\ Cut(after, a.position, a.length) = before
    <2>1. a.position <= Len(before) /\ after = Joined(before, a.position, data)
      BY <1>6, <1>12 DEF Leads
    <2>2. a.position \in 0 .. Len(before)
      <3>1. Len(before) \in Nat BY <1>9
      <3> QED BY <1>10, <2>1, <3>1
    <2>3. Cut(Joined(before, a.position, data), a.position, Len(data)) = before
      BY <1>9, <1>11, <2>2, CutOfJoined, Zenon
    <2> QED BY <1>11, <2>1, <2>3, Zenon
  <1>13. ASSUME a.at # "insert"
         PROVE  Cut(before, a.position, a.length) = after /\ Joined(after, a.position, data) = before
    <2>1. /\ a.position + a.length <= Len(before)
          /\ data = Part(before, a.position, a.length)
          /\ after = Cut(before, a.position, a.length)
      BY <1>6, <1>13 DEF Leads
    <2>2. Joined(Cut(before, a.position, a.length), a.position, Part(before, a.position, a.length)) = before
      BY <1>9, <1>10, <2>1, JoinedOfCut, Zenon
    <2> QED BY <2>1, <2>2, Zenon
  <1>14. at[k] \in Nat /\ at[k + 1] \in Nat BY <1>7
  <1> QED BY <1>1, <1>2, <1>3, <1>4, <1>5, <1>6, <1>12, <1>13, <1>14, Zenon

(* The editor at another place of its history. *)
Moved(d, at, k) ==
    [d EXCEPT !.current = k, !.scrapAt = at[k + 1], !.text = d.trail[k + 1]]

\* The fields of a moved editor.
LEMMA MovedIs ==
  ASSUME NEW d \in Editors, NEW at, NEW k, NEW e, e = Moved(d, at, k)
  PROVE  /\ e.text = d.trail[k + 1] /\ e.current = k /\ e.scrapAt = at[k + 1]
         /\ e.actions = d.actions /\ e.depth = d.depth /\ e.savePoint = d.savePoint
         /\ e.tentative = d.tentative /\ e.detach = d.detach /\ e.scraps = d.scraps
         /\ e.notified = d.notified /\ e.trail = d.trail /\ e.savedTrail = d.savedTrail
  BY DEF Editors, Moved

\* One step of undo leads back along the trail,
LEMMA StepBack ==
  ASSUME NEW d, IsEditor(d), NEW at, Placed(d, at), NEW k \in 1 .. Recorded(d)
  PROVE  UndoStep(Moved(d, at, k)) = Moved(d, at, k - 1)
  <1>1. PICK e : e = Moved(d, at, k) OBVIOUS
  <1>2. d \in Editors BY DEF IsEditor
  <1>3. /\ e.text = d.trail[k + 1] /\ e.current = k /\ e.scrapAt = at[k + 1]
        /\ e.actions = d.actions /\ e.scraps = d.scraps /\ e.trail = d.trail
    BY <1>1, <1>2, MovedIs
  <1>4. PICK a : a = d.actions[k] OBVIOUS
  <1>5. /\ a \in Actions /\ at[k + 1] = at[k] + a.length /\ at[k] \in Nat /\ at[k + 1] \in Nat
        /\ a.at = "insert" => Cut(d.trail[k + 1], a.position, a.length) = d.trail[k]
        /\ a.at # "insert" =>
              Joined(d.trail[k + 1], a.position, Part(d.scraps, at[k], a.length)) = d.trail[k]
    BY <1>4, Ways, Zenon
  <1>6. at[k + 1] - a.length = at[k] /\ (k - 1) + 1 = k
    <2>1. a.length \in Nat BY <1>5 DEF Actions
    <2>2. k \in Nat OBVIOUS
    <2> QED BY <1>5, <2>1, <2>2
  <1>7. PICK u : u = [e EXCEPT !.current = k - 1, !.scrapAt = at[k]] OBVIOUS
  <1>8. [e EXCEPT !.current = @ - 1, !.scrapAt = @ - a.length] = u
    BY <1>3, <1>6, <1>7
  <1>9. u.text = d.trail[k + 1] BY <1>1, <1>2, <1>7 DEF Moved, Editors
  <1>10. UndoStep(e) = [u EXCEPT !.text = d.trail[k]]
    <2>1. CASE a.at = "insert"
      <3>1. UndoStep(e) = [u EXCEPT !.text = Cut(@, a.position, a.length)]
        BY <1>3, <1>4, <1>8, <2>1, Zenon DEF UndoStep
      <3>2. UndoStep(e) = [u EXCEPT !.text = Cut(u.text, a.position, a.length)] BY <3>1
      <3> QED BY <1>5, <1>9, <2>1, <3>2, Zenon
    <2>2. CASE a.at # "insert"
      <3>1. UndoStep(e) = [u EXCEPT !.text =
                Joined(@, a.position, Part(e.scraps, e.scrapAt - a.length, a.length))]
        BY <1>3, <1>4, <1>8, <2>2, Zenon DEF UndoStep
      <3>2. e.scrapAt - a.length = at[k] BY <1>3, <1>6
      <3>3. UndoStep(e) = [u EXCEPT !.text = Joined(u.text, a.position, Part(d.scraps, at[k], a.length))]
        BY <1>3, <3>1, <3>2
      <3> QED BY <1>5, <1>9, <2>2, <3>3, Zenon
    <2> QED BY <2>1, <2>2
  <1>11. [u EXCEPT !.text = d.trail[k]]
            = [d EXCEPT !.current = k - 1, !.scrapAt = at[k], !.text = d.trail[k]]
    BY <1>1, <1>2, <1>7 DEF Moved, Editors
  <1>12. Moved(d, at, k - 1) = [d EXCEPT !.current = k - 1, !.scrapAt = at[k], !.text = d.trail[k]]
    BY <1>6 DEF Moved
  <1> QED BY <1>1, <1>10, <1>11, <1>12, Zenon

\* and one of redo forth.
LEMMA StepForth ==
  ASSUME NEW d, IsEditor(d), NEW at, Placed(d, at), NEW k \in 1 .. Recorded(d)
  PROVE  RedoStep(Moved(d, at, k - 1)) = Moved(d, at, k)
  <1>1. PICK e : e = Moved(d, at, k - 1) OBVIOUS
  <1>2. d \in Editors BY DEF IsEditor
  <1>0. (k - 1) + 1 = k OBVIOUS
  <1>3. /\ e.text = d.trail[k] /\ e.current = k - 1 /\ e.scrapAt = at[k]
        /\ e.actions = d.actions /\ e.scraps = d.scraps /\ e.trail = d.trail
    BY <1>0, <1>1, <1>2, MovedIs
  <1>4. PICK a : a = d.actions[k] OBVIOUS
  <1>5. /\ a \in Actions /\ at[k + 1] = at[k] + a.length /\ at[k] \in Nat /\ at[k + 1] \in Nat
        /\ a.at = "insert" =>
              Joined(d.trail[k], a.position, Part(d.scraps, at[k], a.length)) = d.trail[k + 1]
        /\ a.at # "insert" => Cut(d.trail[k], a.position, a.length) = d.trail[k + 1]
    BY <1>4, Ways, Zenon
  <1>7. PICK u : u = [e EXCEPT !.current = k, !.scrapAt = at[k + 1]] OBVIOUS
  <1>8. [e EXCEPT !.current = @ + 1, !.scrapAt = @ + a.length] = u
    BY <1>0, <1>3, <1>5, <1>7
  <1>9. u.text = d.trail[k] BY <1>0, <1>1, <1>2, <1>7 DEF Moved, Editors
  <1>a. e.actions[e.current + 1] = a BY <1>0, <1>3, <1>4
  <1>10. RedoStep(e) = [u EXCEPT !.text = d.trail[k + 1]]
    <2>1. CASE a.at = "insert"
      <3>1. RedoStep(e) = [u EXCEPT !.text =
                Joined(@, a.position, Part(e.scraps, e.scrapAt, a.length))]
        BY <1>a, <1>8, <2>1, Zenon DEF RedoStep
      <3>2. RedoStep(e) = [u EXCEPT !.text = Joined(u.text, a.position, Part(d.scraps, at[k], a.length))]
        BY <1>3, <3>1
      <3> QED BY <1>5, <1>9, <2>1, <3>2, Zenon
    <2>2. CASE a.at # "insert"
      <3>1. RedoStep(e) = [u EXCEPT !.text = Cut(@, a.position, a.length)]
        BY <1>a, <1>8, <2>2, Zenon DEF RedoStep
      <3>2. RedoStep(e) = [u EXCEPT !.text = Cut(u.text, a.position, a.length)] BY <3>1
      <3> QED BY <1>5, <1>9, <2>2, <3>2, Zenon
    <2> QED BY <2>1, <2>2
  <1>11. [u EXCEPT !.text = d.trail[k + 1]]
            = [d EXCEPT !.current = k, !.scrapAt = at[k + 1], !.text = d.trail[k + 1]]
    BY <1>1, <1>2, <1>7 DEF Moved, Editors
  <1>12. Moved(d, at, k) = [d EXCEPT !.current = k, !.scrapAt = at[k + 1], !.text = d.trail[k + 1]]
    BY DEF Moved
  <1> QED BY <1>1, <1>10, <1>11, <1>12, Zenon

\* An editor is where it is.
LEMMA MovedNowhere ==
  ASSUME NEW d, IsEditor(d), NEW at, Placed(d, at)
  PROVE  Moved(d, at, d.current) = d
  <1>1. d \in Editors /\ d.text = d.trail[d.current + 1] /\ d.scrapAt = at[d.current + 1]
    BY DEF IsEditor, Placed
  <1> QED BY <1>1 DEF Moved, Editors

\* Undoing several actions goes that many texts back along the trail.
LEMMA UndoneIs ==
  ASSUME NEW d, IsEditor(d), NEW at, Placed(d, at), NEW steps \in 0 .. d.current
  PROVE  Undone(d, steps) = Moved(d, at, d.current - steps)
  <1>0. d.current \in Nat /\ steps \in Nat /\ d.current <= Recorded(d) /\ Recorded(d) \in Nat
    BY EditorFields
  <1> DEFINE g == [n \in 0 .. steps |-> Moved(d, at, d.current - n)]
             After(f) == f = [n \in 0 .. steps |-> IF n = 0 THEN d ELSE UndoStep(f[n - 1])]
  <1>1. After(g)
    <2>1. ASSUME NEW n \in 0 .. steps
          PROVE  Moved(d, at, d.current - n) = IF n = 0 THEN d ELSE UndoStep(g[n - 1])
      <3>1. CASE n = 0
        <4>1. d.current - n = d.current BY <1>0, <3>1
        <4> QED BY <3>1, <4>1, MovedNowhere
      <3>2. CASE n # 0
        <4>1. /\ n - 1 \in 0 .. steps /\ d.current - (n - 1) \in 1 .. Recorded(d)
              /\ (d.current - (n - 1)) - 1 = d.current - n
          BY <1>0, <3>2
        <4>2. g[n - 1] = Moved(d, at, d.current - (n - 1)) BY <4>1
        <4>3. UndoStep(Moved(d, at, d.current - (n - 1))) = Moved(d, at, (d.current - (n - 1)) - 1)
          BY <4>1, StepBack
        <4> HIDE DEF g
        <4> QED BY <3>2, <4>1, <4>2, <4>3
      <3> QED BY <3>1, <3>2
    <2> QED BY <2>1, Zenon
  <1>2. PICK f : After(f) /\ Undone(d, steps) = f[steps]
    <2> HIDE DEF g
    <2>1. \E f : f = [n \in 0 .. steps |-> IF n = 0 THEN d ELSE UndoStep(f[n - 1])] BY <1>1
    <2> QED BY <2>1, Zenon DEF Undone
  <1> DEFINE H == {n \in 0 .. steps : f[n] = Moved(d, at, d.current - n)}
  <1>3. \A n \in 0 .. steps : f[n] = IF n = 0 THEN d ELSE UndoStep(f[n - 1]) BY <1>2
  <1> HIDE DEF After, g
  <1>4. 0 \in H
    <2>1. d.current - 0 = d.current BY <1>0
    <2> QED BY <1>0, <1>3, <2>1, MovedNowhere
  <1>5. ASSUME NEW n \in 1 .. steps, n - 1 \in H PROVE n \in H
    <2>1. /\ n \in 0 .. steps /\ n # 0 /\ d.current - (n - 1) \in 1 .. Recorded(d)
          /\ (d.current - (n - 1)) - 1 = d.current - n
      BY <1>0
    <2>2. f[n - 1] = Moved(d, at, d.current - (n - 1)) BY <1>5
    <2>3. UndoStep(Moved(d, at, d.current - (n - 1))) = Moved(d, at, (d.current - (n - 1)) - 1)
      BY <2>1, StepBack
    <2>4. f[n] = UndoStep(f[n - 1]) BY <1>3, <2>1
    <2>5. f[n] = Moved(d, at, d.current - n) BY <2>1, <2>2, <2>3, <2>4
    <2> QED BY <2>1, <2>5
  <1> HIDE DEF H
  <1>6. steps \in H BY <1>0, <1>4, <1>5, Inductive
  <1> QED BY <1>2, <1>6 DEF H

\* Redoing leads forth in the same way.
LEMMA RedoneIs ==
  ASSUME NEW d, IsEditor(d), NEW at, Placed(d, at), NEW steps \in 0 .. Recorded(d) - d.current
  PROVE  Redone(d, steps) = Moved(d, at, d.current + steps)
  <1>0. d.current \in Nat /\ steps \in Nat /\ d.current <= Recorded(d) /\ Recorded(d) \in Nat
    BY EditorFields
  <1> DEFINE g == [n \in 0 .. steps |-> Moved(d, at, d.current + n)]
             After(f) == f = [n \in 0 .. steps |-> IF n = 0 THEN d ELSE RedoStep(f[n - 1])]
  <1>1. After(g)
    <2>1. ASSUME NEW n \in 0 .. steps
          PROVE  Moved(d, at, d.current + n) = IF n = 0 THEN d ELSE RedoStep(g[n - 1])
      <3>1. CASE n = 0
        <4>1. d.current + n = d.current BY <1>0, <3>1
        <4> QED BY <3>1, <4>1, MovedNowhere
      <3>2. CASE n # 0
        <4>1. /\ n - 1 \in 0 .. steps /\ d.current + n \in 1 .. Recorded(d)
              /\ (d.current + n) - 1 = d.current + (n - 1)
          BY <1>0, <3>2
        <4>2. g[n - 1] = Moved(d, at, d.current + (n - 1)) BY <4>1
        <4>3. RedoStep(Moved(d, at, (d.current + n) - 1)) = Moved(d, at, d.current + n)
          BY <4>1, StepForth
        <4> HIDE DEF g
        <4> QED BY <3>2, <4>1, <4>2, <4>3
      <3> QED BY <3>1, <3>2
    <2> QED BY <2>1, Zenon
  <1>2. PICK f : After(f) /\ Redone(d, steps) = f[steps]
    <2> HIDE DEF g
    <2>1. \E f : f = [n \in 0 .. steps |-> IF n = 0 THEN d ELSE RedoStep(f[n - 1])] BY <1>1
    <2> QED BY <2>1, Zenon DEF Redone
  <1> DEFINE H == {n \in 0 .. steps : f[n] = Moved(d, at, d.current + n)}
  <1>3. \A n \in 0 .. steps : f[n] = IF n = 0 THEN d ELSE RedoStep(f[n - 1]) BY <1>2
  <1> HIDE DEF After, g
  <1>4. 0 \in H
    <2>1. d.current + 0 = d.current BY <1>0
    <2> QED BY <1>0, <1>3, <2>1, MovedNowhere
  <1>5. ASSUME NEW n \in 1 .. steps, n - 1 \in H PROVE n \in H
    <2>1. /\ n \in 0 .. steps /\ n # 0 /\ d.current + n \in 1 .. Recorded(d)
          /\ (d.current + n) - 1 = d.current + (n - 1)
      BY <1>0
    <2>2. f[n - 1] = Moved(d, at, d.current + (n - 1)) BY <1>5
    <2>3. RedoStep(Moved(d, at, (d.current + n) - 1)) = Moved(d, at, d.current + n)
      BY <2>1, StepForth
    <2>4. f[n] = RedoStep(f[n - 1]) BY <1>3, <2>1
    <2>5. f[n] = Moved(d, at, d.current + n) BY <2>1, <2>2, <2>3, <2>4
    <2> QED BY <2>1, <2>5
  <1> HIDE DEF H
  <1>6. steps \in H BY <1>0, <1>4, <1>5, Inductive
  <1> QED BY <1>2, <1>6 DEF H

-----------------------------------------------------------------------------
(* Undo, redo, and the end of a composition are good. *)

\* NotifySavePoint tells of each change of being at the save point.
LEMMA NotifyIs ==
  ASSUME NEW d, d.notified = IsSavePoint(d), NEW e \in Editors, e.notified = d.notified
  PROVE  Notify(d, e) = [e EXCEPT !.notified = IsSavePoint(e)]
  <1>1. CASE IsSavePoint(d) = IsSavePoint(e)
    <2>1. e = [e EXCEPT !.notified = e.notified] BY DEF Editors
    <2>2. e.notified = IsSavePoint(e) BY <1>1
    <2> QED BY <1>1, <2>1, <2>2, Zenon DEF Notify
  <1>2. CASE IsSavePoint(d) # IsSavePoint(e) BY <1>2, Zenon DEF Notify
  <1> QED BY <1>1, <1>2

(* The editor at another place of its history, its watchers told. *)
Told(d, at, k) == [Moved(d, at, k) EXCEPT !.notified = (d.savePoint = k)]

\* The fields of a moved editor that has told of the save point.
LEMMA ToldIs ==
  ASSUME NEW d \in Editors, NEW at, NEW k, NEW e, e = Told(d, at, k)
  PROVE  /\ e.text = d.trail[k + 1] /\ e.current = k /\ e.scrapAt = at[k + 1]
         /\ e.actions = d.actions /\ e.depth = d.depth /\ e.savePoint = d.savePoint
         /\ e.tentative = d.tentative /\ e.detach = d.detach /\ e.scraps = d.scraps
         /\ e.notified = (d.savePoint = k) /\ e.trail = d.trail /\ e.savedTrail = d.savedTrail
         /\ e = [text |-> e.text, actions |-> e.actions, current |-> e.current, depth |-> e.depth,
                 savePoint |-> e.savePoint, tentative |-> e.tentative, detach |-> e.detach,
                 scraps |-> e.scraps, scrapAt |-> e.scrapAt, notified |-> e.notified,
                 trail |-> e.trail, savedTrail |-> e.savedTrail]
  BY DEF Editors, Told, Moved

\* It is an editor record.
LEMMA ToldEditor ==
  ASSUME NEW d, IsEditor(d), NEW at, Placed(d, at), NEW k \in 0 .. Recorded(d)
  PROVE  Told(d, at, k) \in Editors /\ Moved(d, at, k) \in Editors
  <1>1. /\ d \in Editors /\ Recorded(d) \in Nat
        /\ \A i \in 1 .. Recorded(d) + 1 : d.trail[i] \in Texts
    BY EditorFields
  <1>2. k \in Nat /\ k + 1 \in 1 .. Recorded(d) + 1 BY <1>1
  <1>3. at[k + 1] \in Nat
    <2>1. at[k + 1] \in 0 .. Len(d.scraps) BY <1>2 DEF Placed
    <2> QED BY <2>1
  <1>4. d.trail[k + 1] \in Texts BY <1>1, <1>2
  <1>5. Moved(d, at, k) \in Editors
    <2>1. PICK t : t = d.trail[k + 1] OBVIOUS
    <2>2. PICK s : s = at[k + 1] OBVIOUS
    <2>3. Moved(d, at, k) = [d EXCEPT !.current = k, !.scrapAt = s, !.text = t]
      BY <2>1, <2>2 DEF Moved
    <2>4. t \in Texts /\ s \in Nat /\ k \in Nat BY <1>2, <1>3, <1>4, <2>1, <2>2
    <2> QED BY <1>1, <2>3, <2>4 DEF Editors
  <1>6. (d.savePoint = k) \in BOOLEAN OBVIOUS
  <1>7. PICK b \in BOOLEAN : b = (d.savePoint = k) BY <1>6, Zenon
  <1>8. Told(d, at, k) = [Moved(d, at, k) EXCEPT !.notified = b] BY <1>7, Zenon DEF Told
  <1>9. Told(d, at, k) \in Editors BY <1>5, <1>8 DEF Editors
  <1> QED BY <1>5, <1>9

\* Moving and notifying, in one.
LEMMA NotifyMoved ==
  ASSUME NEW d, Good(d), NEW at, Placed(d, at), NEW k \in 0 .. Recorded(d)
  PROVE  Notify(d, Moved(d, at, k)) = Told(d, at, k)
  <1>1. IsEditor(d) /\ d.notified = IsSavePoint(d) /\ d \in Editors BY DEF Good, IsEditor
  <1>2. PICK e : e = Moved(d, at, k) OBVIOUS
  <1>3. e \in Editors BY <1>1, <1>2, ToldEditor
  <1>4. e.notified = d.notified /\ e.savePoint = d.savePoint /\ e.current = k
    BY <1>1, <1>2, MovedIs
  <1>5. Notify(d, e) = [e EXCEPT !.notified = IsSavePoint(e)] BY <1>1, <1>3, <1>4, NotifyIs
  <1>6. IsSavePoint(e) = (d.savePoint = k) BY <1>4, Zenon DEF IsSavePoint
  <1> QED BY <1>2, <1>5, <1>6, Zenon DEF Told

\* Going to the end of a unit keeps an editor good.
LEMMA ToldGood ==
  ASSUME NEW d, Good(d), d.depth = 0, NEW at, Placed(d, at), NEW k \in 0 .. Recorded(d),
         ~Tentative(d), k \in 1 .. Recorded(d) - 1 => ~d.actions[k].mayCoalesce
  PROVE  LET e == Told(d, at, k) IN Good(e) /\ e.depth = 0 /\ ~Tentative(e)
  <1>1. IsEditor(d) /\ Saved(d) /\ Parted(d) /\ Clean(d) /\ d \in Editors BY DEF Good, IsEditor
  <1>2. PICK e : e = Told(d, at, k) OBVIOUS
  <1>3. e \in Editors BY <1>1, <1>2, ToldEditor
  <1>4. /\ e.text = d.trail[k + 1] /\ e.current = k /\ e.scrapAt = at[k + 1]
        /\ e.actions = d.actions /\ e.depth = d.depth /\ e.savePoint = d.savePoint
        /\ e.tentative = d.tentative /\ e.detach = d.detach /\ e.scraps = d.scraps
        /\ e.notified = (d.savePoint = k) /\ e.trail = d.trail /\ e.savedTrail = d.savedTrail
    BY <1>1, <1>2, ToldIs
  <1>5. Recorded(e) = Recorded(d) /\ Recorded(d) \in Nat BY <1>1, <1>4, EditorFields DEF Recorded
  <1>6. IsEditor(e)
    <2>1. e.tentative <= e.current
      <3>1. d.tentative = -1
        <4>1. d.tentative \in Nat \/ d.tentative = -1 BY <1>1, EditorFields DEF Places, None
        <4> QED BY <4>1 DEF Tentative
      <3> QED BY <1>4, <1>5, <3>1
    <2>2. Len(d.trail) = Recorded(d) + 1 BY <1>1, EditorFields
    <2> QED BY <1>3, <1>4, <1>5, <2>1, <2>2 DEF IsEditor
  <1>7. Retraced(e)
    <2>1. Placed(e, at) BY <1>4, <1>5 DEF Placed
    <2> QED BY <2>1 DEF Retraced
  <1>8. Saved(e) BY <1>1, <1>4 DEF Saved
  <1>9. Parted(e) BY <1>1, <1>4, <1>5 DEF Parted
  <1>10. Clean(e) /\ ~Tentative(e) BY <1>1, <1>4 DEF Clean, Tentative
  <1>11. e.notified = IsSavePoint(e) BY <1>4, Zenon DEF IsSavePoint
  <1>12. Good(e) BY <1>6, <1>7, <1>8, <1>9, <1>10, <1>11, Zenon DEF Good
  <1> QED BY <1>2, <1>4, <1>10, <1>12

\* Every unit has a first and a last action.
LEMMA StartUndoIs ==
  ASSUME NEW d, IsEditor(d), d.current # 0
  PROVE  /\ StartUndo(d) \in 1 .. d.current
         /\ StartUndo(d) = 1 \/ ~d.actions[StartUndo(d) - 1].mayCoalesce
  <1>0. d.current \in Nat \ {0} BY EditorFields
  <1> DEFINE T == {f \in 1 .. d.current : \A k \in f .. d.current - 1 : d.actions[k].mayCoalesce}
  <1>1. T \subseteq Nat /\ d.current \in T BY <1>0
  <1>2. PICK m \in T : \A n \in T : m <= n
    <2> HIDE DEF T
    <2> QED BY <1>1, LeastNatural
  <1>3. m = 1 \/ ~d.actions[m - 1].mayCoalesce
    <2> SUFFICES ASSUME m # 1, d.actions[m - 1].mayCoalesce PROVE FALSE OBVIOUS
    <2>1. m \in 1 .. d.current /\ \A k \in m .. d.current - 1 : d.actions[k].mayCoalesce BY <1>2
    <2>2. m - 1 \in 1 .. d.current BY <1>0, <2>1
    <2>3. \A k \in m - 1 .. d.current - 1 : k = m - 1 \/ k \in m .. d.current - 1 BY <1>0, <2>1
    <2>4. m - 1 \in T BY <2>1, <2>2, <2>3
    <2>5. m <= m - 1 BY <1>2, <2>4
    <2> QED BY <2>1, <2>5
  <1>4. \E first \in 1 .. d.current :
          /\ first = 1 \/ ~ d.actions[first - 1].mayCoalesce
          /\ \A k \in first .. d.current - 1 : d.actions[k].mayCoalesce
    BY <1>2, <1>3
  <1> HIDE DEF T
  <1> QED BY <1>4, Zenon DEF StartUndo

\* TargetRedo ends a unit after the current place.
LEMMA EndRedoIs ==
  ASSUME NEW d, IsEditor(d), d.current # Recorded(d)
  PROVE  /\ EndRedo(d) \in d.current + 1 .. Recorded(d)
         /\ EndRedo(d) = Recorded(d) \/ ~d.actions[EndRedo(d)].mayCoalesce
  <1>0. d.current \in Nat /\ Recorded(d) \in Nat /\ d.current < Recorded(d) BY EditorFields
  <1> DEFINE T == {l \in d.current + 1 .. Recorded(d) :
                      l = Recorded(d) \/ ~d.actions[l].mayCoalesce}
  <1>1. T \subseteq Nat /\ Recorded(d) \in T BY <1>0
  <1>2. PICK m \in T : \A n \in T : m <= n
    <2> HIDE DEF T
    <2> QED BY <1>1, LeastNatural
  <1>3. \A k \in d.current + 1 .. m - 1 : d.actions[k].mayCoalesce
    <2> SUFFICES ASSUME NEW k \in d.current + 1 .. m - 1, ~d.actions[k].mayCoalesce PROVE FALSE
      OBVIOUS
    <2>1. m \in d.current + 1 .. Recorded(d) BY <1>2
    <2>2. k \in d.current + 1 .. Recorded(d) BY <1>0, <2>1
    <2>3. k \in T BY <2>2
    <2>4. m <= k BY <1>2, <2>3
    <2> QED BY <1>0, <2>1, <2>2, <2>4
  <1>4. \E last \in d.current + 1 .. Recorded(d) :
          /\ last = Recorded(d) \/ ~ d.actions[last].mayCoalesce
          /\ \A k \in d.current + 1 .. last - 1 : d.actions[k].mayCoalesce
    BY <1>2, <1>3
  <1> HIDE DEF T
  <1> QED BY <1>4, Zenon DEF EndRedo

\* Document::Undo keeps an editor good.
LEMMA UndoGood ==
  ASSUME NEW d, Good(d), d.depth = 0, ~Tentative(d)
  PROVE  LET e == Undo(d) IN Good(e) /\ e.depth = 0 /\ ~Tentative(e)
  <1>1. IsEditor(d) BY DEF Good
  <1>2. CASE d.current = 0 BY <1>2 DEF Undo
  <1>3. CASE d.current # 0
    <2>0. d.current \in Nat /\ Recorded(d) \in Nat /\ d.current <= Recorded(d) BY <1>1, EditorFields
    <2>1. PICK at : Placed(d, at) BY DEF Good, Retraced
    <2>2. PICK first : first = StartUndo(d) OBVIOUS
    <2>3. first \in 1 .. d.current /\ (first = 1 \/ ~d.actions[first - 1].mayCoalesce)
      BY <1>1, <1>3, <2>2, StartUndoIs
    <2>4. /\ d.current - first + 1 \in 0 .. d.current
          /\ d.current - (d.current - first + 1) = first - 1 /\ first - 1 \in 0 .. Recorded(d)
      BY <2>0, <2>3
    <2>5. Undone(d, d.current - first + 1) = Moved(d, at, first - 1) BY <1>1, <2>1, <2>4, UndoneIs
    <2>6. Undo(d) = Notify(d, Moved(d, at, first - 1)) BY <1>3, <2>2, <2>5, Zenon DEF Undo
    <2>7. Undo(d) = Told(d, at, first - 1) BY <2>1, <2>4, <2>6, NotifyMoved
    <2>8. first - 1 \in 1 .. Recorded(d) - 1 => ~d.actions[first - 1].mayCoalesce BY <2>3
    <2> QED BY <2>1, <2>4, <2>7, <2>8, ToldGood
  <1> QED BY <1>2, <1>3

\* So does Document::Redo.
LEMMA RedoGood ==
  ASSUME NEW d, Good(d), d.depth = 0, ~Tentative(d)
  PROVE  LET e == Redo(d) IN Good(e) /\ e.depth = 0 /\ ~Tentative(e)
  <1>1. IsEditor(d) BY DEF Good
  <1>2. CASE d.current = Recorded(d) BY <1>2 DEF Redo
  <1>3. CASE d.current # Recorded(d)
    <2>0. d.current \in Nat /\ Recorded(d) \in Nat /\ d.current <= Recorded(d) BY <1>1, EditorFields
    <2>1. PICK at : Placed(d, at) BY DEF Good, Retraced
    <2>2. PICK last : last = EndRedo(d) OBVIOUS
    <2>3. last \in d.current + 1 .. Recorded(d) /\ (last = Recorded(d) \/ ~d.actions[last].mayCoalesce)
      BY <1>1, <1>3, <2>2, EndRedoIs
    <2>4. /\ last - d.current \in 0 .. Recorded(d) - d.current
          /\ d.current + (last - d.current) = last /\ last \in 0 .. Recorded(d)
      BY <2>0, <2>3
    <2>5. Redone(d, last - d.current) = Moved(d, at, last) BY <1>1, <2>1, <2>4, RedoneIs
    <2>6. Redo(d) = Notify(d, Moved(d, at, last)) BY <1>3, <2>2, <2>5, Zenon DEF Redo
    <2>7. Redo(d) = Told(d, at, last) BY <2>1, <2>4, <2>6, NotifyMoved
    <2>8. last \in 1 .. Recorded(d) - 1 => ~d.actions[last].mayCoalesce BY <2>0, <2>3
    <2> QED BY <2>1, <2>4, <2>7, <2>8, ToldGood
  <1> QED BY <1>2, <1>3

\* The beginning of a sequence.
IsKept(r, s, n) == r = SubSeq(s, 1, n)

\* The first n elements of a sequence.
LEMMA KeptIs ==
  ASSUME NEW S, NEW s \in Seq(S), NEW n \in 0 .. Len(s), NEW r, IsKept(r, s, n)
  PROVE  r \in Seq(S) /\ Len(r) = n /\ \A i \in 1 .. n : r[i] = s[i]
  BY DEF IsKept

\* Giving up what was recorded past the tentative point leaves a good editor.
LEMMA GivenUpGood ==
  ASSUME NEW d, Good(d), d.depth = 0, Tentative(d), Composes(d), NEW at, Placed(d, at)
  PROVE  LET c == TentativeCommit(Told(d, at, d.tentative)) IN
         Good(c) /\ c.depth = 0 /\ ~Tentative(c)
  <1>1. IsEditor(d) /\ Saved(d) /\ Parted(d) /\ Clean(d) /\ d \in Editors BY DEF Good, IsEditor
  <1>2. /\ Recorded(d) \in Nat /\ d.current \in 0 .. Recorded(d) /\ d.actions \in Seq(Actions)
        /\ d.trail \in Seq(Texts) /\ Len(d.trail) = Recorded(d) + 1
        /\ d.savePoint \in Places /\ d.detach \in Places /\ d.tentative \in Places
    BY <1>1, EditorFields
  <1>3. PICK k : k = d.tentative OBVIOUS
  <1>4. /\ k \in 0 .. Recorded(d) /\ k \in Nat /\ k < d.current /\ d.detach <= k
        /\ k + 1 \in 0 .. Len(d.trail) /\ k + 1 \in 1 .. Recorded(d) + 1
    <2>1. k \in Nat /\ k < d.current /\ d.detach <= k BY <1>2, <1>3 DEF Tentative, Composes, Places, None
    <2> QED BY <1>2, <2>1
  <1>5. PICK e : e = Told(d, at, k) OBVIOUS
  <1>6. e \in Editors BY <1>1, <1>4, <1>5, ToldEditor
  <1>7. /\ e.text = d.trail[k + 1] /\ e.current = k /\ e.scrapAt = at[k + 1]
        /\ e.actions = d.actions /\ e.depth = d.depth /\ e.savePoint = d.savePoint
        /\ e.tentative = d.tentative /\ e.detach = d.detach /\ e.scraps = d.scraps
        /\ e.notified = (d.savePoint = k) /\ e.trail = d.trail /\ e.savedTrail = d.savedTrail
    BY <1>1, <1>5, ToldIs
  <1>8. PICK c : c = TentativeCommit(e) OBVIOUS
  <1>9. PICK acts : IsKept(acts, d.actions, k) BY DEF IsKept
  <1>10. PICK trail : IsKept(trail, d.trail, k + 1) BY DEF IsKept
  <1>11. /\ acts \in Seq(Actions) /\ Len(acts) = k /\ \A i \in 1 .. k : acts[i] = d.actions[i]
    <2>1. k \in 0 .. Len(d.actions) BY <1>4 DEF Recorded
    <2>2. d.actions \in Seq(Actions) BY <1>2
    <2> QED BY <1>9, <2>1, <2>2, KeptIs
  <1>12. /\ trail \in Seq(Texts) /\ Len(trail) = k + 1 /\ \A i \in 1 .. k + 1 : trail[i] = d.trail[i]
    BY <1>2, <1>4, <1>10, KeptIs
  <1>13. c = [e EXCEPT !.tentative = None, !.actions = acts, !.trail = trail]
    BY <1>7, <1>8, <1>9, <1>10, Zenon DEF TentativeCommit, IsKept
  <1>14. /\ c \in Editors /\ c.text = d.trail[k + 1] /\ c.current = k /\ c.scrapAt = at[k + 1]
         /\ c.actions = acts /\ c.depth = 0 /\ c.savePoint = d.savePoint
         /\ c.tentative = None /\ c.detach = d.detach /\ c.scraps = d.scraps
         /\ c.notified = (d.savePoint = k) /\ c.trail = trail /\ c.savedTrail = d.savedTrail
    <2>1. None \in Places BY DEF Places
    <2>2. c \in Editors BY <1>6, <1>11, <1>12, <1>13, <2>1 DEF Editors
    <2>3. /\ c.text = e.text /\ c.current = e.current /\ c.scrapAt = e.scrapAt
          /\ c.actions = acts /\ c.depth = e.depth /\ c.savePoint = e.savePoint
          /\ c.tentative = None /\ c.detach = e.detach /\ c.scraps = e.scraps
          /\ c.notified = e.notified /\ c.trail = trail /\ c.savedTrail = e.savedTrail
      BY <1>6, <1>13 DEF Editors
    <2> QED BY <1>7, <2>2, <2>3
  <1>15. Recorded(c) = k BY <1>11, <1>14 DEF Recorded
  <1>16. IsEditor(c)
    <2>1. c.tentative <= c.current BY <1>4, <1>14 DEF None
    <2>2. k + 1 \in 1 .. k + 1 BY <1>4
    <2>3. c.text = c.trail[c.current + 1] BY <1>12, <1>14, <2>2
    <2>4. c.current <= Recorded(c) /\ Len(c.trail) = Recorded(c) + 1 BY <1>4, <1>12, <1>14, <1>15
    <2> QED BY <1>14, <2>1, <2>3, <2>4 DEF IsEditor
  <1>17. Retraced(c)
    <2> DEFINE to == [i \in 1 .. k + 1 |-> at[i]]
    <2>0. \A i \in 1 .. k + 1 : i \in 1 .. Recorded(d) + 1 BY <1>2, <1>4
    <2>1. /\ at \in [1 .. Recorded(d) + 1 -> 0 .. Len(d.scraps)]
          /\ \A i, j \in 1 .. Recorded(d) + 1 : i <= j => at[i] <= at[j]
          /\ \A i \in 1 .. Recorded(d) :
                /\ at[i + 1] = at[i] + d.actions[i].length
                /\ Leads(d.trail[i], d.actions[i], Part(d.scraps, at[i], d.actions[i].length),
                         d.trail[i + 1])
      BY DEF Placed
    <2>2. to \in [1 .. k + 1 -> 0 .. Len(c.scraps)] /\ \A i \in 1 .. k + 1 : to[i] = at[i]
      BY <1>14, <2>0, <2>1
    <2> HIDE DEF to
    <2>3. \A i, j \in 1 .. k + 1 : i <= j => to[i] <= to[j] BY <2>0, <2>1, <2>2
    <2>4. k + 1 \in 1 .. k + 1 /\ c.scrapAt = to[k + 1] BY <1>4, <1>14, <2>2
    <2>5. ASSUME NEW i \in 1 .. k
          PROVE  /\ to[i + 1] = to[i] + c.actions[i].length
                 /\ Leads(c.trail[i], c.actions[i], Part(c.scraps, to[i], c.actions[i].length),
                          c.trail[i + 1])
      <3>1. i \in 1 .. k + 1 /\ i + 1 \in 1 .. k + 1 /\ i \in 1 .. Recorded(d) BY <1>2, <1>4
      <3>2. /\ to[i] = at[i] /\ to[i + 1] = at[i + 1] /\ c.actions[i] = d.actions[i]
            /\ c.trail[i] = d.trail[i] /\ c.trail[i + 1] = d.trail[i + 1] /\ c.scraps = d.scraps
        BY <1>11, <1>12, <1>14, <2>2, <3>1
      <3>3. /\ at[i + 1] = at[i] + d.actions[i].length
            /\ Leads(d.trail[i], d.actions[i], Part(d.scraps, at[i], d.actions[i].length),
                     d.trail[i + 1])
        BY <2>1, <3>1
      <3> QED BY <3>2, <3>3
    <2>6. Placed(c, to) BY <1>14, <1>15, <2>2, <2>3, <2>4, <2>5 DEF Placed
    <2> QED BY <2>6 DEF Retraced
  <1>18. Saved(c)
    <2>1. c.savedTrail # <<>> BY <1>1, <1>14 DEF Saved
    <2>2. ASSUME c.savePoint # None
          PROVE  /\ Len(c.savedTrail) = c.savePoint + 1 /\ c.detach = None
                 /\ \A i \in 1 .. c.savePoint + 1 : i <= Len(c.trail) => c.savedTrail[i] = c.trail[i]
      <3>1. /\ Len(d.savedTrail) = d.savePoint + 1 /\ d.detach = None
            /\ \A i \in 1 .. d.savePoint + 1 : i <= Len(d.trail) => d.savedTrail[i] = d.trail[i]
        BY <1>1, <1>14, <2>2 DEF Saved
      <3>2. ASSUME NEW i \in 1 .. d.savePoint + 1, i <= k + 1 PROVE d.savedTrail[i] = trail[i]
        <4>1. i \in 1 .. k + 1 /\ i <= Len(d.trail) BY <1>2, <1>4, <3>2
        <4> QED BY <1>12, <3>1, <4>1
      <3> QED BY <1>12, <1>14, <3>1, <3>2
    <2>3. ASSUME c.detach # None
          PROVE  /\ Len(c.savedTrail) > c.detach /\ Len(c.trail) > c.detach
                 /\ \A i \in 1 .. c.detach + 1 : c.savedTrail[i] = c.trail[i]
      <3>1. /\ Len(d.savedTrail) > d.detach
            /\ \A i \in 1 .. d.detach + 1 : d.savedTrail[i] = d.trail[i]
        BY <1>1, <1>14, <2>3 DEF Saved
      <3>2. d.detach \in Nat /\ d.detach <= k /\ k \in Nat BY <1>2, <1>4, <1>14, <2>3 DEF Places
      <3>3. \A i \in 1 .. d.detach + 1 : i \in 1 .. k + 1 BY <3>2
      <3>4. Len(c.trail) > c.detach BY <1>12, <1>14, <3>2
      <3> QED BY <1>12, <1>14, <3>1, <3>3, <3>4
    <2> QED BY <2>1, <2>2, <2>3 DEF Saved
  <1>19. Parted(c)
    <2>1. ASSUME c.savePoint \in 1 .. k - 1 PROVE ~c.actions[c.savePoint].mayCoalesce
      <3>1. d.savePoint \in 1 .. Recorded(d) - 1 /\ d.savePoint \in 1 .. k BY <1>2, <1>4, <1>14, <2>1
      <3>2. ~d.actions[d.savePoint].mayCoalesce BY <1>1, <3>1 DEF Parted
      <3> QED BY <1>11, <1>14, <3>1, <3>2
    <2>2. ~(c.current \in 1 .. k - 1) BY <1>4, <1>14
    <2> QED BY <1>14, <1>15, <2>1, <2>2 DEF Parted
  <1>20. Clean(c)
    <2> SUFFICES ASSUME NEW i \in 1 .. Len(c.trail) PROVE Plain(c.trail[i]) BY DEF Clean
    <2>1. i \in 1 .. k + 1 /\ i \in 1 .. Len(d.trail) /\ i <= d.tentative + 1
      BY <1>2, <1>3, <1>4, <1>12, <1>14
    <2>2. Plain(d.trail[i]) BY <1>1, <2>1 DEF Clean
    <2> QED BY <1>12, <1>14, <2>1, <2>2
  <1>21. c.notified = IsSavePoint(c) BY <1>14, Zenon DEF IsSavePoint
  <1>22. Good(c) BY <1>16, <1>17, <1>18, <1>19, <1>20, <1>21, Zenon DEF Good
  <1>23. ~Tentative(c) BY <1>14 DEF Tentative, None
  <1> QED BY <1>3, <1>5, <1>8, <1>14, <1>22, <1>23

\* What a command starts from.
LEMMA FreeGood ==
  ASSUME NEW d, Good(d), d.depth = 0, Tentative(d) => Composes(d)
  PROVE  LET c == CancelTextInput(d) IN Good(c) /\ c.depth = 0 /\ ~Tentative(c)
  <1>1. CASE ~Tentative(d) BY <1>1 DEF CancelTextInput, TentativeUndo
  <1>2. CASE Tentative(d)
    <2>1. IsEditor(d) BY DEF Good
    <2>2. /\ Recorded(d) \in Nat /\ d.current \in 0 .. Recorded(d)
          /\ d.tentative \in Places /\ d.tentative <= d.current
      BY <2>1, EditorFields
    <2>3. d.tentative \in Nat BY <1>2, <2>2 DEF Tentative, Places, None
    <2>4. /\ d.current - d.tentative \in 0 .. d.current
          /\ d.current - (d.current - d.tentative) = d.tentative /\ d.tentative \in 0 .. Recorded(d)
      BY <2>2, <2>3
    <2>5. PICK at : Placed(d, at) BY DEF Good, Retraced
    <2>6. Undone(d, d.current - d.tentative) = Moved(d, at, d.tentative)
      BY <2>1, <2>4, <2>5, UndoneIs
    <2>7. Notify(d, Moved(d, at, d.tentative)) = Told(d, at, d.tentative) BY <2>4, <2>5, NotifyMoved
    <2>8. CancelTextInput(d) = TentativeCommit(Told(d, at, d.tentative))
      BY <1>2, <2>6, <2>7, Zenon DEF CancelTextInput, TentativeUndo
    <2> QED BY <1>2, <2>5, <2>8, GivenUpGood
  <1> QED BY <1>1, <1>2

-----------------------------------------------------------------------------
(* Saving, loading and composing. *)

\* SetSavePoint keeps an editor good: the trail is the saved one now.
LEMMA SavePointGood ==
  ASSUME NEW d, Good(d), d.depth = 0, Tentative(d) => Composes(d)
  PROVE  LET e == SetSavePoint(d) IN
         Good(e) /\ e.depth = 0 /\ (Tentative(e) => Composes(e))
  <1>1. IsEditor(d) /\ Saved(d) /\ Parted(d) /\ Clean(d) /\ d \in Editors BY DEF Good, IsEditor
  <1>2. /\ Recorded(d) \in Nat /\ d.current \in 0 .. Recorded(d)
        /\ d.trail \in Seq(Texts) /\ Len(d.trail) = Recorded(d) + 1
        /\ d.savePoint \in Places /\ d.detach \in Places /\ d.tentative \in Places
    BY <1>1, EditorFields
  <1>3. PICK e : e = SetSavePoint(d) OBVIOUS
  <1>4. PICK trail : IsKept(trail, d.trail, d.current + 1) BY DEF IsKept
  <1>5. /\ trail \in Seq(Texts) /\ Len(trail) = d.current + 1
        /\ \A i \in 1 .. d.current + 1 : trail[i] = d.trail[i]
    <2>1. d.current + 1 \in 0 .. Len(d.trail) BY <1>2
    <2>2. d.trail \in Seq(Texts) BY <1>2
    <2> QED BY <1>4, <2>1, <2>2, KeptIs
  <1>6. e = [d EXCEPT !.savePoint = d.current, !.detach = None, !.notified = TRUE,
                      !.savedTrail = trail]
    BY <1>3, <1>4, Zenon DEF SetSavePoint, IsKept
  <1>7. /\ e.text = d.text /\ e.current = d.current /\ e.scrapAt = d.scrapAt
        /\ e.actions = d.actions /\ e.depth = 0 /\ e.savePoint = d.current
        /\ e.tentative = d.tentative /\ e.detach = None /\ e.scraps = d.scraps
        /\ e.notified = TRUE /\ e.trail = d.trail /\ e.savedTrail = trail
    BY <1>1, <1>6 DEF Editors
  <1>8. e \in Editors
    <2>1. None \in Places /\ d.current \in Places BY <1>2 DEF Places
    <2>2. trail \in Seq(Texts) BY <1>5
    <2> QED BY <1>1, <1>6, <2>1, <2>2 DEF Editors
  <1>9. IsEditor(e) BY <1>1, <1>7, <1>8 DEF IsEditor, Recorded
  <1>10. Retraced(e)
    <2>1. PICK at : Placed(d, at) BY DEF Good, Retraced
    <2>2. Placed(e, at) BY <1>7, <2>1 DEF Placed, Recorded
    <2> QED BY <2>2 DEF Retraced
  <1>11. Saved(e)
    <2>1. trail # <<>> BY <1>2, <1>5
    <2>2. d.current # None BY <1>2 DEF None
    <2> QED BY <1>5, <1>7, <2>1, <2>2 DEF Saved
  <1>12. Parted(e)
    <2>1. d.current \in 1 .. Recorded(d) - 1 => ~d.actions[d.current].mayCoalesce
      BY <1>1 DEF Parted
    <2>2. Recorded(e) = Recorded(d) BY <1>7 DEF Recorded
    <2> QED BY <1>7, <2>1, <2>2 DEF Parted
  <1>13. Clean(e) BY <1>1, <1>7 DEF Clean, Tentative
  <1>14. e.notified = IsSavePoint(e) BY <1>7 DEF IsSavePoint
  <1>15. Good(e) BY <1>9, <1>10, <1>11, <1>12, <1>13, <1>14, Zenon DEF Good
  <1>16. ASSUME Tentative(e) PROVE Composes(e)
    <2>1. Tentative(d) /\ Composes(d) BY <1>7, <1>16 DEF Tentative
    <2>2. d.tentative \in Nat BY <1>2, <2>1 DEF Tentative, Places, None
    <2>3. -1 <= d.tentative BY <2>2
    <2>4. Recorded(e) = Recorded(d) BY <1>7 DEF Recorded
    <2> QED BY <1>7, <2>1, <2>3, <2>4 DEF Composes, None
  <1> QED BY <1>3, <1>7, <1>15, <1>16

(* A document that has no history but its text, which is the saved one. *)
IsFresh(e, t) ==
    e = [text |-> t, actions |-> <<>>, current |-> 0, depth |-> 0, savePoint |-> 0,
         tentative |-> None, detach |-> None, scraps |-> <<>>, scrapAt |-> 0,
         notified |-> TRUE, trail |-> <<t>>, savedTrail |-> <<t>>]

\* An editor with no history that holds plain text is good.
LEMMA FreshGood ==
  ASSUME NEW t \in Texts, Plain(t), NEW e, IsFresh(e, t)
  PROVE  Good(e) /\ e.depth = 0 /\ ~Tentative(e)
  <1>8. PICK trail : trail = <<t>> OBVIOUS
  <1>9. /\ trail \in Seq(Texts) /\ Len(trail) = 1 /\ trail[1] = t /\ trail # <<>> BY <1>8
  <1>12. PICK acts : acts = << >> OBVIOUS
  <1>13. PICK scraps : scraps = << >> OBVIOUS
  <1>14. acts \in Seq(Actions) /\ Len(acts) = 0 BY <1>12
  <1>15. scraps \in Texts /\ Len(scraps) = 0 BY <1>13 DEF Texts
  <1>16. e = [text |-> t, actions |-> acts, current |-> 0, depth |-> 0, savePoint |-> 0,
              tentative |-> None, detach |-> None, scraps |-> scraps, scrapAt |-> 0,
              notified |-> TRUE, trail |-> trail, savedTrail |-> trail]
    BY <1>8, <1>12, <1>13, Zenon DEF IsFresh
  <1>17. /\ e.text = t /\ e.actions = acts /\ e.current = 0 /\ e.depth = 0 /\ e.savePoint = 0
         /\ e.tentative = None /\ e.detach = None /\ e.scraps = scraps /\ e.scrapAt = 0
         /\ e.notified = TRUE /\ e.trail = trail /\ e.savedTrail = trail
    BY <1>16
  <1>18. e \in Editors
    <2>1. None \in Places /\ 0 \in Places BY DEF Places
    <2> QED BY <1>9, <1>14, <1>15, <1>16, <2>1 DEF Editors
  <1>19. Recorded(e) = 0 BY <1>14, <1>17 DEF Recorded
  <1>20. IsEditor(e) BY <1>9, <1>17, <1>18, <1>19 DEF IsEditor, None
  <1>21. Retraced(e)
    <2> DEFINE at == [k \in 1 .. 1 |-> 0]
    <2>1. at \in [1 .. 1 -> 0 .. Len(e.scraps)] /\ \A k \in 1 .. 1 : at[k] = 0 BY <1>15, <1>17
    <2> HIDE DEF at
    <2>2. e.scrapAt = at[e.current + 1] BY <1>17, <2>1
    <2>3. \A j, k \in 1 .. 1 : j <= k => at[j] <= at[k] BY <2>1
    <2>4. Recorded(e) + 1 = 1 /\ 1 .. Recorded(e) = {} BY <1>19
    <2>5. Placed(e, at) BY <2>1, <2>2, <2>3, <2>4 DEF Placed
    <2> QED BY <2>5 DEF Retraced
  <1>22. Saved(e)
    <2>1. \A i \in 1 .. 0 + 1 : i <= Len(e.trail) => e.savedTrail[i] = e.trail[i] BY <1>17
    <2> QED BY <1>9, <1>17, <2>1 DEF Saved
  <1>23. Parted(e) BY <1>17, <1>19 DEF Parted
  <1>24. Clean(e) /\ ~Tentative(e)
    <2>1. ~Tentative(e) BY <1>17 DEF Tentative, None
    <2>2. Len(e.trail) = 1 /\ e.trail[1] = t BY <1>9, <1>17
    <2>3. \A k \in 1 .. Len(e.trail) : k = 1 BY <2>2
    <2>4. \A k \in 1 .. Len(e.trail) : Plain(e.trail[k]) BY <2>2, <2>3, Zenon
    <2> QED BY <2>1, <2>4, Zenon DEF Clean
  <1>25. e.notified = IsSavePoint(e) BY <1>17 DEF IsSavePoint
  <1>26. Good(e) BY <1>20, <1>21, <1>22, <1>23, <1>24, <1>25, Zenon DEF Good
  <1> QED BY <1>17, <1>24, <1>26


\* A document just loaded has no history but its text, which is the saved one.
LEMMA LoadedGood ==
  ASSUME NEW d, Good(d), d.depth = 0, ~Tentative(d)
  PROVE  LET e == SetSavePoint(DeleteUndoHistory(d)) IN
         Good(e) /\ e.depth = 0 /\ ~Tentative(e)
  <1>1. IsEditor(d) /\ Clean(d) /\ d \in Editors BY DEF Good, IsEditor
  <1>2. PICK t \in Texts : t = d.text BY <1>1, EditorFields
  <1>3. Plain(t) BY <1>1, <1>2, PlainText
  <1>4. PICK c : c = DeleteUndoHistory(d) OBVIOUS
  <1>5. c = [d EXCEPT !.actions = <<>>, !.current = 0, !.savePoint = 0, !.tentative = None,
                      !.scraps = <<>>, !.scrapAt = 0, !.trail = <<t>>]
    BY <1>2, <1>4 DEF DeleteUndoHistory
  <1>6. PICK e : e = SetSavePoint(c) OBVIOUS
  <1>7. /\ c.current = 0 /\ c.trail = <<t>> /\ c.actions = <<>> /\ c.text = t
        /\ c.depth = 0 /\ c.tentative = None /\ c.scraps = <<>> /\ c.scrapAt = 0
    BY <1>1, <1>2, <1>5 DEF Editors
  <1>8. PICK trail : trail = <<t>> OBVIOUS
  <1>9. /\ trail \in Seq(Texts) /\ Len(trail) = 1 /\ trail[1] = t /\ trail # <<>> BY <1>8
  <1>10. SubSeq(c.trail, 1, c.current + 1) = trail
    <2>0. PICK n : n = 1 OBVIOUS
    <2>1. PICK r : IsKept(r, trail, n) BY DEF IsKept
    <2>2. n \in 0 .. Len(trail) BY <1>9, <2>0
    <2>3. trail \in Seq(Texts) BY <1>9
    <2>4. r \in Seq(Texts) /\ Len(r) = n /\ \A i \in 1 .. n : r[i] = trail[i]
      BY <2>1, <2>2, <2>3, KeptIs
    <2>5. r = trail BY <1>9, <2>0, <2>4, SeqEqual
    <2>6. c.current + 1 = 1 BY <1>7
    <2> QED BY <1>7, <1>8, <2>0, <2>1, <2>5, <2>6, Zenon DEF IsKept
  <1>11. e = [c EXCEPT !.savePoint = 0, !.detach = None, !.notified = TRUE, !.savedTrail = trail]
    BY <1>6, <1>7, <1>10, Zenon DEF SetSavePoint
  <1>12. PICK acts : acts = << >> OBVIOUS
  <1>13. PICK scraps : scraps = << >> OBVIOUS
  <1>14. c = [d EXCEPT !.actions = acts, !.current = 0, !.savePoint = 0, !.tentative = None,
                       !.scraps = scraps, !.scrapAt = 0, !.trail = trail]
    BY <1>5, <1>8, <1>12, <1>13, Zenon
  <1>15. e = [text |-> t, actions |-> acts, current |-> 0, depth |-> 0, savePoint |-> 0,
              tentative |-> None, detach |-> None, scraps |-> scraps, scrapAt |-> 0,
              notified |-> TRUE, trail |-> trail, savedTrail |-> trail]
    BY <1>1, <1>2, <1>11, <1>14, d.depth = 0 DEF Editors
  <1>16. IsFresh(e, t) BY <1>8, <1>12, <1>13, <1>15, Zenon DEF IsFresh
  <1> QED BY <1>2, <1>3, <1>4, <1>6, <1>16, FreshGood

\* TentativeStart keeps an editor good and marks where it is.
LEMMA StartGood ==
  ASSUME NEW d, Good(d), d.depth = 0, ~Tentative(d)
  PROVE  LET e == TentativeStart(d) IN
         /\ Good(e) /\ e.depth = 0 /\ e.tentative = d.current /\ e.text = d.text
         /\ e.current = d.current
  <1>1. IsEditor(d) /\ Saved(d) /\ Parted(d) /\ Clean(d) /\ d \in Editors BY DEF Good, IsEditor
  <1>2. d.current \in Nat BY <1>1, EditorFields
  <1>3. PICK e : e = TentativeStart(d) OBVIOUS
  <1>4. e = [d EXCEPT !.tentative = d.current] BY <1>3 DEF TentativeStart
  <1>5. /\ e.text = d.text /\ e.current = d.current /\ e.scrapAt = d.scrapAt
        /\ e.actions = d.actions /\ e.depth = 0 /\ e.savePoint = d.savePoint
        /\ e.tentative = d.current /\ e.detach = d.detach /\ e.scraps = d.scraps
        /\ e.notified = d.notified /\ e.trail = d.trail /\ e.savedTrail = d.savedTrail
    BY <1>1, <1>4 DEF Editors
  <1>6. e \in Editors
    <2>1. d.current \in Places BY <1>2 DEF Places
    <2> QED BY <1>1, <1>4, <2>1 DEF Editors
  <1>7. IsEditor(e)
    <2>1. e.tentative <= e.current BY <1>2, <1>5
    <2> QED BY <1>1, <1>5, <1>6, <2>1 DEF IsEditor, Recorded
  <1>8. Retraced(e)
    <2>1. PICK at : Placed(d, at) BY DEF Good, Retraced
    <2>2. Placed(e, at) BY <1>5, <2>1 DEF Placed, Recorded
    <2> QED BY <2>2 DEF Retraced
  <1>9. Saved(e) BY <1>1, <1>5 DEF Saved
  <1>10. Parted(e) BY <1>1, <1>5 DEF Parted, Recorded
  <1>11. Clean(e) BY <1>1, <1>5 DEF Clean
  <1>12. e.notified = IsSavePoint(e) BY <1>5 DEF Good, IsSavePoint
  <1>13. Good(e) BY <1>7, <1>8, <1>9, <1>10, <1>11, <1>12, Zenon DEF Good
  <1> QED BY <1>3, <1>5, <1>13

\* The text an input method shows, letter by letter.
ShownAs(g, d, position, length) ==
    g = [n \in 0 .. length |-> IF n = 0 THEN TentativeStart(d)
                               ELSE InsertString(g[n - 1], position + n - 1, <<Composed>>)]

\* The recursive function that types what is composed, one character at a time.
LEMMA ComposingUnfolds ==
  ASSUME NEW d, NEW position, NEW length \in Nat
  PROVE  \E g : ShownAs(g, d, position, length) /\ Composing(d, position, length) = g[length]
  <1> DEFINE Turns(g, m) == g = [n \in 0 .. m |->
                  IF n = 0 THEN TentativeStart(d)
                  ELSE InsertString(g[n - 1], position + n - 1, <<Composed>>)]
             H == {m \in 0 .. length : \E g : Turns(g, m)}
  <1>1. 0 \in H
    <2>1. Turns([n \in 0 .. 0 |-> TentativeStart(d)], 0) OBVIOUS
    <2> HIDE DEF Turns
    <2> QED BY <2>1
  <1>2. ASSUME NEW m \in 1 .. length, m - 1 \in H PROVE m \in H
    <2>1. PICK g : Turns(g, m - 1) BY <1>2
    <2> DEFINE f == [n \in 0 .. m |->
                       IF n = m THEN InsertString(g[m - 1], position + m - 1, <<Composed>>) ELSE g[n]]
    <2>2. ASSUME NEW n \in 0 .. m
          PROVE  f[n] = IF n = 0 THEN TentativeStart(d)
                        ELSE InsertString(f[n - 1], position + n - 1, <<Composed>>)
      <3>1. CASE n = m
        <4>1. m - 1 \in 0 .. m /\ m - 1 # m BY <1>2
        <4> QED BY <1>2, <3>1, <4>1
      <3>2. CASE n # m
        <4>1. n \in 0 .. m - 1 BY <3>2
        <4>2. g[n] = IF n = 0 THEN TentativeStart(d)
                     ELSE InsertString(g[n - 1], position + n - 1, <<Composed>>)
          BY <2>1, <4>1
        <4>3. n # 0 => n - 1 \in 0 .. m /\ n - 1 # m BY <3>2
        <4> QED BY <3>2, <4>2, <4>3
      <3> QED BY <3>1, <3>2
    <2>3. Turns(f, m)
      <3> DEFINE e == [n \in 0 .. m |-> IF n = 0 THEN TentativeStart(d)
                                        ELSE InsertString(f[n - 1], position + n - 1, <<Composed>>)]
      <3>1. \A n \in 0 .. m : f[n] = e[n] BY <2>2
      <3> QED BY <3>1
    <2> HIDE DEF Turns, f
    <2> QED BY <2>3
  <1> HIDE DEF H
  <1>3. length \in H BY <1>1, <1>2, Inductive
  <1>4. PICK g : g = [n \in 0 .. length |->
                   IF n = 0 THEN TentativeStart(d)
                   ELSE InsertString(g[n - 1], position + n - 1, <<Composed>>)]
    BY <1>3 DEF H
  <1> QED BY <1>4, Zenon DEF Composing, ShownAs

\* Composed text of any length leaves an editor that composes.
LEMMA ComposingGood ==
  ASSUME NEW d, Good(d), d.depth = 0, ~Tentative(d), NEW position \in 0 .. Len(d.text),
         NEW length \in Nat \ {0}
  PROVE  LET e == Composing(d, position, length) IN Good(e) /\ e.depth = 0 /\ Composes(e)
  <1>0. IsEditor(d) /\ d.current \in Nat /\ d.text \in Texts /\ Len(d.text) \in Nat
    <2>1. IsEditor(d) BY DEF Good
    <2>2. d.text \in Texts /\ d.current \in Nat BY <2>1, EditorFields
    <2> QED BY <2>1, <2>2 DEF Texts
  <1>1. PICK g : ShownAs(g, d, position, length) /\ Composing(d, position, length) = g[length]
    <2>1. length \in Nat OBVIOUS
    <2> QED BY <2>1, ComposingUnfolds, Zenon
  <1>2. \A n \in 0 .. length :
          g[n] = IF n = 0 THEN TentativeStart(d)
                 ELSE InsertString(g[n - 1], position + n - 1, <<Composed>>)
    BY <1>1 DEF ShownAs
  <1>3. PICK data : data = <<Composed>> OBVIOUS
  <1>4. data \in Texts /\ Len(data) = 1 /\ data # <<>> BY <1>3 DEF Texts
  <1> DEFINE IsShown(e, n) ==
               /\ Good(e) /\ e.depth = 0 /\ e.tentative = d.current /\ Len(e.text) = Len(d.text) + n
               /\ n = 0 => e.current = d.current
               /\ n > 0 => Composes(e) /\ e.savePoint <= e.current
             H == {n \in 0 .. length : IsShown(g[n], n)}
  <1>5. 0 \in H
    <2>1. g[0] = TentativeStart(d) BY <1>2
    <2>2. IsShown(g[0], 0) BY <1>0, <2>1, StartGood
    <2> HIDE DEF IsShown
    <2> QED BY <2>2
  <1>6. ASSUME NEW n \in 1 .. length, n - 1 \in H PROVE n \in H
    <2>1. PICK b : b = g[n - 1] OBVIOUS
    <2>2. PICK e : e = g[n] OBVIOUS
    <2>3. /\ Good(b) /\ b.depth = 0 /\ b.tentative = d.current
          /\ Len(b.text) = Len(d.text) + (n - 1)
          /\ n - 1 = 0 => b.current = d.current
          /\ n - 1 > 0 => Composes(b) /\ b.savePoint <= b.current
      BY <1>6, <2>1
    <2>4. PICK at : at = position + n - 1 OBVIOUS
    <2>5. at \in 0 .. Len(b.text) BY <1>0, <2>3, <2>4
    <2>6. e = InsertString(b, at, data)
      <3>1. n \in 0 .. length /\ n # 0 OBVIOUS
      <3> QED BY <1>2, <1>3, <2>1, <2>2, <2>4, <3>1
    <2>7. Tentative(b) BY <1>0, <2>3 DEF Tentative
    <2>8. /\ Good(e) /\ e.depth = b.depth /\ e.tentative = b.tentative
          /\ Len(e.text) = Len(b.text) + Len(data) /\ Adds(b, e)
      BY <1>4, <2>3, <2>5, <2>6, <2>7, InsertGood
    <2>9. /\ e.current = b.current + 1 /\ Recorded(e) = e.current
          /\ e.savePoint <= b.current /\ e.detach <= b.current
          /\ b.current >= b.savePoint /\ b.detach <= b.current => e.detach = b.detach
      BY <2>8 DEF Adds
    <2>10. /\ b.current \in Nat /\ b.savePoint \in Nat \cup {-1} /\ b.detach \in Nat \cup {-1}
           /\ e.savePoint \in Nat \cup {-1} /\ e.detach \in Nat \cup {-1}
      <3>1. IsEditor(b) /\ IsEditor(e) BY <2>3, <2>8 DEF Good
      <3> QED BY <3>1, EditorFields DEF Places, None
    <2>11. Composes(e)
      <3>1. CASE n - 1 = 0 BY <1>0, <2>3, <2>8, <2>9, <2>10, <3>1 DEF Composes
      <3>2. CASE n - 1 > 0
        <4>1. b.tentative < b.current /\ b.detach <= b.tentative /\ b.savePoint <= b.current
          BY <2>3, <3>2 DEF Composes
        <4> QED BY <1>0, <2>3, <2>8, <2>9, <2>10, <4>1 DEF Composes
      <3> QED BY <3>1, <3>2
    <2>12. Len(e.text) = Len(d.text) + n BY <1>0, <1>4, <2>3, <2>8
    <2>13. e.savePoint <= e.current BY <2>9, <2>10
    <2>14. IsShown(e, n) BY <2>3, <2>8, <2>11, <2>12, <2>13
    <2> HIDE DEF IsShown
    <2> QED BY <2>2, <2>14
  <1> HIDE DEF H
  <1>7. length \in H
    <2>1. length \in Nat /\ length \in 0 .. length OBVIOUS
    <2>2. \A n \in 1 .. length : n - 1 \in H => n \in H BY <1>6, Zenon
    <2> QED BY <1>5, <2>1, <2>2, Inductive, Zenon
  <1> QED BY <1>1, <1>7 DEF H

-----------------------------------------------------------------------------
(* The editor's calls. *)

\* One unit: a part deleted, and something inserted in its place.
LEMMA GroupGood ==
  ASSUME NEW d, Good(d), d.depth = 0, ~Tentative(d), NEW position \in Nat, NEW length \in Nat,
         position + length <= Len(d.text), NEW data \in Texts, Plain(data)
  PROVE  LET e == EndUndoAction(InsertString(
                     DeleteChars(BeginUndoAction(d), position, length), position, data)) IN
         /\ Good(e) /\ e.depth = 0 /\ ~Tentative(e)
         /\ Len(e.text) = Len(d.text) - length + Len(data)
  <1>1. PICK b : b = BeginUndoAction(d) OBVIOUS
  <1>2. Good(b) /\ b.depth = 1 /\ b.text = d.text /\ b.tentative = d.tentative
    BY <1>1, BeginGood DEF Alike
  <1>3. PICK c : c = DeleteChars(b, position, length) OBVIOUS
  <1>4. Good(c) /\ c.depth = 1 /\ c.tentative = d.tentative /\ Len(c.text) = Len(d.text) - length
    <2>1. position + length <= Len(b.text) BY <1>2
    <2>2. /\ Good(c) /\ c.depth = b.depth /\ c.tentative = b.tentative
          /\ Len(c.text) = Len(b.text) - length
      BY <1>2, <1>3, <2>1, DeleteGood
    <2> QED BY <1>2, <2>2, Zenon
  <1>5. Len(d.text) \in Nat
    <2>1. IsEditor(d) BY DEF Good
    <2> QED BY <2>1, EditorFields DEF Texts
  <1>6. position \in 0 .. Len(c.text) BY <1>4, <1>5
  <1>7. PICK e : e = InsertString(c, position, data) OBVIOUS
  <1>8. Good(e) /\ e.depth = 1 /\ e.tentative = d.tentative /\ Len(e.text) = Len(c.text) + Len(data)
    BY <1>4, <1>6, <1>7, InsertGood
  <1>9. PICK f : f = EndUndoAction(e) OBVIOUS
  <1>10. Good(f) /\ f.depth = 0 /\ f.text = e.text /\ f.tentative = e.tentative
    BY <1>8, <1>9, EndGood DEF Alike
  <1>11. ~Tentative(f) BY <1>8, <1>10 DEF Tentative
  <1> QED BY <1>1, <1>3, <1>4, <1>7, <1>8, <1>9, <1>10, <1>11

(* Such a unit, in one word. *)
IsGroup(d, position, length, data, e) ==
    /\ Good(d) /\ d.depth = 0 /\ ~Tentative(d)
    /\ position \in Nat /\ length \in Nat /\ position + length <= Len(d.text)
    /\ data \in Texts /\ Plain(data)
    /\ e = EndUndoAction(InsertString(
               DeleteChars(BeginUndoAction(d), position, length), position, data))

\* ReplaceRange as the group that GroupGood is about.
LEMMA GroupIs ==
  ASSUME NEW d, NEW position, NEW length, NEW data, NEW e,
         IsGroup(d, position, length, data, e)
  PROVE  /\ Good(e) /\ e.depth = 0 /\ ~Tentative(e)
         /\ Len(e.text) = Len(d.text) - length + Len(data)
  BY GroupGood DEF IsGroup

\* Deleting or inserting nothing changes nothing.
LEMMA Nothing ==
  ASSUME NEW d, NEW position
  PROVE  DeleteChars(d, position, 0) = d /\ InsertString(d, position, <<>>) = d
  BY DEF DeleteChars, InsertString

\* What can be typed or committed.
LEMMA TypedPlain ==
  ASSUME NEW data \in {<<>>} \cup {<<letter>> : letter \in Letters}
  PROVE  data \in Texts /\ Plain(data) /\ Len(data) \in {0, 1}
  <1>1. CASE data = <<>>
    <2>1. data \in Texts /\ Len(data) = 0 BY <1>1 DEF Texts
    <2>2. \A i \in 1 .. Len(data) : data[i] # Composed BY <2>1
    <2> QED BY <2>1, <2>2, PlainIs
  <1>2. CASE data # <<>>
    <2>1. PICK letter \in Letters : data = <<letter>> BY <1>2
    <2>2. data \in Texts /\ Len(data) = 1 /\ data[1] = letter BY <2>1 DEF Texts
    <2>3. letter # Composed BY HistoryBounds
    <2>4. \A i \in 1 .. Len(data) : data[i] # Composed BY <2>2, <2>3
    <2> QED BY <2>2, <2>4, PlainIs
  <1> QED BY <1>1, <1>2

\* A step that the bounds of the model let through keeps the invariant.
LEMMA BecomeGood ==
  ASSUME NEW d, Good(d), d.depth = 0, Tentative(d) => Composes(d), Become(d)
  PROVE  HistoryInv'
  <1>1. editor' = d BY DEF Become
  <1> QED BY <1>1 DEF HistoryInv

\* In a state of the invariant, committing what was composed leaves a good editor.
LEMMA StartsGood ==
  ASSUME HistoryInv
  PROVE  Good(Free) /\ Free.depth = 0 /\ ~Tentative(Free) /\ Free.text \in Texts /\ Len(Free.text) \in Nat
  <1>1. Good(Free) /\ Free.depth = 0 /\ ~Tentative(Free) BY FreeGood DEF HistoryInv, Free
  <1>2. Free.text \in Texts
    <2>1. IsEditor(Free) BY <1>1 DEF Good
    <2> QED BY <2>1, EditorFields
  <1> QED BY <1>1, <1>2 DEF Texts

\* What a batch of the input method deletes and commits leaves a good editor.
LEMMA DeletedGood ==
  ASSUME NEW d, Good(d), d.depth = 0, ~Tentative(d), NEW position \in 0 .. Len(d.text),
         NEW surrounding \in BOOLEAN, surrounding => position < Len(d.text),
         NEW commit \in {<<>>} \cup {<<letter>> : letter \in Letters}
  PROVE  LET e == Deleted(d, position, surrounding, commit) IN
         /\ Good(e) /\ e.depth = 0 /\ ~Tentative(e)
         /\ position + Len(commit) \in 0 .. Len(e.text)
  <1>0. Len(d.text) \in Nat /\ position \in Nat
    <2>1. IsEditor(d) BY DEF Good
    <2> QED BY <2>1, EditorFields DEF Texts
  <1>1. commit \in Texts /\ Plain(commit) /\ Len(commit) \in {0, 1} BY TypedPlain
  <1>2. PICK e : e = Deleted(d, position, surrounding, commit) OBVIOUS
  <1>3. CASE surrounding
    <2>n. PICK n : n = 1 OBVIOUS
    <2>1. e = EndUndoAction(InsertString(
                 DeleteChars(BeginUndoAction(d), position, n), position, commit))
      BY <1>2, <1>3, <2>n DEF Deleted
    <2>2. position + n <= Len(d.text) /\ n \in Nat BY <1>0, <1>3, <2>n
    <2>5. IsGroup(d, position, n, commit, e) BY <1>0, <1>1, <2>1, <2>2, Zenon DEF IsGroup
    <2>3. /\ Good(e) /\ e.depth = 0 /\ ~Tentative(e)
          /\ Len(e.text) = Len(d.text) - n + Len(commit)
      BY <2>5, GroupIs
    <2>4. position + Len(commit) \in 0 .. Len(e.text) BY <1>0, <1>1, <2>n, <2>2, <2>3
    <2> QED BY <1>2, <2>3, <2>4
  <1>4. CASE ~surrounding /\ commit # <<>>
    <2>1. e = EndUndoAction(InsertString(BeginUndoAction(d), position, commit))
      BY <1>2, <1>4 DEF Deleted
    <2>n. PICK n : n = 0 OBVIOUS
    <2>2. e = EndUndoAction(InsertString(
                 DeleteChars(BeginUndoAction(d), position, n), position, commit))
      BY <2>1, <2>n, Nothing
    <2>3. position + n <= Len(d.text) /\ n \in Nat BY <1>0, <2>n
    <2>6. IsGroup(d, position, n, commit, e) BY <1>0, <1>1, <2>2, <2>3, Zenon DEF IsGroup
    <2>4. /\ Good(e) /\ e.depth = 0 /\ ~Tentative(e)
          /\ Len(e.text) = Len(d.text) - n + Len(commit)
      BY <2>6, GroupIs
    <2>5. position + Len(commit) \in 0 .. Len(e.text) BY <1>0, <1>1, <2>n, <2>4
    <2> QED BY <1>2, <2>4, <2>5
  <1>5. CASE ~surrounding /\ commit = <<>>
    <2>1. e = d BY <1>2, <1>5 DEF Deleted
    <2>2. Len(commit) = 0 BY <1>5
    <2>3. position + Len(commit) \in 0 .. Len(d.text) BY <1>0, <2>2
    <2> QED BY <1>2, <2>1, <2>3
  <1> QED BY <1>3, <1>4, <1>5

\* ClearBeforeTentativeStart leaves a good editor, and the caret in its text.
LEMMA ClearedGood ==
  ASSUME NEW d, Good(d), d.depth = 0, ~Tentative(d), NEW position \in 0 .. Len(d.text),
         NEW selected \in BOOLEAN, selected => position < Len(d.text)
  PROVE  LET e == ClearBeforeTentativeStart(d, position, selected) IN
         /\ Good(e) /\ e.depth = 0 /\ ~Tentative(e) /\ position \in 0 .. Len(e.text)
  <1>0. Len(d.text) \in Nat /\ position \in Nat
    <2>1. IsEditor(d) BY DEF Good
    <2> QED BY <2>1, EditorFields DEF Texts
  <1>1. PICK e : e = ClearBeforeTentativeStart(d, position, selected) OBVIOUS
  <1>2. CASE selected
    <2>1. e = EndUndoAction(DeleteChars(BeginUndoAction(d), position, 1))
      BY <1>1, <1>2 DEF ClearBeforeTentativeStart
    <2>2. e = EndUndoAction(InsertString(DeleteChars(BeginUndoAction(d), position, 1), position, <<>>))
      BY <2>1, Nothing
    <2>3. position + 1 <= Len(d.text) BY <1>0, <1>2
    <2>4. <<>> \in Texts /\ Plain(<<>>) /\ Len(<<>>) = 0
      <3>1. <<>> \in Texts /\ Plain(<<>>) BY TypedPlain
      <3> QED BY <3>1
    <2>5. /\ Good(e) /\ e.depth = 0 /\ ~Tentative(e) /\ Len(e.text) = Len(d.text) - 1 + Len(<<>>)
      BY <1>0, <2>2, <2>3, <2>4, GroupGood
    <2>6. position \in 0 .. Len(e.text) BY <1>0, <2>3, <2>4, <2>5
    <2> QED BY <1>1, <2>5, <2>6
  <1>3. CASE ~selected BY <1>1, <1>3 DEF ClearBeforeTentativeStart
  <1> QED BY <1>2, <1>3

-----------------------------------------------------------------------------
(* Every action keeps the invariant. *)

\* Typing keeps the invariant,
LEMMA TypeKeeps ==
  ASSUME HistoryInv, Type
  PROVE  HistoryInv'
  <1>1. PICK position \in 0 .. Len(Free.text), letter \in Letters :
          Become(InsertString(Free, position, <<letter>>))
    BY DEF Type
  <1>2. <<letter>> \in Texts /\ Plain(<<letter>>) BY TypedPlain
  <1>3. PICK f : f = Free OBVIOUS
  <1>4. Good(f) /\ f.depth = 0 /\ ~Tentative(f) BY <1>3, StartsGood
  <1>5. PICK e : e = InsertString(f, position, <<letter>>) OBVIOUS
  <1>6. Good(e) /\ e.depth = 0 /\ e.tentative = f.tentative
    BY <1>1, <1>2, <1>3, <1>4, <1>5, InsertGood
  <1>7. ~Tentative(e) BY <1>4, <1>6 DEF Tentative
  <1> QED BY <1>1, <1>3, <1>5, <1>6, <1>7, BecomeGood

\* deleting,
LEMMA DeleteKeeps ==
  ASSUME HistoryInv, Delete
  PROVE  HistoryInv'
  <1>1. PICK position \in 0 .. Len(Free.text) - 1 :
          \E length \in 1 .. Len(Free.text) - position : Become(DeleteChars(Free, position, length))
    BY DEF Delete
  <1>2. PICK length \in 1 .. Len(Free.text) - position : Become(DeleteChars(Free, position, length))
    BY <1>1
  <1>3. PICK f : f = Free OBVIOUS
  <1>4. Good(f) /\ f.depth = 0 /\ ~Tentative(f) /\ Len(f.text) \in Nat BY <1>3, StartsGood
  <1>5. position \in Nat /\ length \in Nat /\ position + length <= Len(f.text) BY <1>3, <1>4
  <1>6. PICK e : e = DeleteChars(f, position, length) OBVIOUS
  <1>7. Good(e) /\ e.depth = 0 /\ e.tentative = f.tentative
    BY <1>4, <1>5, <1>6, DeleteGood
  <1>8. ~Tentative(e) BY <1>4, <1>7 DEF Tentative
  <1> QED BY <1>2, <1>3, <1>6, <1>7, <1>8, BecomeGood

\* replacing in a group,
LEMMA ReplaceKeeps ==
  ASSUME HistoryInv, Replace
  PROVE  HistoryInv'
  <1>1. PICK position \in 0 .. Len(Free.text) - 1, letter \in Letters :
          Become(Replaced(Free, position, 1, <<letter>>))
    BY DEF Replace
  <1>2. <<letter>> \in Texts /\ Plain(<<letter>>) BY TypedPlain
  <1>3. PICK f : f = Free OBVIOUS
  <1>4. Good(f) /\ f.depth = 0 /\ ~Tentative(f) /\ Len(f.text) \in Nat BY <1>3, StartsGood
  <1>5. position \in Nat /\ position + 1 <= Len(f.text) BY <1>3, <1>4
  <1>6. PICK e : e = Replaced(f, position, 1, <<letter>>) OBVIOUS
  <1>7. Good(e) /\ e.depth = 0 /\ ~Tentative(e)
    BY <1>2, <1>4, <1>5, <1>6, GroupGood DEF Replaced
  <1> QED BY <1>1, <1>3, <1>6, <1>7, BecomeGood

\* loading another file,
LEMMA LoadKeeps ==
  ASSUME HistoryInv, LoadInitialBuffer
  PROVE  HistoryInv'
  <1>1. PICK data \in {<<>>} \cup {<<letter>> : letter \in Letters} :
          Become(SetSavePoint(DeleteUndoHistory(EndUndoAction(InsertString(
              DeleteChars(BeginUndoAction(Free), 0, Len(Free.text)), 0, data)))))
    BY DEF LoadInitialBuffer
  <1>2. data \in Texts /\ Plain(data) BY TypedPlain
  <1>3. PICK f : f = Free OBVIOUS
  <1>4. Good(f) /\ f.depth = 0 /\ ~Tentative(f) /\ Len(f.text) \in Nat BY <1>3, StartsGood
  <1>5. 0 + Len(f.text) <= Len(f.text) /\ 0 \in Nat BY <1>4
  <1>6. PICK e : e = EndUndoAction(InsertString(
              DeleteChars(BeginUndoAction(f), 0, Len(f.text)), 0, data)) OBVIOUS
  <1>7. Good(e) /\ e.depth = 0 /\ ~Tentative(e) BY <1>2, <1>4, <1>5, <1>6, GroupGood
  <1>8. PICK s : s = SetSavePoint(DeleteUndoHistory(e)) OBVIOUS
  <1>9. Good(s) /\ s.depth = 0 /\ ~Tentative(s) BY <1>7, <1>8, LoadedGood
  <1>10. Become(s) BY <1>1, <1>3, <1>6, <1>8
  <1> QED BY <1>9, <1>10, BecomeGood

\* what an input method commits and composes in one batch,
LEMMA BatchKeeps ==
  ASSUME HistoryInv, HandleTextInputBatch
  PROVE  HistoryInv'
  <1>1. PICK position \in 0 .. Len(Free.text), surrounding \in BOOLEAN, selected \in BOOLEAN,
             commit \in {<<>>} \cup {<<letter>> : letter \in Letters}, preedit \in 0 .. 2 :
          LET committed == Deleted(Free, position, surrounding, commit)
              caret == position + Len(commit)
              cleared == IF Tentative(editor) THEN committed
                         ELSE ClearBeforeTentativeStart(committed, caret, selected)
          IN /\ surrounding => position < Len(Free.text)
             /\ selected => preedit > 0 /\ caret < Len(committed.text)
             /\ Become(IF preedit = 0 THEN committed ELSE Composing(cleared, caret, preedit))
    BY DEF HandleTextInputBatch
  <1>2. PICK f : f = Free OBVIOUS
  <1>3. Good(f) /\ f.depth = 0 /\ ~Tentative(f) BY <1>2, StartsGood
  <1>4. PICK committed : committed = Deleted(f, position, surrounding, commit) OBVIOUS
  <1>5. PICK caret : caret = position + Len(commit) OBVIOUS
  <1>6. PICK cleared : cleared = IF Tentative(editor) THEN committed
                                 ELSE ClearBeforeTentativeStart(committed, caret, selected)
    OBVIOUS
  <1>7. /\ surrounding => position < Len(f.text)
        /\ selected => preedit > 0 /\ caret < Len(committed.text)
        /\ Become(IF preedit = 0 THEN committed ELSE Composing(cleared, caret, preedit))
    BY <1>1, <1>2, <1>4, <1>5, <1>6, Zenon
  <1>8. /\ Good(committed) /\ committed.depth = 0 /\ ~Tentative(committed)
        /\ caret \in 0 .. Len(committed.text)
    <2>1. position \in 0 .. Len(f.text) BY <1>2
    <2> QED BY <1>3, <1>4, <1>5, <1>7, <2>1, DeletedGood
  <1>9. CASE preedit = 0
    <2>1. Become(committed) BY <1>7, <1>9
    <2> QED BY <1>8, <2>1, BecomeGood
  <1>10. CASE preedit # 0
    <2>1. /\ Good(cleared) /\ cleared.depth = 0 /\ ~Tentative(cleared)
          /\ caret \in 0 .. Len(cleared.text)
      <3>1. CASE Tentative(editor) BY <1>6, <1>8, <3>1
      <3>2. CASE ~Tentative(editor)
        <4>1. cleared = ClearBeforeTentativeStart(committed, caret, selected) BY <1>6, <3>2
        <4> QED BY <1>7, <1>8, <4>1, ClearedGood
      <3> QED BY <3>1, <3>2
    <2>2. preedit \in Nat \ {0} BY <1>10
    <2>3. PICK e : e = Composing(cleared, caret, preedit) OBVIOUS
    <2>4. Good(e) /\ e.depth = 0 /\ Composes(e) BY <2>1, <2>2, <2>3, ComposingGood
    <2>5. Become(e) BY <1>7, <1>10, <2>3
    <2> QED BY <2>4, <2>5, BecomeGood
  <1> QED BY <1>9, <1>10

\* and a batch that is not valid.
LEMMA BadBatchKeeps ==
  ASSUME HistoryInv, HandleBadBatch
  PROVE  HistoryInv'
  <1>1. Become(EndUndoAction(BeginUndoAction(Free))) BY DEF HandleBadBatch
  <1>2. PICK f : f = Free OBVIOUS
  <1>3. Good(f) /\ f.depth = 0 /\ ~Tentative(f) BY <1>2, StartsGood
  <1>4. PICK b : b = BeginUndoAction(f) OBVIOUS
  <1>5. Good(b) /\ b.depth = 1 /\ b.tentative = f.tentative BY <1>3, <1>4, BeginGood DEF Alike
  <1>6. PICK e : e = EndUndoAction(b) OBVIOUS
  <1>7. Good(e) /\ e.depth = 0 /\ e.tentative = b.tentative BY <1>5, <1>6, EndGood DEF Alike
  <1>8. ~Tentative(e) BY <1>3, <1>5, <1>7 DEF Tentative
  <1> QED BY <1>1, <1>2, <1>4, <1>6, <1>7, <1>8, BecomeGood

\* Every step keeps the invariant.
LEMMA HistoryStep ==
  ASSUME HistoryInv, [HistoryNext]_historyVars
  PROVE  HistoryInv'
  <1>1. PICK f : f = Free OBVIOUS
  <1>2. Good(f) /\ f.depth = 0 /\ ~Tentative(f) BY <1>1, StartsGood
  <1>3. CASE RequestUndo
    <2>1. PICK e : e = Undo(f) OBVIOUS
    <2>2. Good(e) /\ e.depth = 0 /\ ~Tentative(e) BY <1>2, <2>1, UndoGood
    <2>3. Become(e) BY <1>1, <1>3, <2>1 DEF RequestUndo
    <2> QED BY <2>2, <2>3, BecomeGood
  <1>4. CASE RequestRedo
    <2>1. PICK e : e = Redo(f) OBVIOUS
    <2>2. Good(e) /\ e.depth = 0 /\ ~Tentative(e) BY <1>2, <2>1, RedoGood
    <2>3. Become(e) BY <1>1, <1>4, <2>1 DEF RequestRedo
    <2> QED BY <2>2, <2>3, BecomeGood
  <1>5. CASE CancelComposition
    <2>1. Become(f) BY <1>1, <1>5 DEF CancelComposition
    <2> QED BY <1>2, <2>1, BecomeGood
  <1>6. CASE MarkSaved
    <2>1. PICK e : e = SetSavePoint(editor) OBVIOUS
    <2>2. Good(e) /\ e.depth = 0 /\ (Tentative(e) => Composes(e)) BY <2>1, SavePointGood DEF HistoryInv
    <2>3. Become(e) BY <1>6, <2>1 DEF MarkSaved
    <2> QED BY <2>2, <2>3, BecomeGood
  <1>7. CASE UNCHANGED historyVars BY <1>7 DEF historyVars, HistoryInv
  <1> QED BY <1>3, <1>4, <1>5, <1>6, <1>7, TypeKeeps, DeleteKeeps, ReplaceKeeps, LoadKeeps, BatchKeeps,
             BadBatchKeeps DEF HistoryNext

\* The invariant holds at the start.
LEMMA HistoryStarts ==
  ASSUME HistoryInit
  PROVE  HistoryInv
  <1>1. PICK t : t = <<>> OBVIOUS
  <1>2. t \in Texts /\ Plain(t) BY <1>1, TypedPlain
  <1>3. IsFresh(editor, t) BY <1>1, Zenon DEF IsFresh, HistoryInit
  <1>4. Good(editor) /\ editor.depth = 0 /\ ~Tentative(editor) BY <1>2, <1>3, FreshGood
  <1> QED BY <1>4 DEF HistoryInv

\* The invariant says what the run checks.
LEMMA HistoryInvIsTrue ==
  ASSUME HistoryInv
  PROVE  HistoryIsTrue
  <1>1. /\ IsEditor(editor) /\ Retraced(editor) /\ Saved(editor) /\ Parted(editor) /\ Clean(editor)
        /\ editor.notified = IsSavePoint(editor) /\ editor.depth = 0
    BY DEF HistoryInv, Good
  <1> DEFINE d == editor
             r == Recorded(editor)
  <1>2. /\ d.text \in Texts /\ r \in Nat /\ d.current \in 0 .. r
        /\ d.savePoint \in Places /\ d.tentative \in Places /\ d.detach \in Places
        /\ d.tentative <= d.current
        /\ d.trail \in Seq(Texts) /\ d.savedTrail \in Seq(Texts)
        /\ Len(d.trail) = r + 1 /\ d.text = d.trail[d.current + 1]
        /\ \A k \in 1 .. r : d.actions[k] \in Actions
    BY <1>1, EditorFields
  <1>3. d.detach # None => d.detach \in 0 .. r /\ d.savePoint = None
    <2>1. d.detach # None => Len(d.trail) > d.detach /\ d.savePoint = None BY <1>1 DEF Saved
    <2> QED BY <1>2, <2>1 DEF Places
  <1>4. HistoryTypeOK
    <2>1. d.scrapAt \in 0 .. Len(d.scraps)
      <3>1. PICK at : Placed(d, at) BY <1>1 DEF Retraced
      <3>2. d.current + 1 \in 1 .. r + 1 BY <1>2
      <3> QED BY <3>1, <3>2 DEF Placed
    <2>2. d.tentative \in {None} \cup 0 .. d.current BY <1>2 DEF Places
    <2>3. d.savePoint \in {None} \cup Nat /\ d.detach \in {None} \cup 0 .. r BY <1>2, <1>3 DEF Places
    <2>4. \A k \in 1 .. r :
            /\ d.actions[k].at \in {"insert", "remove"} /\ d.actions[k].mayCoalesce \in BOOLEAN
            /\ d.actions[k].length \in Nat \ {0}
      BY <1>2 DEF Actions
    <2> QED BY <1>1, <1>2, <2>1, <2>2, <2>3, <2>4 DEF HistoryTypeOK
  <1>5. UndoRetraces BY <1>2 DEF UndoRetraces
  <1>6. SavePointIsSavedText
    <2> SUFFICES ASSUME IsSavePoint(d) PROVE d.text = d.savedTrail[Len(d.savedTrail)]
      BY DEF SavePointIsSavedText
    <2>1. d.savePoint = d.current /\ d.savePoint # None BY <1>2 DEF IsSavePoint, None
    <2>2. /\ Len(d.savedTrail) = d.savePoint + 1
          /\ \A i \in 1 .. d.savePoint + 1 : i <= Len(d.trail) => d.savedTrail[i] = d.trail[i]
      BY <1>1, <2>1 DEF Saved
    <2>3. d.current + 1 \in 1 .. d.savePoint + 1 /\ d.current + 1 <= Len(d.trail) BY <1>2, <2>1
    <2> QED BY <1>2, <2>1, <2>2, <2>3
  <1>7. ModifiedIsNotified BY <1>1 DEF ModifiedIsNotified
  <1>8. HistoryKnowsTheSavedPath
    <2>1. PICK shared : shared = IF d.detach # None THEN d.detach
                                 ELSE IF d.savePoint < r THEN d.savePoint ELSE r
      OBVIOUS
    <2>2. /\ shared + 1 \in 0 .. Len(d.trail) /\ shared + 1 \in 0 .. Len(d.savedTrail)
          /\ \A i \in 1 .. shared + 1 : d.trail[i] = d.savedTrail[i]
      <3>0. Len(d.savedTrail) \in Nat BY <1>2
      <3>1. CASE d.detach # None
        <4>1. /\ Len(d.savedTrail) > d.detach
              /\ \A i \in 1 .. d.detach + 1 : d.savedTrail[i] = d.trail[i]
          BY <1>1, <3>1 DEF Saved
        <4>2. shared = d.detach /\ d.detach \in 0 .. r BY <1>3, <2>1, <3>1
        <4>3. shared + 1 \in 0 .. Len(d.trail) /\ shared + 1 \in 0 .. Len(d.savedTrail)
          BY <1>2, <3>0, <4>1, <4>2
        <4> QED BY <4>1, <4>2, <4>3
      <3>2. CASE d.detach = None /\ d.savePoint = None
        <4>1. shared = -1
          <5>1. d.savePoint < r BY <1>2, <3>2 DEF None
          <5> QED BY <2>1, <3>2, <5>1 DEF None
        <4> QED BY <1>2, <3>0, <4>1
      <3>3. CASE d.detach = None /\ d.savePoint # None
        <4>1. /\ Len(d.savedTrail) = d.savePoint + 1
              /\ \A i \in 1 .. d.savePoint + 1 : i <= Len(d.trail) => d.savedTrail[i] = d.trail[i]
          BY <1>1, <3>3 DEF Saved
        <4>2. d.savePoint \in Nat BY <1>2, <3>3 DEF Places
        <4>3. shared = (IF d.savePoint < r THEN d.savePoint ELSE r) BY <2>1, <3>3
        <4>4. shared \in Nat /\ shared <= d.savePoint /\ shared <= r BY <1>2, <4>2, <4>3
        <4>5. shared + 1 \in 0 .. Len(d.trail) /\ shared + 1 \in 0 .. Len(d.savedTrail)
          BY <1>2, <4>1, <4>2, <4>4
        <4>6. \A i \in 1 .. shared + 1 : i \in 1 .. d.savePoint + 1 /\ i <= Len(d.trail)
          BY <1>2, <4>2, <4>4
        <4> QED BY <4>1, <4>5, <4>6
      <3> QED BY <3>1, <3>2, <3>3
    <2>3. PICK a : IsKept(a, d.trail, shared + 1) BY DEF IsKept
    <2>4. PICK b : IsKept(b, d.savedTrail, shared + 1) BY DEF IsKept
    <2>5. PICK n : n = shared + 1 OBVIOUS
    <2>6. a \in Seq(Texts) /\ Len(a) = n /\ \A i \in 1 .. n : a[i] = d.trail[i]
      <3>1. d.trail \in Seq(Texts) /\ n \in 0 .. Len(d.trail) BY <1>2, <2>2, <2>5
      <3> QED BY <2>3, <2>5, <3>1, KeptIs
    <2>7. b \in Seq(Texts) /\ Len(b) = n /\ \A i \in 1 .. n : b[i] = d.savedTrail[i]
      <3>1. d.savedTrail \in Seq(Texts) /\ n \in 0 .. Len(d.savedTrail) BY <1>2, <2>2, <2>5
      <3> QED BY <2>4, <2>5, <3>1, KeptIs
    <2>8. a = b
      <3>1. \A i \in 1 .. n : a[i] = b[i] BY <2>2, <2>5, <2>6, <2>7
      <3> QED BY <2>6, <2>7, <3>1, SeqEqual
    <2>9. SubSeq(d.trail, 1, shared + 1) = SubSeq(d.savedTrail, 1, shared + 1)
      BY <2>3, <2>4, <2>8, Zenon DEF IsKept
    <2> QED BY <1>3, <2>1, <2>9, Zenon DEF HistoryKnowsTheSavedPath
  <1>9. UndoStopsAtSavePoint BY <1>1 DEF UndoStopsAtSavePoint, Parted
  <1>10. CompositionLeavesNoTrace BY <1>1 DEF CompositionLeavesNoTrace, Clean, Plain
  <1> QED BY <1>4, <1>5, <1>6, <1>7, <1>8, <1>9, <1>10 DEF HistoryIsTrue

\* For texts and histories of any length: undo and redo lead along the texts the user saw,
\* the save point is where the text is the saved one, the title is told of it, a unit of undo
\* never spans a save, and text that an input method was only showing is in no state that
\* can be reached by undo or redo.
THEOREM HistoryStaysTrue == HistorySpec => []HistoryIsTrue
  <1>1. HistoryInit => HistoryInv BY HistoryStarts
  <1>2. HistoryInv /\ [HistoryNext]_historyVars => HistoryInv' BY HistoryStep
  <1>3. HistoryInv => HistoryIsTrue BY HistoryInvIsTrue
  <1> QED BY <1>1, <1>2, <1>3, PTL DEF HistorySpec

-----------------------------------------------------------------------------
(* File dialogs *)

Paths == [show : Shows, own : BOOLEAN]
Requests == [id : Shows, path : Paths, owner : Nat]
Screens == [path : Paths, owner : Nat]
Messages == [kind : {"reply", "response"}, path : Paths, owner : Nat,
             status : Verdicts \cup {"ok", "error"}]

Shaped ==
    /\ pending \subseteq Requests
    /\ results \subseteq [id : Shows, status : Verdicts]
    /\ active \subseteq Shows /\ call \in Shows \cup {NoCall}
    /\ told \in [Shows -> {"unasked", "failed", "showing"} \cup Verdicts]
    /\ chosen \in [Shows -> Verdicts \cup {"none"}]
    /\ queue \in Seq(Messages) /\ wire \in Seq(Messages)
    /\ portal \in Nat /\ open \subseteq Screens

(* A request is pending, or has its result, or is none that is waited for. *)
Tracked ==
    /\ \A p \in pending : p.path.show = p.id /\ p.owner <= portal
    /\ \A p, q \in pending : p.id = q.id => p = q
    /\ \A p \in pending, r \in results : p.id # r.id
    /\ \A r, s \in results : r.id = s.id => r = s
    /\ active = {n \in Shows : told[n] = "showing"}
    /\ loop # "over" => active \cup ({call} \ {NoCall}) = Ids(pending) \cup Ids(results)
    /\ loop \notin {"dispatch", "results"} => results = {}

(* While the editor is blocked it tracks the path it predicted. *)
Blocked ==
    call # NoCall =>
        /\ loop = "effects" /\ told[call] = "unasked"
        /\ \A p \in pending : p.id = call => p.path = Predicted(call)

Untouched(n) ==
    /\ chosen[n] = "none"
    /\ \A d \in open : d.path.show # n
    /\ \A m \in InFlight : m.path.show # n

(* Nothing is known of a dialog before it is asked for, nor of the one that is
   being asked for until the portal has replied.                              *)
Fresh ==
    /\ \A n \in Shows : told[n] = "unasked" /\ n # call => Untouched(n)
    /\ call # NoCall /\ ~Replied => Untouched(call)

(* A dialog on the screen is the portal's, and the one the request names. *)
Shown ==
    /\ \A d \in open : d.owner = portal /\ chosen[d.path.show] = "none"
    /\ \A d, e \in open : d.path.show = e.path.show => d = e
    /\ \A d \in open : told[d.path.show] = "showing" /\ loop # "over" =>
          \E p \in pending : Matches(d, p)
    /\ \A d \in open, m \in InFlight : IsReply(m) /\ d.path.show = call =>
          m.status # "error" /\ m.path = d.path /\ m.owner = d.owner
    /\ \A n \in Shows : told[n] \in Verdicts => chosen[n] # "none"
    /\ loop = "over" => \A d \in open : told[d.path.show] = "failed"

(* A Response says what the user chose, or comes from a portal that nobody asked. *)
Foreign(m) ==
    /\ \A p \in pending : p.id = m.path.show => p.owner # m.owner
    /\ m.path.show = call => \A r \in InFlight : IsReply(r) => r.owner # m.owner

Truthful ==
    /\ \A m \in InFlight : m.owner <= portal
    /\ \A m \in InFlight : m.kind = "response" =>
          m.status \in Verdicts /\ (m.status = chosen[m.path.show] \/ Foreign(m))
    /\ \A r \in results : r.status = chosen[r.id]

(* What was chosen while the editor is still blocked is announced under the path
   that the reply names.                                                        *)
Announced ==
    call # NoCall /\ chosen[call] # "none" =>
        \A r \in InFlight : IsReply(r) /\ r.status # "error" =>
            \E m \in InFlight : m.kind = "response" /\ Matches(m, r)

DialogInv ==
    Shaped /\ Tracked /\ Blocked /\ Fresh /\ Shown /\ Truthful /\ Announced /\ AnswerOnItsWay

-----------------------------------------------------------------------------
(* Sequences *)

\* One message is what a sequence of it holds.
LEMMA RangeOfOne ==
  ASSUME NEW S, NEW m \in S
  PROVE  Range(<<m>>) = {m}
  <1> DEFINE s == <<m>>
  <1>1. s \in Seq(S) /\ Len(s) = 1 /\ s[1] = m OBVIOUS
  <1> HIDE DEF s
  <1>2. Range(s) = {s[i] : i \in 1 .. Len(s)} BY <1>1, RangeEquality
  <1>3. \A i : i \in 1 .. 1 <=> i = 1 OBVIOUS
  <1>4. Range(s) = {m} BY <1>1, <1>2, <1>3
  <1> QED BY <1>4 DEF s

\* And also where it is sent twice.
LEMMA RangeOfTwo ==
  ASSUME NEW S, NEW m \in S
  PROVE  Range(<<m, m>>) = {m}
  <1> DEFINE s == <<m, m>>
  <1>1. s \in Seq(S) /\ Len(s) = 2 /\ s[1] = m /\ s[2] = m OBVIOUS
  <1> HIDE DEF s
  <1>2. Range(s) = {s[i] : i \in 1 .. Len(s)} BY <1>1, RangeEquality
  <1>3. \A i : i \in 1 .. 2 <=> i = 1 \/ i = 2 OBVIOUS
  <1>4. Range(s) = {m} BY <1>1, <1>2, <1>3
  <1> QED BY <1>4 DEF s

\* A sequence is its first n elements and the others.
LEMMA SplitAt ==
  ASSUME NEW S, NEW s \in Seq(S), NEW n \in 1 .. Len(s)
  PROVE  SubSeq(s, 1, n) \o SubSeq(s, n + 1, Len(s)) = s
  <1>1. Len(s) \in Nat OBVIOUS
  <1>2. 1 \in 1 .. Len(s) + 1 BY <1>1
  <1>3. n \in 1 - 1 .. Len(s) BY <1>1
  <1>4. Len(s) \in n .. Len(s) BY <1>1
  <1>5. SubSeq(s, 1, n) \o SubSeq(s, n + 1, Len(s)) = SubSeq(s, 1, Len(s))
    BY <1>2, <1>3, <1>4, ConcatAdjacentSubSeq
  <1>6. SubSeq(s, 1, Len(s)) = s BY SubSeqFull
  <1> QED BY <1>5, <1>6

\* Also its head and its tail.
LEMMA HeadAndTail ==
  ASSUME NEW S, NEW s \in Seq(S), s # << >>
  PROVE  s = <<Head(s)>> \o Tail(s)
  OBVIOUS

-----------------------------------------------------------------------------
(* The messages in flight *)

\* The messages of one sequence or the other are messages.
LEMMA InFlightShaped ==
  ASSUME Shaped
  PROVE  InFlight \subseteq Messages
  BY RangeOfSeq DEF Shaped, InFlight

\* A read moves messages from the wire to the queue and loses none.
LEMMA ReadKeepsAll ==
  ASSUME Shaped, NEW n \in DOMAIN wire, Reads(n)
  PROVE  /\ InFlight' = InFlight
         /\ queue' \in Seq(Messages) /\ wire' \in Seq(Messages)
         /\ \A i \in 1 .. n : wire[i] \in InFlight
  <1> DEFINE first == SubSeq(wire, 1, n)
             rest == SubSeq(wire, n + 1, Len(wire))
  <1>1. wire \in Seq(Messages) /\ queue \in Seq(Messages) /\ n \in 1 .. Len(wire)
    BY DEF Shaped
  <1>2. first \in Seq(Messages) /\ rest \in Seq(Messages)
    <2>1. \A i \in 1 .. Len(wire) : wire[i] \in Messages BY <1>1
    <2>2. Len(wire) \in Nat BY <1>1
    <2>3. \A i \in 1 .. n : wire[i] \in Messages BY <2>1, <1>1
    <2>4. \A i \in n + 1 .. Len(wire) : wire[i] \in Messages BY <2>1, <1>1
    <2>5. first \in Seq(Messages) BY <2>3, <1>1, SubSeqProperties
    <2>6. rest \in Seq(Messages) BY <2>2, <2>4, <1>1, SubSeqProperties
    <2> QED BY <2>5, <2>6
  <1>3. first \o rest = wire BY <1>1, SplitAt
  <1>4. queue' = queue \o first /\ wire' = rest BY DEF Reads
  <1> HIDE DEF first, rest
  <1>5. Range(wire) = Range(first) \cup Range(rest)
    <2>1. Range(first \o rest) = Range(first) \cup Range(rest)
      BY <1>2, RangeConcatenation
    <2> QED BY <2>1, <1>3
  <1>6. Range(queue') = Range(queue) \cup Range(first)
    <2>1. Range(queue \o first) = Range(queue) \cup Range(first)
      BY <1>1, <1>2, RangeConcatenation
    <2> QED BY <2>1, <1>4
  <1>7. queue' \in Seq(Messages)
    BY <1>1, <1>2, <1>4, ConcatProperties
  <1>8. Range(wire) = {wire[i] : i \in 1 .. Len(wire)} BY <1>1, RangeEquality
  <1>9. InFlight' = Range(queue') \cup Range(wire') BY DEF InFlight
  <1>10. InFlight' = InFlight BY <1>4, <1>5, <1>6, <1>9 DEF InFlight
  <1>11. \A i \in 1 .. n : wire[i] \in InFlight BY <1>1, <1>8 DEF InFlight
  <1> QED BY <1>2, <1>4, <1>7, <1>10, <1>11

\* What is sent is in flight with what was.
LEMMA SendAdds ==
  ASSUME Shaped, NEW m \in Messages, Send(m), queue' = queue
  PROVE  InFlight' = InFlight \cup {m} /\ wire' \in Seq(Messages)
  <1>1. wire \in Seq(Messages) /\ <<m>> \in Seq(Messages) BY DEF Shaped
  <1>2. wire' = wire \o <<m>> BY <1>1, AppendIsConcat DEF Send
  <1>3. Range(<<m>>) = {m} BY RangeOfOne
  <1>4. Range(wire') = Range(wire) \cup {m}
    <2>1. Range(wire \o <<m>>) = Range(wire) \cup Range(<<m>>)
      BY <1>1, RangeConcatenation
    <2> QED BY <2>1, <1>2, <1>3
  <1>5. InFlight' = Range(queue') \cup Range(wire') BY DEF InFlight
  <1>6. wire' \in Seq(Messages) BY <1>1, <1>2, ConcatProperties
  <1> QED BY <1>4, <1>5, <1>6 DEF InFlight

\* Also when it is sent twice.
LEMMA RepeatAdds ==
  ASSUME Shaped, NEW m \in Messages, NEW twice \in BOOLEAN,
         wire' = wire \o IF twice THEN <<m, m>> ELSE <<m>>, queue' = queue
  PROVE  InFlight' = InFlight \cup {m} /\ wire' \in Seq(Messages)
  <1> DEFINE sent == IF twice THEN <<m, m>> ELSE <<m>>
  <1>1. wire \in Seq(Messages) /\ sent \in Seq(Messages) BY DEF Shaped
  <1>2. Range(sent) = {m}
    <2>1. Range(<<m>>) = {m} /\ Range(<<m, m>>) = {m} BY RangeOfOne, RangeOfTwo
    <2> QED BY <2>1
  <1>3. wire' = wire \o sent OBVIOUS
  <1> HIDE DEF sent
  <1>4. Range(wire') = Range(wire) \cup {m}
    <2>1. Range(wire \o sent) = Range(wire) \cup Range(sent)
      BY <1>1, RangeConcatenation
    <2> QED BY <2>1, <1>2, <1>3
  <1>5. InFlight' = Range(queue') \cup Range(wire') BY DEF InFlight
  <1>6. wire' \in Seq(Messages) BY <1>1, <1>3, ConcatProperties
  <1> QED BY <1>4, <1>5, <1>6 DEF InFlight

\* The dispatch takes one message out of the queue, of which there may be more.
LEMMA DispatchTakes ==
  ASSUME Shaped, queue # << >>, queue' = Tail(queue), wire' = wire
  PROVE  /\ InFlight = InFlight' \cup {Head(queue)} /\ queue' \in Seq(Messages)
         /\ Head(queue) \in Messages
  <1>1. queue \in Seq(Messages) BY DEF Shaped
  <1>2. Head(queue) \in Messages /\ Tail(queue) \in Seq(Messages)
    BY <1>1, HeadTailProperties
  <1> DEFINE one == <<Head(queue)>>
             rest == Tail(queue)
  <1>3. queue = one \o rest BY <1>1, HeadAndTail
  <1>4. one \in Seq(Messages) /\ rest \in Seq(Messages) BY <1>2
  <1>5. Range(one) = {Head(queue)} BY <1>2, RangeOfOne
  <1>6. Range(queue) = {Head(queue)} \cup Range(Tail(queue))
    <2> HIDE DEF one, rest
    <2>1. Range(one \o rest) = Range(one) \cup Range(rest)
      BY <1>4, RangeConcatenation
    <2>2. Range(queue) = {Head(queue)} \cup Range(rest) BY <2>1, <1>3, <1>5
    <2> QED BY <2>2 DEF rest
  <1>7. InFlight' = Range(queue') \cup Range(wire') BY DEF InFlight
  <1> QED BY <1>2, <1>6, <1>7 DEF InFlight

-----------------------------------------------------------------------------
(* The invariant, action by action *)

\* The requests of two sets are those of the one and those of the other.
LEMMA IdsOfBoth ==
  ASSUME NEW A, NEW B
  PROVE  Ids(A \cup B) = Ids(A) \cup Ids(B)
  BY DEF Ids

\* A result is of the request it answers.
LEMMA IdsOfAnswers ==
  ASSUME NEW A, NEW status
  PROVE  Ids({[id |-> p.id, status |-> status] : p \in A}) = Ids(A)
  <1> DEFINE answer(p) == [id |-> p.id, status |-> status]
             N == {answer(p) : p \in A}
  <1>1. \A p \in A : answer(p).id = p.id OBVIOUS
  <1>2. \A r \in N : \E p \in A : r.id = p.id BY <1>1
  <1>3. \A p \in A : \E r \in N : r.id = p.id BY <1>1
  <1> HIDE DEF N
  <1>4. Ids(N) = Ids(A) BY <1>2, <1>3 DEF Ids
  <1> QED BY <1>4 DEF N

\* While the editor is blocked, only its own request is under the path it predicted.
LEMMA PredictedIsMine ==
  ASSUME DialogInv, call # NoCall, NEW p \in pending
  PROVE  p.path = Predicted(call) <=> p.id = call
  <1>1. Predicted(call).show = call BY DEF Predicted
  <1>2. p.path.show = p.id BY DEF DialogInv, Tracked
  <1>3. p.id = call => p.path = Predicted(call) BY DEF DialogInv, Blocked
  <1> QED BY <1>1, <1>2, <1>3

LEMMA DialogInvInit ==
  DialogInit(TRUE) => DialogInv
  <1> SUFFICES ASSUME DialogInit(TRUE) PROVE DialogInv OBVIOUS
  <1>1. Shaped BY DialogBounds DEF DialogInit, Shaped, Shows, NoCall
  <1>2. InFlight = {} BY DEF DialogInit, InFlight, Range
  <1>3. Tracked BY DEF DialogInit, Tracked, Ids, NoCall
  <1>4. Blocked BY DEF DialogInit, Blocked
  <1>5. Fresh BY <1>2 DEF DialogInit, Fresh, Untouched
  <1>6. Shown BY DEF DialogInit, Shown, Verdicts
  <1>7. Truthful BY <1>2 DEF DialogInit, Truthful
  <1>8. Announced BY DEF DialogInit, Announced
  <1>9. AnswerOnItsWay BY DEF DialogInit, AnswerOnItsWay
  <1> QED BY <1>1, <1>3, <1>4, <1>5, <1>6, <1>7, <1>8, <1>9 DEF DialogInv

\* The loop goes on, and messages may move into the queue.
LEMMA LoopMoves ==
  ASSUME DialogInv, UNCHANGED <<pending, results, active, told, call, portal, open, chosen>>,
         InFlight' = InFlight, queue' \in Seq(Messages), wire' \in Seq(Messages),
         call # NoCall => loop' = loop, loop # "over", loop' # "over",
         loop' \in {"dispatch", "results"} \/ results = {}
  PROVE  DialogInv'
  <1>1. Shaped' BY DEF DialogInv, Shaped
  <1>2. Tracked' BY DEF DialogInv, Tracked
  <1>3. Blocked' BY DEF DialogInv, Blocked
  <1>4. Fresh' BY DEF DialogInv, Fresh, Untouched, Replied, IsReply
  <1>5. Shown' BY DEF DialogInv, Shown, IsReply
  <1>6. Truthful' BY DEF DialogInv, Truthful, Foreign, IsReply
  <1>7. Announced' BY DEF DialogInv, Announced, IsReply
  <1>8. AnswerOnItsWay' BY DEF DialogInv, AnswerOnItsWay
  <1> QED BY <1>1, <1>2, <1>3, <1>4, <1>5, <1>6, <1>7, <1>8 DEF DialogInv

\* One that could not be asked for is not tracked.
LEMMA ShowFailsInv ==
  ASSUME DialogInv, ShowFails PROVE DialogInv'
  <1> PICK n \in Shows : Asked(n) /\ told' = [told EXCEPT ![n] = "failed"]
    BY DEF ShowFails
  <1> USE DEF DialogInv, Shaped
  <1>1. /\ told[n] = "unasked" /\ told'[n] = "failed"
        /\ \A k \in Shows \ {n} : told'[k] = told[k]
    BY DEF Asked
  <1>2. InFlight' = InFlight BY DEF ShowFails, InFlight
  <1>3. call = NoCall /\ n # NoCall BY DEF ShowFails, NoCall, Shows
  <1>4. Untouched(n) BY <1>1, <1>3 DEF Fresh
  <1>5. Shaped'
    <2>1. told' \in [Shows -> {"unasked", "failed", "showing"} \cup Verdicts] OBVIOUS
    <2> QED BY <2>1 DEF ShowFails
  <1>6. Tracked'
    <2>1. {k \in Shows : told'[k] = "showing"} = {k \in Shows : told[k] = "showing"}
      BY <1>1
    <2> QED BY <2>1 DEF ShowFails, Tracked
  <1>7. Blocked' BY <1>3 DEF ShowFails, Blocked
  <1>8. Fresh' BY <1>1, <1>2, <1>3 DEF ShowFails, Fresh, Untouched
  <1>9. Shown'
    BY <1>1, <1>2, <1>3, <1>4 DEF ShowFails, Shown, IsReply, Verdicts, Untouched, Screens, Paths
  <1>10. Truthful' BY <1>2 DEF ShowFails, Truthful, Foreign, IsReply
  <1>11. Announced' BY <1>3 DEF ShowFails, Announced
  <1>12. AnswerOnItsWay' BY <1>1, <1>2 DEF ShowFails, AnswerOnItsWay
  <1> QED BY <1>5, <1>6, <1>7, <1>8, <1>9, <1>10, <1>11, <1>12

\* What is asked for is tracked under the path that the token predicts.
LEMMA ShowCallsInv ==
  ASSUME DialogInv, ShowCalls PROVE DialogInv'
  <1> PICK n \in Shows : /\ Asked(n)
                         /\ pending' = Begin(n, Predicted(n), portal)
                         /\ call' = n
    BY DEF ShowCalls
  <1> DEFINE new == [id |-> n, path |-> Predicted(n), owner |-> portal]
  <1> USE DEF DialogInv, Shaped
  <1>1. told[n] = "unasked" BY DEF Asked
  <1>2. InFlight' = InFlight BY DEF ShowCalls, InFlight
  <1>3. call = NoCall /\ n # NoCall /\ loop = "effects" BY DEF ShowCalls, NoCall, Shows
  <1>4. Untouched(n) BY <1>1, <1>3 DEF Fresh
  <1>5. pending' = pending \cup {new} BY DEF Begin
  <1>6. /\ new \in Requests /\ new.id = n /\ new.path = Predicted(n) /\ new.owner = portal
        /\ new.path.show = n
    BY DEF Requests, Predicted, Paths
  <1>7. n \notin active BY <1>1 DEF Tracked
  <1>8. \A p \in pending : p.id # n BY <1>3, <1>7 DEF Tracked, Ids
  <1>9. results = {} BY <1>3 DEF Tracked
  <1> HIDE DEF new
  <1>10. Shaped' BY <1>5, <1>6 DEF ShowCalls
  <1>11. Tracked'
    <2>1. Ids(pending') = Ids(pending) \cup {n} BY <1>5, <1>6 DEF Ids
    <2>2. active = Ids(pending) \cup Ids(results) BY <1>3 DEF Tracked
    <2>3. active' \cup ({call'} \ {NoCall}) = Ids(pending') \cup Ids(results')
      BY <2>1, <2>2, <1>3 DEF ShowCalls
    <2>4. \A p, q \in pending' : p.id = q.id => p = q BY <1>5, <1>6, <1>8 DEF Tracked
    <2>5. \A p \in pending' : p.path.show = p.id /\ p.owner <= portal
      BY <1>5, <1>6 DEF Tracked
    <2> QED BY <2>3, <2>4, <2>5, <1>3, <1>9 DEF ShowCalls, Tracked
  <1>12. Blocked'
    <2>1. call' = n /\ loop' = "effects" /\ told'[n] = "unasked" BY <1>1, <1>3 DEF ShowCalls
    <2>2. \A p \in pending' : p.id = n => p.path = Predicted(n) BY <1>5, <1>6, <1>8
    <2> QED BY <2>1, <2>2 DEF Blocked
  <1>13. Fresh'
    <2>1. \A k \in Shows : Untouched(k) => Untouched(k)' BY <1>2 DEF ShowCalls, Untouched
    <2>2. \A k \in Shows : told'[k] = "unasked" => Untouched(k)
      BY <1>3 DEF ShowCalls, Fresh, NoCall, Shows
    <2>3. Untouched(n)' BY <2>1, <1>4
    <2>4. Untouched(call)' BY <2>3
    <2> QED BY <2>1, <2>2, <2>4 DEF Fresh
  <1>14. Shown'
    <2>1. \A d \in open : d.path.show # n BY <1>4 DEF Untouched
    <2>2. \A d \in open : told[d.path.show] = "showing" =>
            \E p \in pending' : Matches(d, p)
      BY <1>3, <1>5 DEF Shown
    <2> QED BY <2>1, <2>2, <1>2, <1>3 DEF ShowCalls, Shown
  <1>15. Truthful'
    <2>1. \A m \in InFlight : m.path.show # n BY <1>4 DEF Untouched
    <2>2. \A m \in InFlight : Foreign(m) => Foreign(m)'
      BY <2>1, <1>3, <1>5, <1>6 DEF Foreign
    <2> QED BY <2>2, <1>2 DEF ShowCalls, Truthful
  <1>16. Announced' BY <1>4 DEF ShowCalls, Announced, Untouched
  <1>17. AnswerOnItsWay' BY <1>2, <1>5 DEF ShowCalls, AnswerOnItsWay
  <1> QED BY <1>10, <1>11, <1>12, <1>13, <1>14, <1>15, <1>16, <1>17

\* The call ends without a handle; no other request is tracked under its path.
LEMMA NulloptInv ==
  ASSUME DialogInv, call # NoCall, Nullopt,
         UNCHANGED <<results, loop, portal, open, chosen>>,
         InFlight' = InFlight, queue' \in Seq(Messages), wire' \in Seq(Messages)
  PROVE  DialogInv'
  <1> USE DEF DialogInv, Shaped
  <1>1. call \in Shows /\ loop = "effects" /\ told[call] = "unasked" /\ results = {}
    BY DEF Blocked, Tracked
  <1>2. /\ told'[call] = "failed" /\ call' = NoCall /\ active' = active
        /\ \A k \in Shows \ {call} : told'[k] = told[k]
    BY <1>1 DEF Nullopt
  <1>3. pending' = {p \in pending : p.id # call}
    <2>1. \A p \in pending : p.path = Predicted(call) <=> p.id = call
      BY PredictedIsMine
    <2> QED BY <2>1 DEF Nullopt, Abandon
  <1>4. call \notin active BY <1>1 DEF Tracked
  <1>5. Shaped'
    <2>1. told' \in [Shows -> {"unasked", "failed", "showing"} \cup Verdicts]
      BY DEF Nullopt
    <2> QED BY <2>1, <1>1, <1>2, <1>3
  <1>6. Tracked'
    <2>1. Ids(pending') = Ids(pending) \ {call} BY <1>3 DEF Ids
    <2>2. active \cup {call} = Ids(pending) \cup Ids(results) BY <1>1 DEF Tracked
    <2>3. Ids(results) = {} BY <1>1 DEF Ids
    <2>4. active' \cup ({call'} \ {NoCall}) = Ids(pending') \cup Ids(results')
      BY <2>1, <2>2, <2>3, <1>2, <1>4
    <2>5. {k \in Shows : told'[k] = "showing"} = {k \in Shows : told[k] = "showing"}
      BY <1>1, <1>2
    <2> QED BY <2>4, <2>5, <1>2, <1>3 DEF Tracked
  <1>7. Blocked' BY <1>2 DEF Blocked
  <1>8. Fresh' BY <1>1, <1>2 DEF Fresh, Untouched
  <1>9. Shown'
    <2>1. \A d \in open : d.path.show \in Shows BY DEF Screens, Paths
    <2>2. \A d \in open, p \in pending : Matches(d, p) => d.path.show = p.id
      BY DEF Matches, Tracked
    <2>3. \A d \in open : told'[d.path.show] = "showing" =>
            \E p \in pending' : Matches(d, p)
      BY <2>1, <2>2, <1>1, <1>2, <1>3 DEF Shown
    <2>4. \A d \in open : d.path.show # call' BY <2>1, <1>2 DEF Shows, NoCall
    <2>5. \A k \in Shows : told'[k] \in Verdicts => chosen[k] # "none"
      BY <1>1, <1>2 DEF Shown, Verdicts
    <2> QED BY <2>3, <2>4, <2>5, <1>1 DEF Shown
  <1>10. Truthful'
    <2>1. \A m \in InFlight : m.path.show \in Shows BY InFlightShaped DEF Messages, Paths
    <2>2. \A m \in InFlight : Foreign(m) => Foreign(m)'
      BY <2>1, <1>2, <1>3 DEF Foreign, Shows, NoCall
    <2> QED BY <2>2 DEF Truthful
  <1>11. Announced' BY <1>2 DEF Announced
  <1>12. AnswerOnItsWay'
    <2>1. \A n \in Shows : told'[n] = "showing" => n # call /\ told[n] = "showing"
      BY <1>1, <1>2
    <2> QED BY <2>1, <1>1, <1>3 DEF AnswerOnItsWay
  <1> QED BY <1>5, <1>6, <1>7, <1>8, <1>9, <1>10, <1>11, <1>12

\* The request is tracked under the handle of the reply r from here on.
LEMMA HandleInv ==
  ASSUME DialogInv, call # NoCall, NEW r \in InFlight, IsReply(r), r.status # "error",
         Returns(r), UNCHANGED <<results, loop, portal, open, chosen>>,
         InFlight' = InFlight, queue' \in Seq(Messages), wire' \in Seq(Messages)
  PROVE  DialogInv'
  <1> DEFINE new == [id |-> call, path |-> r.path, owner |-> r.owner]
  <1> USE DEF DialogInv, Shaped
  <1>1. call \in Shows /\ loop = "effects" /\ told[call] = "unasked" /\ results = {}
    BY DEF Blocked, Tracked
  <1>2. /\ told'[call] = "showing" /\ call' = NoCall /\ active' = active \cup {call}
        /\ \A k \in Shows \ {call} : told'[k] = told[k]
    BY <1>1 DEF Returns
  <1>3. r \in Messages /\ r.path.show = call /\ r.kind = "reply"
    BY InFlightShaped DEF IsReply
  <1>4. new \in Requests /\ new.id = call /\ new.path = r.path /\ new.owner = r.owner
    BY <1>1, <1>3 DEF Messages, Requests
  <1>5. pending' = {p \in pending : p.id # call} \cup {new}
    <2>1. \A p \in pending : p.path = Predicted(call) <=> p.id = call
      BY PredictedIsMine
    <2>2. \A p \in pending :
            p.id = call => [id |-> p.id, path |-> r.path, owner |-> r.owner] = new
      OBVIOUS
    <2>3. \E p \in pending : p.id = call
      <3>1. call \in Ids(pending) \cup Ids(results) BY <1>1 DEF Tracked
      <3> QED BY <3>1, <1>1 DEF Ids
    <2>4. pending' = {IF p.path = Predicted(call)
                      THEN [id |-> p.id, path |-> r.path, owner |-> r.owner]
                      ELSE p : p \in pending}
      BY DEF Returns, Retarget
    <2> HIDE DEF new
    <2> QED BY <2>1, <2>2, <2>3, <2>4
  <1> HIDE DEF new
  <1>6. call \notin active BY <1>1 DEF Tracked
  <1>7. r.owner <= portal BY DEF Truthful
  <1>8. Shaped'
    <2>1. told' \in [Shows -> {"unasked", "failed", "showing"} \cup Verdicts]
      BY <1>1 DEF Returns
    <2> QED BY <2>1, <1>1, <1>2, <1>4, <1>5
  <1>9. Tracked'
    <2>1. Ids(pending') = Ids(pending) \cup {call} BY <1>4, <1>5 DEF Ids
    <2>2. active \cup {call} = Ids(pending) \cup Ids(results) BY <1>1 DEF Tracked
    <2>3. active' \cup ({call'} \ {NoCall}) = Ids(pending') \cup Ids(results')
      BY <2>1, <2>2, <1>2
    <2>4. {k \in Shows : told'[k] = "showing"} = {k \in Shows : told[k] = "showing"} \cup {call}
      BY <1>1, <1>2
    <2>5. \A p, q \in pending' : p.id = q.id => p = q BY <1>4, <1>5 DEF Tracked
    <2>6. \A p \in pending' : p.path.show = p.id /\ p.owner <= portal
      BY <1>3, <1>4, <1>5, <1>7 DEF Tracked
    <2> QED BY <2>3, <2>4, <2>5, <2>6, <1>1, <1>2 DEF Tracked
  <1>10. Blocked' BY <1>2 DEF Blocked
  <1>11. Fresh' BY <1>1, <1>2 DEF Fresh, Untouched
  <1>12. Shown'
    <2>1. \A d \in open : d.path.show \in Shows BY DEF Screens, Paths
    <2>2. \A d \in open, p \in pending : Matches(d, p) => d.path.show = p.id
      BY DEF Matches, Tracked
    <2>3. ASSUME NEW d \in open, told'[d.path.show] = "showing"
          PROVE  \E p \in pending' : Matches(d, p)
      <3>1. CASE d.path.show = call
        <4>1. r.path = d.path /\ r.owner = d.owner BY <3>1 DEF Shown
        <4> QED BY <4>1, <1>4, <1>5 DEF Matches
      <3>2. CASE d.path.show # call
        <4>1. told[d.path.show] = "showing" BY <2>1, <2>3, <3>2, <1>2
        <4>2. PICK p \in pending : Matches(d, p) BY <4>1, <1>1 DEF Shown
        <4> QED BY <4>2, <2>2, <3>2, <1>5
      <3> QED BY <3>1, <3>2
    <2>4. \A d \in open : d.path.show # call' BY <2>1, <1>2 DEF Shows, NoCall
    <2>5. \A k \in Shows : told'[k] \in Verdicts => chosen[k] # "none"
      BY <1>1, <1>2 DEF Shown, Verdicts
    <2> QED BY <2>3, <2>4, <2>5, <1>1 DEF Shown
  <1>13. Truthful'
    <2>1. \A m \in InFlight : m.path.show \in Shows BY InFlightShaped DEF Messages, Paths
    <2>2. ASSUME NEW m \in InFlight, Foreign(m) PROVE Foreign(m)'
      <3>1. m.path.show # call' BY <2>1, <1>2 DEF Shows, NoCall
      <3>2. ASSUME NEW p \in pending', p.id = m.path.show PROVE p.owner # m.owner
        <4>1. CASE p.id = call
          <5>1. p = new BY <4>1, <1>5
          <5>2. r.owner # m.owner BY <2>2, <3>2, <4>1 DEF Foreign
          <5> QED BY <5>1, <5>2, <1>4
        <4>2. CASE p.id # call
          BY <4>2, <2>2, <3>2, <1>4, <1>5 DEF Foreign
        <4> QED BY <4>1, <4>2
      <3> QED BY <3>1, <3>2 DEF Foreign
    <2> QED BY <2>2 DEF Truthful
  <1>14. Announced' BY <1>2 DEF Announced
  <1>15. AnswerOnItsWay'
    <2>1. SUFFICES ASSUME NEW n \in Shows, told'[n] = "showing", chosen[n] # "none"
          PROVE  \E m \in InFlight, p \in pending' :
                    m.kind = "response" /\ Matches(m, p) /\ p.id = n
      BY DEF AnswerOnItsWay
    <2>2. CASE n = call
      <3>1. PICK m \in InFlight : m.kind = "response" /\ Matches(m, r)
        BY <2>1, <2>2 DEF Announced
      <3>2. Matches(m, new) BY <3>1, <1>4 DEF Matches
      <3> QED BY <2>2, <3>1, <3>2, <1>4, <1>5
    <2>3. CASE n # call
      <3>1. told[n] = "showing" BY <2>1, <2>3, <1>2
      <3>2. n \notin Ids(results) BY <1>1 DEF Ids
      <3>3. PICK m \in InFlight, p \in pending :
              m.kind = "response" /\ Matches(m, p) /\ p.id = n
        BY <2>1, <3>1, <3>2, <1>1 DEF AnswerOnItsWay
      <3> QED BY <2>3, <3>3, <1>5
    <2> QED BY <2>2, <2>3
  <1> QED BY <1>8, <1>9, <1>10, <1>11, <1>12, <1>13, <1>14, <1>15

\* A read while the editor is blocked.
LEMMA BlockedReadInv ==
  ASSUME DialogInv, BlockedRead PROVE DialogInv'
  <1> PICK n \in DOMAIN wire :
         /\ Reads(n)
         /\ \/ \E i \in 1 .. n : IsReply(wire[i]) /\ Returns(wire[i])
            \/ UNCHANGED <<pending, active, told, call>>
    BY DEF BlockedRead
  <1>1. call # NoCall /\ UNCHANGED <<results, loop, portal, open, chosen>> BY DEF BlockedRead
  <1>2. /\ InFlight' = InFlight /\ queue' \in Seq(Messages) /\ wire' \in Seq(Messages)
        /\ \A i \in 1 .. n : wire[i] \in InFlight
    BY ReadKeepsAll DEF DialogInv
  <1>3. CASE UNCHANGED <<pending, active, told, call>>
    <2>1. loop = "effects" /\ results = {} BY <1>1 DEF DialogInv, Blocked, Tracked
    <2> QED BY <1>1, <1>2, <1>3, <2>1, LoopMoves
  <1>4. ASSUME NEW i \in 1 .. n, IsReply(wire[i]), Returns(wire[i]) PROVE DialogInv'
    <2>1. CASE wire[i].status = "error"
      <3>1. Nullopt BY <1>4, <2>1 DEF Returns
      <3> QED BY <3>1, <1>1, <1>2, NulloptInv
    <2>2. CASE wire[i].status # "error"
      <3>1. wire[i] \in InFlight BY <1>2
      <3> QED BY <3>1, <2>2, <1>1, <1>2, <1>4, HandleInv
    <2> QED BY <2>1, <2>2
  <1> QED BY <1>3, <1>4

LEMMA ReplyTimesOutInv ==
  ASSUME DialogInv, ReplyTimesOut PROVE DialogInv'
  <1>1. /\ call # NoCall /\ Nullopt
        /\ UNCHANGED <<results, loop, queue, wire, portal, open, chosen>>
    BY DEF ReplyTimesOut
  <1>2. InFlight' = InFlight BY <1>1 DEF InFlight
  <1>3. queue' \in Seq(Messages) /\ wire' \in Seq(Messages)
    BY <1>1 DEF DialogInv, Shaped
  <1> QED BY <1>1, <1>2, <1>3, NulloptInv

\* The statuses that the workspace is told are those of the results.
LEMMA Applies ==
  ASSUME DialogInv, ApplyFileDialogResults, NEW n \in Shows
  PROVE  \/ n \notin Ids(results) /\ told'[n] = told[n]
         \/ /\ n \in Ids(results) /\ told[n] = "showing"
            /\ told'[n] = chosen[n] /\ chosen[n] \in Verdicts
  <1> USE DEF DialogInv, Shaped
  <1>1. CASE n \notin Ids(results) BY <1>1 DEF ApplyFileDialogResults
  <1>2. CASE n \in Ids(results)
    <2>1. PICK r \in results : r.id = n BY <1>2 DEF Ids
    <2>2. call = NoCall BY DEF ApplyFileDialogResults, Blocked
    <2>3. n \in active BY <1>2, <2>2 DEF Tracked, ApplyFileDialogResults
    <2>4. (CHOOSE s \in results : s.id = n) = r
      <3>1. \A s \in results : s.id = n => s = r BY <2>1 DEF Tracked
      <3> QED BY <2>1, <3>1
    <2>5. told'[n] = r.status
      BY <1>2, <2>3, <2>4 DEF ApplyFileDialogResults
    <2>6. r.status = chosen[n] BY <2>1 DEF Truthful
    <2>7. told[n] = "showing" BY <2>3 DEF Tracked
    <2> QED BY <1>2, <2>5, <2>6, <2>7
  <1> QED BY <1>1, <1>2

LEMMA ApplyInv ==
  ASSUME DialogInv, ApplyFileDialogResults PROVE DialogInv'
  <1> USE DEF DialogInv, Shaped
  <1>1. /\ loop = "results" /\ loop' = "effects" /\ results' = {}
        /\ active' = active \ Ids(results)
        /\ UNCHANGED <<pending, call, queue, wire, portal, open, chosen>>
    BY DEF ApplyFileDialogResults
  <1>2. call = NoCall BY <1>1 DEF Blocked
  <1>3. InFlight' = InFlight BY <1>1 DEF InFlight
  <1>4. \A n \in Shows :
          \/ n \notin Ids(results) /\ told'[n] = told[n]
          \/ /\ n \in Ids(results) /\ told[n] = "showing"
             /\ told'[n] = chosen[n] /\ chosen[n] \in Verdicts
    BY Applies
  <1>5. "showing" \notin Verdicts /\ "unasked" \notin Verdicts /\ "none" \notin Verdicts
    BY DEF Verdicts
  <1>6. Shaped'
    <2>1. told' = [n \in Shows |-> told'[n]] BY DEF ApplyFileDialogResults
    <2>2. told' \in [Shows -> {"unasked", "failed", "showing"} \cup Verdicts]
      BY <1>4, <2>1
    <2> QED BY <2>2, <1>1
  <1>7. Tracked'
    <2>1. active' = {n \in Shows : told'[n] = "showing"}
      BY <1>1, <1>4, <1>5 DEF Tracked
    <2>2. active = Ids(pending) \cup Ids(results) BY <1>1, <1>2 DEF Tracked
    <2>3. Ids(pending) \cap Ids(results) = {} BY DEF Tracked, Ids
    <2>4. Ids(results') = {} BY <1>1 DEF Ids
    <2>5. Ids(pending') = Ids(pending) BY <1>1
    <2>6. active' \cup ({call'} \ {NoCall}) = Ids(pending') \cup Ids(results')
      BY <2>2, <2>3, <2>4, <2>5, <1>1, <1>2
    <2> QED BY <2>1, <2>6, <1>1 DEF Tracked
  <1>8. Blocked' BY <1>1, <1>2 DEF Blocked
  <1>9. Fresh' BY <1>1, <1>2, <1>3, <1>4, <1>5 DEF Fresh, Untouched
  <1>10. Shown'
    <2>1. \A d \in open : d.path.show \in Shows BY DEF Screens, Paths
    <2>2. \A d \in open : told'[d.path.show] = "showing" =>
            \E p \in pending : Matches(d, p)
      BY <2>1, <1>1, <1>4, <1>5 DEF Shown
    <2>3. \A k \in Shows : told'[k] \in Verdicts => chosen[k] # "none"
      BY <1>4, <1>5 DEF Shown
    <2> QED BY <2>2, <2>3, <1>1, <1>3 DEF Shown, IsReply
  <1>11. Truthful' BY <1>1, <1>3 DEF Truthful, Foreign, IsReply
  <1>12. Announced' BY <1>1, <1>2 DEF Announced
  <1>13. AnswerOnItsWay' BY <1>1, <1>3, <1>4, <1>5 DEF AnswerOnItsWay
  <1> QED BY <1>6, <1>7, <1>8, <1>9, <1>10, <1>11, <1>12, <1>13

\* A Response that answers a request says what its user chose.
LEMMA MatchingIsTrue ==
  ASSUME DialogInv, NEW m \in InFlight, m.kind = "response", NEW p \in pending, Matches(m, p)
  PROVE  /\ m.status = chosen[p.id] /\ m.status \in Verdicts
         /\ m.path.show = p.id
  BY DEF DialogInv, Truthful, Foreign, Matches, Tracked

\* What is dispatched turns a request into a result, or does nothing.
LEMMA DispatchInv ==
  ASSUME DialogInv, Dispatch PROVE DialogInv'
  <1> DEFINE m == Head(queue)
             answered == IF m.kind = "response" THEN {p \in pending : Matches(m, p)} ELSE {}
  <1> USE DEF DialogInv, Shaped
  <1>1. /\ loop = "dispatch" /\ queue # << >> /\ queue' = Tail(queue)
        /\ UNCHANGED <<active, told, call, loop, wire, portal, open, chosen>>
    BY DEF Dispatch
  <1>2. call = NoCall BY <1>1 DEF Blocked
  <1>3. /\ InFlight = InFlight' \cup {m} /\ queue' \in Seq(Messages) /\ m \in Messages
    BY <1>1, DispatchTakes
  <1>4. /\ pending' = pending \ answered
        /\ results' = results \cup {[id |-> p.id, status |-> m.status] : p \in answered}
    BY DEF Dispatch, DeliverResponse
  <1>5. \A p \in answered :
          /\ p \in pending /\ m.kind = "response" /\ Matches(m, p)
          /\ m.status = chosen[p.id] /\ m.status \in Verdicts /\ m.path.show = p.id
    BY <1>3, MatchingIsTrue
  <1>6. \A p \in pending \ answered : m.kind = "response" => ~ Matches(m, p) OBVIOUS
  <1>7. \A p, q \in answered : p = q BY <1>5 DEF Tracked
  <1>8. "none" \notin Verdicts BY DEF Verdicts
  <1> HIDE DEF answered, m
  <1> DEFINE new == {[id |-> p.id, status |-> m.status] : p \in answered}
  <1>8a. Ids(results') = Ids(results) \cup Ids(answered)
    <2>1. Ids(new) = Ids(answered) BY IdsOfAnswers
    <2>2. results' = results \cup new BY <1>4
    <2> HIDE DEF new
    <2>3. Ids(results \cup new) = Ids(results) \cup Ids(new) BY IdsOfBoth
    <2>4. Ids(results') = Ids(results \cup new) BY <2>2 DEF Ids
    <2> QED BY <2>1, <2>3, <2>4
  <1>9. Shaped'
    <2>1. \A p \in answered : [id |-> p.id, status |-> m.status] \in [id : Shows, status : Verdicts]
      BY <1>5 DEF Requests
    <2> QED BY <2>1, <1>1, <1>3, <1>4
  <1>10. Ids(pending') \cup Ids(results') = Ids(pending) \cup Ids(results)
    <2>1. Ids(results') = Ids(results) \cup Ids(answered) BY <1>8a
    <2>2. Ids(pending) = Ids(pending') \cup Ids(answered) BY <1>4, <1>5 DEF Ids
    <2> QED BY <2>1, <2>2
  <1>11. Tracked'
    <2>1. \A p \in pending', r \in results' : p.id # r.id
      BY <1>4, <1>5 DEF Tracked
    <2>2. \A r, s \in results' : r.id = s.id => r = s
      BY <1>4, <1>5, <1>7 DEF Tracked
    <2> QED BY <2>1, <2>2, <1>1, <1>4, <1>10 DEF Tracked
  <1>12. Blocked' BY <1>1, <1>2 DEF Blocked
  <1>13. Fresh' BY <1>1, <1>2, <1>3 DEF Fresh, Untouched
  <1>14. Shown'
    <2>1. ASSUME NEW d \in open, told[d.path.show] = "showing"
          PROVE  \E p \in pending' : Matches(d, p)
      <3>1. PICK p \in pending : Matches(d, p) BY <2>1, <1>1 DEF Shown
      <3>2. p \notin answered
        <4>1. d.path.show = p.id BY <3>1 DEF Matches, Tracked
        <4>2. chosen[p.id] = "none" BY <4>1 DEF Shown
        <4> QED BY <4>2, <1>5, <1>8
      <3> QED BY <3>1, <3>2, <1>4
    <2>2. \A d \in open : d.path.show \in Shows BY DEF Screens, Paths
    <2>3. \A d \in open : d.path.show # call' BY <2>2, <1>1, <1>2 DEF Shows, NoCall
    <2> QED BY <2>1, <2>3, <1>1 DEF Shown
  <1>15. Truthful'
    <2>1. \A k \in InFlight' : k.path.show \in Shows
      BY <1>3, InFlightShaped DEF Messages, Paths
    <2>2. \A k \in InFlight' : Foreign(k) => Foreign(k)'
      BY <2>1, <1>1, <1>2, <1>3, <1>4 DEF Foreign, Shows, NoCall
    <2>3. \A r \in results' : r.status = chosen[r.id]
      BY <1>4, <1>5 DEF Truthful
    <2> QED BY <2>2, <2>3, <1>1, <1>3 DEF Truthful
  <1>16. Announced' BY <1>1, <1>2 DEF Announced
  <1>17. AnswerOnItsWay'
    <2>1. SUFFICES ASSUME NEW n \in Shows, told[n] = "showing", chosen[n] # "none",
                          n \notin Ids(results')
          PROVE  \E k \in InFlight', p \in pending' :
                    k.kind = "response" /\ Matches(k, p) /\ p.id = n
      BY <1>1 DEF AnswerOnItsWay
    <2>2. Ids(results') = Ids(results) \cup Ids(answered) BY <1>8a
    <2>3. n \notin Ids(results) /\ n \notin Ids(answered) BY <2>1, <2>2
    <2>4. PICK k \in InFlight, p \in pending :
            k.kind = "response" /\ Matches(k, p) /\ p.id = n
      BY <2>1, <2>3, <1>1 DEF AnswerOnItsWay
    <2>5. p \notin answered BY <2>3, <2>4 DEF Ids
    <2>6. p \in pending' BY <2>5, <1>4
    <2>7. k # m BY <2>4, <2>5, <1>6
    <2>8. k \in InFlight' BY <2>7, <1>3
    <2> QED BY <2>4, <2>6, <2>8
  <1> QED BY <1>9, <1>11, <1>12, <1>13, <1>14, <1>15, <1>16, <1>17

\* What is still on the screen is closed, unless its request failed.
LEMMA ClearInv ==
  ASSUME DialogInv, Clear PROVE DialogInv'
  <1> USE DEF DialogInv, Shaped
  <1>1. /\ loop = "effects" /\ loop' = "over" /\ call = NoCall
        /\ open' = {d \in open : ~Closed(d)}
        /\ pending' = {} /\ results' = {} /\ queue' = << >>
        /\ UNCHANGED <<active, told, call, wire, portal, chosen>>
    BY DEF Clear
  <1>2. InFlight' \subseteq InFlight
    <2>1. Range(queue') = {} BY <1>1 DEF Range
    <2>2. InFlight' = Range(queue') \cup Range(wire') BY DEF InFlight
    <2> QED BY <2>1, <2>2, <1>1 DEF InFlight
  <1>3. Shaped' BY <1>1
  <1>4. Tracked' BY <1>1 DEF Tracked
  <1>5. Blocked' BY <1>1 DEF Blocked
  <1>6. Fresh' BY <1>1, <1>2 DEF Fresh, Untouched
  <1>7. Shown'
    <2>1. ASSUME NEW d \in open' PROVE told[d.path.show] = "failed"
      <3>1. d \in open /\ \A p \in pending : ~Matches(d, p) BY <2>1, <1>1 DEF Closed
      <3>2. d.path.show \in Shows BY <3>1 DEF Screens, Paths
      <3>3. told[d.path.show] # "showing" BY <3>1, <1>1 DEF Shown
      <3>4. told[d.path.show] # "unasked"
        BY <3>1, <3>2, <1>1 DEF Fresh, Untouched, NoCall, Shows
      <3>5. told[d.path.show] \notin Verdicts BY <3>1, <3>2 DEF Shown
      <3> QED BY <3>2, <3>3, <3>4, <3>5
    <2>2. \A d \in open : d.path.show \in Shows BY DEF Screens, Paths
    <2>3. \A d \in open' : d \in open /\ d.path.show # call'
      BY <2>2, <1>1 DEF Shows, NoCall
    <2> QED BY <2>1, <2>3, <1>1 DEF Shown
  <1>8. Truthful'
    <2>1. \A m \in InFlight : m.path.show \in Shows BY InFlightShaped DEF Messages, Paths
    <2>2. \A m \in InFlight' : Foreign(m)' BY <2>1, <1>1, <1>2 DEF Foreign, Shows, NoCall
    <2> QED BY <2>2, <1>1, <1>2 DEF Truthful
  <1>9. Announced' BY <1>1 DEF Announced
  <1>10. AnswerOnItsWay' BY <1>1 DEF AnswerOnItsWay
  <1> QED BY <1>3, <1>4, <1>5, <1>6, <1>7, <1>8, <1>9, <1>10

\* The portal replies to the call, with a dialog or with an error.
LEMMA RepliesInv ==
  ASSUME DialogInv, call # NoCall, ~Replied, NEW r \in Messages,
         r.kind = "reply", r.path.show = call, r.owner = portal, Send(r),
         \/ open' = open
         \/ /\ r.status # "error"
            /\ open' = open \cup {[path |-> r.path, owner |-> portal]},
         UNCHANGED <<pending, results, active, told, call, loop, queue, portal, chosen>>
  PROVE  DialogInv'
  <1> DEFINE new == [path |-> r.path, owner |-> portal]
  <1> USE DEF DialogInv, Shaped
  <1>1. call \in Shows /\ loop = "effects" /\ told[call] = "unasked" /\ Untouched(call)
    BY DEF Blocked, Fresh
  <1>2. InFlight' = InFlight \cup {r} /\ wire' \in Seq(Messages) BY SendAdds
  <1>3. /\ new \in Screens /\ new.path = r.path /\ new.owner = portal
        /\ open \subseteq open' /\ open' \subseteq open \cup {new}
        /\ new \in open' => new \in open \/ r.status # "error"
    BY DEF Screens, Messages
  <1> HIDE DEF new
  <1>4. /\ chosen[call] = "none"
        /\ \A d \in open : d.path.show # call
        /\ \A m \in InFlight : m.path.show # call
    BY <1>1 DEF Untouched
  <1>5. Shaped' BY <1>2, <1>3
  <1>6. Tracked' BY DEF Tracked
  <1>7. Blocked' BY DEF Blocked
  <1>8. Fresh'
    <2>1. ASSUME NEW n \in Shows, told[n] = "unasked", n # call PROVE Untouched(n)'
      BY <2>1, <1>2, <1>3 DEF Fresh, Untouched
    <2>2. Replied' BY <1>2 DEF Replied, IsReply
    <2> QED BY <2>1, <2>2 DEF Fresh
  <1>9. Shown'
    <2>1. \A d \in open' : d.owner = portal /\ chosen[d.path.show] = "none"
      BY <1>3, <1>4 DEF Shown
    <2>2. \A d, e \in open' : d.path.show = e.path.show => d = e
      BY <1>3, <1>4 DEF Shown
    <2>3. \A d \in open' : told[d.path.show] = "showing" => \E p \in pending : Matches(d, p)
      BY <1>1, <1>3 DEF Shown
    <2>4. ASSUME NEW d \in open', NEW m \in InFlight', IsReply(m), d.path.show = call
          PROVE  m.status # "error" /\ m.path = d.path /\ m.owner = d.owner
      <3>1. d = new /\ m = r BY <2>4, <1>2, <1>3, <1>4 DEF IsReply
      <3>2. new \notin open BY <1>3, <1>4
      <3> QED BY <3>1, <3>2, <2>4, <1>3
    <2> QED BY <2>1, <2>2, <2>3, <2>4, <1>1 DEF Shown, IsReply
  <1>10. Truthful'
    <2>1. \A m \in InFlight : Foreign(m) => Foreign(m)' BY <1>2, <1>4 DEF Foreign, IsReply
    <2> QED BY <2>1, <1>2 DEF Truthful
  <1>11. Announced' BY <1>4 DEF Announced
  <1>12. AnswerOnItsWay' BY <1>2 DEF AnswerOnItsWay
  <1> QED BY <1>5, <1>6, <1>7, <1>8, <1>9, <1>10, <1>11, <1>12

LEMMA PortalAcceptsInv ==
  ASSUME DialogInv, PortalAccepts PROVE DialogInv'
  <1> PICK handle \in Handles(call) :
         /\ Send(Message("reply", handle, portal, "ok"))
         /\ open' = open \cup {[path |-> handle, owner |-> portal]}
    BY DEF PortalAccepts
  <1> DEFINE r == Message("reply", handle, portal, "ok")
  <1>1. call # NoCall /\ call \in Shows BY DEF PortalAccepts, DialogInv, Shaped
  <1>2. handle \in Paths /\ handle.show = call BY <1>1 DEF Handles, Paths
  <1>3. /\ r \in Messages /\ r.kind = "reply" /\ r.path = handle /\ r.owner = portal
        /\ r.status # "error"
    BY <1>2 DEF Message, Messages, DialogInv, Shaped
  <1>4. Send(r) OBVIOUS
  <1> HIDE DEF r
  <1> QED BY <1>1, <1>2, <1>3, <1>4, RepliesInv DEF PortalAccepts

LEMMA PortalRefusesInv ==
  ASSUME DialogInv, PortalRefuses PROVE DialogInv'
  <1> DEFINE r == Message("reply", Predicted(call), portal, "error")
  <1>1. call # NoCall /\ call \in Shows BY DEF PortalRefuses, DialogInv, Shaped
  <1>2. Predicted(call) \in Paths /\ Predicted(call).show = call BY <1>1 DEF Predicted, Paths
  <1>3. r \in Messages /\ r.kind = "reply" /\ r.path = Predicted(call) /\ r.owner = portal
    BY <1>2 DEF Message, Messages, DialogInv, Shaped
  <1>4. Send(r) BY DEF PortalRefuses
  <1> HIDE DEF r
  <1> QED BY <1>1, <1>2, <1>3, <1>4, RepliesInv DEF PortalRefuses

\* A choice is announced by the portal that shows the dialog.
LEMMA UserChoosesInv ==
  ASSUME DialogInv, UserChooses PROVE DialogInv'
  <1> PICK d \in open, choice \in Verdicts, twice \in BOOLEAN :
         LET m == Message("response", d.path, d.owner, choice) IN
         /\ wire' = wire \o IF twice THEN <<m, m>> ELSE <<m>>
         /\ open' = open \ {d}
         /\ chosen' = [chosen EXCEPT ![d.path.show] = choice]
    BY DEF UserChooses
  <1> DEFINE n == d.path.show
             m == Message("response", d.path, d.owner, choice)
  <1> USE DEF DialogInv, Shaped
  <1>1. /\ loop # "over"
        /\ UNCHANGED <<pending, results, active, told, call, loop, queue, portal>>
    BY DEF UserChooses
  <1>2. d \in Screens /\ n \in Shows BY DEF Screens, Paths
  <1>3. /\ m \in Messages /\ m.kind = "response" /\ m.path = d.path /\ m.owner = d.owner
        /\ m.status = choice
    BY <1>2 DEF Message, Messages, Screens
  <1>4. wire' = wire \o IF twice THEN <<m, m>> ELSE <<m>> OBVIOUS
  <1>5. open' = open \ {d} OBVIOUS
  <1>6. chosen' = [chosen EXCEPT ![n] = choice] OBVIOUS
  <1>7. chosen'[n] = choice /\ \A k \in Shows \ {n} : chosen'[k] = chosen[k]
    BY <1>2, <1>6
  <1>8. n = d.path.show OBVIOUS
  <1> HIDE DEF m, n
  <1>9. InFlight' = InFlight \cup {m} /\ wire' \in Seq(Messages)
    BY <1>1, <1>3, <1>4, RepeatAdds
  <1>10. chosen[n] = "none" /\ d.owner = portal BY <1>8 DEF Shown
  <1>11. "none" \notin Verdicts BY DEF Verdicts
  <1>12. \A k \in Shows : Untouched(k) => k # n BY <1>8 DEF Untouched
  <1>13. \A k \in InFlight : k.path.show \in Shows BY InFlightShaped DEF Messages, Paths
  <1>14. \A r \in results : r.id # n BY <1>10, <1>11 DEF Truthful
  <1>15. Shaped'
    <2>1. chosen' \in [Shows -> Verdicts \cup {"none"}] BY <1>6
    <2> QED BY <2>1, <1>1, <1>5, <1>9
  <1>16. Tracked' BY <1>1 DEF Tracked
  <1>17. Blocked' BY <1>1 DEF Blocked
  <1>18. Fresh'
    <2>1. ASSUME NEW k \in Shows, Untouched(k) PROVE Untouched(k)'
      <3>1. k # n BY <2>1, <1>12
      <3> QED BY <2>1, <3>1, <1>3, <1>5, <1>7, <1>8, <1>9 DEF Untouched
    <2>2. Replied => Replied' BY <1>1, <1>9 DEF Replied, IsReply
    <2> QED BY <2>1, <2>2, <1>1 DEF Fresh
  <1>19. Shown'
    <2>1. \A e \in open' : e \in open /\ e.path.show # n /\ e.path.show \in Shows
      BY <1>5, <1>8 DEF Shown, Screens, Paths
    <2>2. \A e \in open' : e.owner = portal /\ chosen'[e.path.show] = "none"
      BY <2>1, <1>7 DEF Shown
    <2>3. \A k \in Shows : told[k] \in Verdicts => chosen'[k] # "none"
      BY <1>7, <1>11 DEF Shown
    <2>4. \A e \in open', k \in InFlight' : IsReply(k) /\ e.path.show = call =>
            k.status # "error" /\ k.path = e.path /\ k.owner = e.owner
      BY <2>1, <1>3, <1>9 DEF Shown, IsReply
    <2> QED BY <2>1, <2>2, <2>3, <2>4, <1>1 DEF Shown, IsReply
  <1>20. Truthful'
    <2>1. ASSUME NEW k \in InFlight, k.kind = "response"
          PROVE  k.status = chosen'[k.path.show] \/ Foreign(k)'
      <3>1. k.status \in Verdicts /\ (k.status = chosen[k.path.show] \/ Foreign(k))
        BY <2>1 DEF Truthful
      <3>2. Foreign(k) => Foreign(k)' BY <1>1, <1>3, <1>9 DEF Foreign, IsReply
      <3>3. CASE k.path.show = n BY <3>1, <3>2, <3>3, <1>10, <1>11
      <3>4. CASE k.path.show # n BY <3>1, <3>2, <3>4, <1>7, <1>13
      <3> QED BY <3>3, <3>4
    <2>2. m.status = chosen'[m.path.show] BY <1>3, <1>7, <1>8
    <2>3. \A r \in results : r.status = chosen'[r.id] BY <1>7, <1>14 DEF Truthful
    <2> QED BY <2>1, <2>2, <2>3, <1>1, <1>3, <1>9, <1>10 DEF Truthful
  <1>21. Announced'
    <2>1. SUFFICES ASSUME call # NoCall, chosen'[call] # "none", NEW r \in InFlight',
                          IsReply(r), r.status # "error"
          PROVE  \E k \in InFlight' : k.kind = "response" /\ Matches(k, r)
      BY <1>1 DEF Announced, IsReply
    <2>2. r \in InFlight BY <2>1, <1>3, <1>9 DEF IsReply
    <2>3. CASE call = n
      <3>1. r.path = d.path /\ r.owner = d.owner BY <2>1, <2>2, <2>3, <1>8 DEF Shown
      <3> QED BY <3>1, <1>3, <1>9 DEF Matches
    <2>4. CASE call # n
      <3>1. chosen[call] # "none" BY <2>1, <2>4, <1>7
      <3> QED BY <2>1, <2>2, <3>1, <1>9 DEF Announced
    <2> QED BY <2>3, <2>4
  <1>22. AnswerOnItsWay'
    <2>1. SUFFICES ASSUME NEW k \in Shows, told[k] = "showing", chosen'[k] # "none",
                          k \notin Ids(results)
          PROVE  \E w \in InFlight', p \in pending :
                    w.kind = "response" /\ Matches(w, p) /\ p.id = k
      BY <1>1 DEF AnswerOnItsWay
    <2>2. CASE k = n
      <3>1. PICK p \in pending : Matches(d, p) BY <2>1, <2>2, <1>1, <1>8 DEF Shown
      <3>2. p.id = n BY <3>1, <1>8 DEF Matches, Tracked
      <3>3. Matches(m, p) BY <3>1, <1>3 DEF Matches
      <3> QED BY <2>2, <3>2, <3>3, <1>3, <1>9
    <2>3. CASE k # n
      <3>1. chosen[k] # "none" BY <2>1, <2>3, <1>7
      <3> QED BY <2>1, <3>1, <1>1, <1>9 DEF AnswerOnItsWay
    <2> QED BY <2>2, <2>3
  <1> QED BY <1>15, <1>16, <1>17, <1>18, <1>19, <1>20, <1>21, <1>22

\* A new portal owns no dialog, and what it says of the old one's answers nothing.
LEMMA PortalRestartsInv ==
  ASSUME DialogInv, PortalRestarts PROVE DialogInv'
  <1> USE DEF DialogInv, Shaped
  <1>1. /\ loop # "over" /\ portal' = portal + 1 /\ open' = {}
        /\ UNCHANGED <<pending, results, active, told, call, loop, queue, chosen>>
    BY DEF PortalRestarts
  <1>2. portal \in Nat /\ portal' \in Nat /\ portal < portal' BY <1>1
  <1>3. /\ InFlight \subseteq InFlight' /\ wire' \in Seq(Messages)
        /\ \A m \in InFlight' \ InFlight :
              /\ m \in Messages /\ m.kind = "response" /\ m.status \in Verdicts
              /\ m.owner = portal' /\ \E d \in open : m.path = d.path
    <2>1. CASE wire' = wire
      <3>1. InFlight' = InFlight BY <2>1, <1>1 DEF InFlight
      <3> QED BY <3>1, <2>1
    <2>2. ASSUME NEW d \in open, Send(Message("response", d.path, portal + 1, "Cancelled"))
          PROVE  <1>3
      <3> DEFINE m == Message("response", d.path, portal + 1, "Cancelled")
      <3>1. /\ m \in Messages /\ m.kind = "response" /\ m.status \in Verdicts
            /\ m.owner = portal' /\ m.path = d.path
        BY <1>1, <1>2 DEF Message, Messages, Screens, Verdicts
      <3>2. Send(m) BY <2>2
      <3> HIDE DEF m
      <3>3. InFlight' = InFlight \cup {m} /\ wire' \in Seq(Messages)
        BY <3>1, <3>2, <1>1, SendAdds
      <3> QED BY <3>1, <3>3
    <2> QED BY <2>1, <2>2 DEF PortalRestarts
  <1>4. \A m \in InFlight : m \in Messages /\ m.owner <= portal
    BY InFlightShaped DEF Truthful
  <1>5. \A m \in InFlight' : IsReply(m) => m \in InFlight BY <1>3 DEF IsReply
  <1>6. Shaped' BY <1>1, <1>2, <1>3
  <1>7. Tracked'
    <2>1. \A p \in pending : p.owner <= portal'
      BY <1>2 DEF Tracked, Requests
    <2> QED BY <2>1, <1>1 DEF Tracked
  <1>8. Blocked' BY <1>1 DEF Blocked
  <1>9. Fresh'
    <2>1. ASSUME NEW n \in Shows, Untouched(n) PROVE Untouched(n)'
      BY <2>1, <1>1, <1>3 DEF Untouched
    <2>2. Replied => Replied' BY <1>1, <1>3 DEF Replied, IsReply
    <2> QED BY <2>1, <2>2, <1>1 DEF Fresh
  <1>10. Shown' BY <1>1 DEF Shown
  <1>11. Truthful'
    <2>1. \A m \in InFlight' : m.owner <= portal'
      <3>1. \A m \in InFlight : m.owner \in Nat /\ m.owner <= portal BY <1>4 DEF Messages
      <3>2. \A m \in InFlight : m.owner <= portal' BY <3>1, <1>2
      <3>3. \A m \in InFlight' \ InFlight : m.owner <= portal' BY <1>2, <1>3
      <3> QED BY <3>2, <3>3
    <2>2. ASSUME NEW m \in InFlight', m.kind = "response"
          PROVE  m.status \in Verdicts /\ (m.status = chosen[m.path.show] \/ Foreign(m)')
      <3>1. CASE m \in InFlight
        <4>1. Foreign(m) => Foreign(m)' BY <1>1, <1>5 DEF Foreign, IsReply
        <4> QED BY <2>2, <3>1, <4>1 DEF Truthful
      <3>2. CASE m \notin InFlight
        <4>1. m.owner = portal' /\ m.status \in Verdicts BY <3>2, <1>3
        <4>2. \A p \in pending : p.owner # m.owner
          BY <4>1, <1>2 DEF Tracked, Requests
        <4>3. \A r \in InFlight' : IsReply(r) => r.owner # m.owner
          BY <4>1, <1>2, <1>4, <1>5 DEF Messages
        <4>4. Foreign(m)' BY <4>2, <4>3, <1>1 DEF Foreign, IsReply
        <4> QED BY <4>1, <4>4
      <3> QED BY <3>1, <3>2
    <2> QED BY <2>1, <2>2, <1>1 DEF Truthful
  <1>12. Announced' BY <1>1, <1>3, <1>5 DEF Announced, IsReply
  <1>13. AnswerOnItsWay' BY <1>1, <1>3 DEF AnswerOnItsWay
  <1> QED BY <1>6, <1>7, <1>8, <1>9, <1>10, <1>11, <1>12, <1>13

LEMMA DialogInvNext ==
  DialogInv /\ [DialogNext]_dialogVars => DialogInv'
  <1> SUFFICES ASSUME DialogInv, [DialogNext]_dialogVars PROVE DialogInv'
    OBVIOUS
  <1>1. CASE WaitForEvents
    <2>1. InFlight' = InFlight BY <1>1 DEF WaitForEvents, InFlight
    <2>2. results = {} BY <1>1 DEF WaitForEvents, DialogInv, Tracked
    <2> QED BY <1>1, <2>1, <2>2, LoopMoves DEF WaitForEvents, DialogInv, Shaped
  <1>2. CASE WakeForBus
    <2>1. InFlight' = InFlight /\ queue' \in Seq(Messages) /\ wire' \in Seq(Messages)
      BY <1>2, ReadKeepsAll DEF WakeForBus, DialogInv
    <2>2. call = NoCall BY <1>2 DEF WakeForBus, DialogInv, Blocked
    <2> QED BY <1>2, <2>1, <2>2, LoopMoves DEF WakeForBus
  <1>3. CASE WakeForOther
    <2>1. InFlight' = InFlight BY <1>3 DEF WakeForOther, InFlight
    <2>2. call = NoCall BY <1>3 DEF WakeForOther, DialogInv, Blocked
    <2> QED BY <1>3, <2>1, <2>2, LoopMoves DEF WakeForOther, DialogInv, Shaped
  <1>4. CASE DispatchEnds
    <2>1. InFlight' = InFlight BY <1>4 DEF DispatchEnds, InFlight
    <2>2. call = NoCall BY <1>4 DEF DispatchEnds, DialogInv, Blocked
    <2> QED BY <1>4, <2>1, <2>2, LoopMoves DEF DispatchEnds, DialogInv, Shaped
  <1>5. CASE UNCHANGED dialogVars
    <2>1. InFlight' = InFlight BY <1>5 DEF dialogVars, InFlight
    <2>2. UNCHANGED <<pending, results, active, told, call, loop, queue, wire, portal, open,
                      chosen>>
      BY <1>5 DEF dialogVars
    <2> QED BY <2>1, <2>2
        DEF DialogInv, Shaped, Tracked, Blocked, Fresh, Untouched, Replied, IsReply, Shown,
            Truthful, Foreign, Announced, AnswerOnItsWay
  <1> QED
    BY <1>1, <1>2, <1>3, <1>4, <1>5, ShowFailsInv, ShowCallsInv, BlockedReadInv,
       ReplyTimesOutInv, ApplyInv, DispatchInv, ClearInv, PortalAcceptsInv,
       PortalRefusesInv, UserChoosesInv, PortalRestartsInv
    DEF DialogNext, Loop, Portal

-----------------------------------------------------------------------------
(* What follows from it *)

LEMMA DialogsInvariant == DialogSpec => []DialogInv
  BY DialogInvInit, DialogInvNext, PTL DEF DialogSpec

\* A dialog that the editor waits for can be answered, and is known to the state object as
\* long as it waits: no reply under another path, no restart of the portal, no Response that
\* comes early, twice or from a stranger parts the two; and when the editor goes, Clear has
\* closed what it waited for.
THEOREM DialogsStayTracked == DialogSpec => []DialogsAreTracked
  <1>1. DialogInv => DialogsAreTracked
    <2> SUFFICES ASSUME DialogInv PROVE DialogsAreTracked OBVIOUS
    <2> USE DEF DialogInv, Shaped
    <2>1. DialogTypeOK BY DEF DialogTypeOK, Tracked, Requests
    <2>2. RequestsAgree BY DEF RequestsAgree, Tracked
    <2>3. NoDialogOutlives BY DEF NoDialogOutlives, Shown
    <2> QED BY <2>1, <2>2, <2>3 DEF DialogsAreTracked
  <1> QED BY <1>1, DialogsInvariant, PTL

\* The dialogs implement what the workspace relies on: each is answered at most once, with
\* what its user chose, or could not be shown, or never is.
THEOREM DialogsImplementPromise == DialogSpec => KeepsPromise
  <1>1. DialogInit(TRUE) => DialogsKeepPromise!PromiseInit
    BY DEF DialogInit, DialogsKeepPromise!PromiseInit
  <1>2. DialogInv /\ [DialogNext]_dialogVars
          => [DialogsKeepPromise!PromiseNext]_<<told, chosen>>
    <2> SUFFICES ASSUME DialogInv, DialogNext, told' # told \/ chosen' # chosen
                 PROVE  DialogsKeepPromise!PromiseNext
      BY DEF dialogVars
    <2> USE DEF DialogInv, Shaped
    <2>1. ASSUME NEW n \in Shows, told[n] = "unasked", NEW o \in {"failed", "showing"},
                 told' = [told EXCEPT ![n] = o], chosen' = chosen
          PROVE  DialogsKeepPromise!PromiseNext
      BY <2>1 DEF DialogsKeepPromise!PromiseNext, DialogsKeepPromise!Asked
    <2>2. CASE ShowFails
      BY <2>1, <2>2 DEF ShowFails, Asked
    <2>3. ASSUME call # NoCall, chosen' = chosen,
                 \E o \in {"failed", "showing"} : told' = [told EXCEPT ![call] = o]
          PROVE  DialogsKeepPromise!PromiseNext
      BY <2>1, <2>3 DEF Blocked
    <2>4. CASE ReplyTimesOut
      BY <2>3, <2>4 DEF ReplyTimesOut, Nullopt
    <2>5. CASE BlockedRead
      BY <2>3, <2>5 DEF BlockedRead, Returns, Nullopt
    <2>6. CASE ApplyFileDialogResults
      <3>1. \A n \in Shows : told'[n] # told[n] =>
              told[n] = "showing" /\ chosen[n] \in Verdicts /\ told'[n] = chosen[n]
        BY <2>6, Applies
      <3>2. chosen' = chosen BY <2>6 DEF ApplyFileDialogResults
      <3> DEFINE N == {n \in Shows : told'[n] # told[n]}
      <3>3. N \in SUBSET {n \in Shows : told[n] = "showing" /\ chosen[n] \in Verdicts}
        BY <3>1
      <3>4. told' = [n \in Shows |-> told'[n]]
        BY <2>6 DEF ApplyFileDialogResults
      <3>5. told' = [n \in Shows |-> IF n \in N THEN chosen[n] ELSE told[n]]
        BY <3>1, <3>4
      <3>6. DialogsKeepPromise!Answered
        BY <3>2, <3>3, <3>5 DEF DialogsKeepPromise!Answered
      <3> QED BY <3>6 DEF DialogsKeepPromise!PromiseNext
    <2>7. CASE UserChooses
      <3>1. PICK d \in open, choice \in Verdicts :
              chosen' = [chosen EXCEPT ![d.path.show] = choice]
        BY <2>7 DEF UserChooses
      <3>2. d.path.show \in Shows /\ chosen[d.path.show] = "none"
        BY DEF Screens, Paths, Shown
      <3>3. told' = told BY <2>7 DEF UserChooses
      <3>4. DialogsKeepPromise!Chooses(d.path.show)
        BY <3>1, <3>2, <3>3 DEF DialogsKeepPromise!Chooses
      <3> QED BY <3>2, <3>4 DEF DialogsKeepPromise!PromiseNext
    <2> QED
      BY <2>2, <2>4, <2>5, <2>6, <2>7
      DEF DialogNext, Loop, Portal, ShowCalls, WaitForEvents, WakeForBus, WakeForOther,
          Dispatch, DispatchEnds, Clear, PortalAccepts, PortalRefuses, PortalRestarts
  <1> QED
    BY <1>1, <1>2, DialogsInvariant, PTL
    DEF DialogSpec, KeepsPromise, DialogsKeepPromise!Promise
=============================================================================
