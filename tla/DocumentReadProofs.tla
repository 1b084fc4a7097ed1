------------------------- MODULE DocumentReadProofs -------------------------
(***************************************************************************)
(* What an accepted read is, for all contents, limits and other programs.  *)
(***************************************************************************)
EXTENDS DocumentRead, SequenceTheorems, TLAPS

\* What was read so far is how the open file begins.
Begins ==
  /\ Len(bytes) <= Len(inode[fd].bytes)
  /\ \A k \in 1 .. Len(bytes) : bytes[k] = inode[fd].bytes[k]

Reading == pc \in {"read", "refstat"}

\* No file is changed in the future; the open file is among what was seen;
\* and as long as the stamp is the first one, what was read is still there.
Past      == \A i \in Inodes : inode[i].mtime <= clock
IsSeen    == pc = "fstat" \/ Reading => Snapshot(fd) \in seen
Unchanged == Reading /\ StampOf(fd) = before => Begins
Early     == Reading => before.mtime <= clock
AtEnd     == pc = "refstat" /\ StampOf(fd) = before
               => Len(bytes) = Len(inode[fd].bytes)
Returned  == status # "none" => pc = "done"

NothingRead == pc \in {"open", "fstat"} => bytes = << >>

ReadInv ==
  /\ TypeOK /\ Past /\ IsSeen /\ Unchanged /\ Early /\ AtEnd /\ Returned
  /\ NothingRead /\ LimitIsKept /\ ReadIsSnapshot

\* An open file's bytes and stamp have their types.
LEMMA OpenFile ==
  ASSUME TypeOK, pc \in {"fstat", "read", "refstat"}
  PROVE  /\ fd \in Inodes
         /\ inode[fd].bytes \in Seq(Blocks) /\ inode[fd].mtime \in Nat
         /\ Len(inode[fd].bytes) \in Nat /\ bytes \in Seq(Blocks)
         /\ Len(bytes) \in Nat
         /\ StampOf(fd) \in Stamp
PROOF
  <1>1. fd \in Inodes BY DEF TypeOK
  <1>2. inode[fd].bytes \in Seq(Blocks) /\ inode[fd].mtime \in Nat
    BY <1>1 DEF TypeOK, FileSystemTypeOK
  <1>3. bytes \in Seq(Blocks) BY DEF TypeOK
  <1>4. Len(inode[fd].bytes) \in Nat /\ Len(bytes) \in Nat
    BY <1>2, <1>3, LenProperties
  <1> QED BY <1>1, <1>2, <1>3, <1>4 DEF StampOf, Stamp

\* One more chunk is the next part of the file.
LEMMA ChunkIsNext ==
  ASSUME NEW S, NEW s \in Seq(S), NEW f \in Seq(S), NEW n \in Nat,
         Len(s) < n, n <= Len(f)
  PROVE  LET t == s \o SubSeq(f, Len(s) + 1, n)
         IN  /\ t \in Seq(S) /\ Len(t) = n
             /\ \A k \in 1 .. Len(s) : t[k] = s[k]
             /\ \A k \in Len(s) + 1 .. n : t[k] = f[k]
PROOF
  <1> DEFINE chunk == SubSeq(f, Len(s) + 1, n)
  <1>1. Len(s) \in Nat /\ Len(f) \in Nat BY LenProperties
  <1>2. \A k \in Len(s) + 1 .. n : f[k] \in S
    <2> TAKE k \in Len(s) + 1 .. n
    <2>1. k \in 1 .. Len(f) BY <1>1
    <2> QED BY <2>1, ElementOfSeq
  <1>3. /\ chunk \in Seq(S)
        /\ Len(chunk) = IF Len(s) + 1 <= n THEN n - (Len(s) + 1) + 1 ELSE 0
        /\ \A i \in 1 .. n - (Len(s) + 1) + 1 : chunk[i] = f[Len(s) + 1 + i - 1]
    <2> HIDE DEF chunk
    <2>1. Len(s) + 1 \in Int /\ n \in Int BY <1>1
    <2> QED BY <1>2, <2>1, SubSeqProperties DEF chunk
  <1> HIDE DEF chunk
  <1>4. Len(chunk) = n - Len(s) BY <1>1, <1>3
  <1>5. /\ s \o chunk \in Seq(S)
        /\ Len(s \o chunk) = Len(s) + Len(chunk)
        /\ \A i \in 1 .. Len(s) + Len(chunk) :
             (s \o chunk)[i] = IF i <= Len(s) THEN s[i] ELSE chunk[i - Len(s)]
    BY <1>3, ConcatProperties
  <1>6. Len(s) + Len(chunk) = n BY <1>1, <1>4
  <1>7. ASSUME NEW k \in 1 .. Len(s) PROVE (s \o chunk)[k] = s[k]
    BY <1>1, <1>5, <1>6
  <1>8. ASSUME NEW k \in Len(s) + 1 .. n PROVE (s \o chunk)[k] = f[k]
    <2>1. k \in 1 .. n /\ ~ (k <= Len(s)) BY <1>1
    <2>2. (s \o chunk)[k] = chunk[k - Len(s)] BY <2>1, <1>5, <1>6
    <2>3. k - Len(s) \in 1 .. n - (Len(s) + 1) + 1 BY <1>1
    <2>4. Len(s) + 1 + (k - Len(s)) - 1 = k BY <1>1
    <2> QED BY <2>2, <2>3, <2>4, <1>3
  <1> QED BY <1>5, <1>6, <1>7, <1>8 DEF chunk

\* Whatever other programs do, a file either stays as it is or gets a time
\* that no file had before.
LEMMA OtherProgramsAreSeen ==
  ASSUME NEW held, FileSystemTypeOK, OtherPrograms(held)
  PROVE  /\ FileSystemTypeOK'
         /\ clock' = clock + 1
         /\ \A i \in Inodes : inode'[i] = inode[i] \/ inode'[i].mtime = clock'
PROOF
  <1> USE FileSystemConstants DEF FileSystemTypeOK, Other
  <1>1. CASE OtherReplaces(held)
    <2>1. PICK n \in {"path", "target"}, i \in Free(held), c \in Contents, m \in Modes :
            /\ entry' = [entry EXCEPT ![n] = i]
            /\ inode' = [inode EXCEPT ![i] = [bytes |-> c, mtime |-> clock', mode |-> m]]
            /\ linked' = (linked /\ n # "path")
      BY <1>1 DEF OtherReplaces
    <2>2. i \in Inodes /\ c \in Seq(Blocks) BY DEF Free
    <2>3. others' \in 0 .. MaxOthers /\ clock' = clock + 1 BY <1>1 DEF OtherReplaces
    <2>4. inode' \in [Inodes -> [bytes : Seq(Blocks), mtime : Nat, mode : Modes]]
      BY <2>1, <2>2, <2>3
    <2>5. entry' \in [Names -> Inodes \cup {None}] BY <2>1, <2>2
    <2>6. linked' \in BOOLEAN BY <2>1
    <2> QED BY <2>1, <2>2, <2>3, <2>4, <2>5, <2>6
  <1>2. CASE OtherRewrites
    <2>1. PICK c \in Contents :
            inode' = [inode EXCEPT ![At("path")] =
                        [bytes |-> c, mtime |-> clock', mode |-> @.mode]]
      BY <1>2 DEF OtherRewrites
    <2>2. others' \in 0 .. MaxOthers /\ clock' = clock + 1
          /\ UNCHANGED <<entry, linked>> BY <1>2 DEF OtherRewrites
    <2>3. At("path") \in Inodes
      BY <1>2 DEF OtherRewrites, Exists, At, Follow, Names
    <2>4. c \in Seq(Blocks) OBVIOUS
    <2> HIDE DEF Other
    <2>5. inode' \in [Inodes -> [bytes : Seq(Blocks), mtime : Nat, mode : Modes]]
      BY <2>1, <2>2, <2>3, <2>4
    <2>6. \A i \in Inodes : inode'[i] = inode[i] \/ inode'[i].mtime = clock'
      BY <2>1, <2>3
    <2> QED BY <2>2, <2>5, <2>6
  <1>3. CASE OtherRemoves
    <2>1. others' \in 0 .. MaxOthers /\ clock' = clock + 1
          /\ UNCHANGED <<inode, linked>> BY <1>3 DEF OtherRemoves
    <2>2. entry' \in [Names -> Inodes \cup {None}] BY <1>3 DEF OtherRemoves
    <2> QED BY <2>1, <2>2
  <1> QED BY <1>1, <1>2, <1>3 DEF OtherPrograms

LEMMA InitReadInv == ReadInit => ReadInv
PROOF
  <1> SUFFICES ASSUME ReadInit PROVE ReadInv OBVIOUS
  <1> USE DEF ReadInit
  <1>1. FileSystemTypeOK
    <2>1. PICK c \in Contents, m \in Modes :
            inode = [i \in Inodes |-> [bytes |-> c, mtime |-> 1, mode |-> m]]
      BY DEF FileSystemInit
    <2>2. inode \in [Inodes -> [bytes : Seq(Blocks), mtime : Nat, mode : Modes]]
      BY <2>1, FileSystemConstants
    <2>3. PICK i \in {None, 1} :
            entry = [n \in Names |-> IF n = "temp" THEN None
                                     ELSE IF linked <=> n = "target" THEN i ELSE None]
      BY DEF FileSystemInit
    <2>4. i \in Inodes \cup {None} BY FileSystemConstants DEF Inodes
    <2>5. entry \in [Names -> Inodes \cup {None}] BY <2>3, <2>4
    <2> QED BY <2>2, <2>5, FileSystemConstants DEF FileSystemTypeOK, FileSystemInit
  <1>2. Past BY DEF FileSystemInit, Past
  <1>3. << >> \in Seq(Blocks) /\ Len(<< >>) = 0 BY EmptySeq
  <1>4. TypeOK BY <1>1, <1>3 DEF TypeOK, Stamp, NoStamp
  <1>5. LimitIsKept BY <1>3, MaximumBytesConstant DEF LimitIsKept
  <1> QED BY <1>2, <1>4, <1>5
         DEF ReadInv, NothingRead, IsSeen, Unchanged, Early, AtEnd, Returned, Reading, ReadIsSnapshot

\* Returning anything but success needs nothing more.
LEMMA ReturnKeepsReadInv ==
  ASSUME ReadInv, NEW from \in {"open", "fstat", "read", "refstat"},
         NEW result \in {"failure", "tooLarge", "success"},
         Return(from, result),
         result = "success" => [stamp |-> before, bytes |-> bytes] \in seen
  PROVE  ReadInv'
PROOF
  <1> USE DEF Return, Goes
  <1>1. TypeOK' BY DEF ReadInv, TypeOK, FileSystemTypeOK, fsVars, Goes, Inodes, None
  <1>2. Past' /\ LimitIsKept' BY DEF ReadInv, Past, LimitIsKept, fsVars
  <1>3. IsSeen' /\ Unchanged' /\ Early' /\ AtEnd' /\ Returned' /\ NothingRead'
    BY DEF IsSeen, Unchanged, Early, AtEnd, Returned, NothingRead, Reading
  <1>4. ReadIsSnapshot' BY DEF ReadIsSnapshot
  <1> QED BY <1>1, <1>2, <1>3, <1>4 DEF ReadInv

LEMMA OpenKeepsReadInv == ReadInv /\ Open => ReadInv'
PROOF
  <1> SUFFICES ASSUME ReadInv, Open PROVE ReadInv' OBVIOUS
  <1>1. CASE Return("open", "failure") BY <1>1, ReturnKeepsReadInv
  <1>2. CASE /\ Exists("path") /\ Goes("open", "fstat")
             /\ fd' = At("path") /\ seen' = {Snapshot(At("path"))}
             /\ UNCHANGED <<before, bytes, status>>
    <2> USE <1>2 DEF Goes, fsVars
    <2>1. fd' \in Inodes
      BY DEF ReadInv, TypeOK, FileSystemTypeOK, Exists, At, Follow, Names
    <2>2. TypeOK' BY <2>1 DEF ReadInv, TypeOK, FileSystemTypeOK, Inodes, None
    <2>3. Past' /\ LimitIsKept' BY DEF ReadInv, Past, LimitIsKept
    <2>4. Snapshot(At("path")) = Snapshot(fd)' BY DEF Snapshot, StampOf
    <2>5. IsSeen' BY <2>4 DEF IsSeen
    <2>6. /\ Unchanged' /\ Early' /\ AtEnd' /\ Returned' /\ ReadIsSnapshot'
          /\ NothingRead'
      BY DEF ReadInv, NothingRead, Unchanged, Early, AtEnd, Returned, Reading, ReadIsSnapshot
    <2> QED BY <2>2, <2>3, <2>5, <2>6 DEF ReadInv
  <1> QED BY <1>1, <1>2 DEF Open

\* Nothing is read yet, so what is read begins the file.
LEMMA StatBeforeKeepsReadInv == ReadInv /\ StatBefore => ReadInv'
PROOF
  <1> SUFFICES ASSUME ReadInv, StatBefore PROVE ReadInv' OBVIOUS
  <1>1. CASE Return("fstat", "failure") BY <1>1, ReturnKeepsReadInv
  <1>2. CASE Return("fstat", "tooLarge") BY <1>2, ReturnKeepsReadInv
  <1>3. CASE /\ Goes("fstat", "read")
             /\ Len(inode[fd].bytes) <= MaximumBytes
             /\ before' = StampOf(fd)
             /\ UNCHANGED <<fd, bytes, status, seen>>
    <2> USE <1>3 DEF Goes, fsVars
    <2>1. StampOf(fd) \in Stamp /\ fd \in Inodes BY OpenFile DEF ReadInv
    <2>2. TypeOK' BY <2>1 DEF ReadInv, TypeOK, FileSystemTypeOK, Inodes, None
    <2>3. Past' /\ LimitIsKept' /\ ReadIsSnapshot'
      BY DEF ReadInv, Past, LimitIsKept, ReadIsSnapshot, Returned
    <2>4. IsSeen' BY DEF ReadInv, IsSeen, Reading, Snapshot, StampOf
    <2>5. Early' BY <2>1 DEF ReadInv, Past, Early, StampOf
    <2>6. AtEnd' /\ Returned' BY DEF ReadInv, AtEnd, Returned
    <2>7. bytes = << >> BY DEF ReadInv, NothingRead
    <2>8. Unchanged'
      <3>1. Len(bytes) = 0 /\ Len(inode[fd].bytes) \in Nat
        BY <2>7, EmptySeq, OpenFile DEF ReadInv
      <3> QED BY <3>1 DEF Unchanged, Begins
    <2> QED BY <2>2, <2>3, <2>4, <2>5, <2>6, <2>8 DEF ReadInv, NothingRead
  <1> QED BY <1>1, <1>2, <1>3 DEF StatBefore

LEMMA ReadKeepsReadInv == ReadInv /\ Read => ReadInv'
PROOF
  <1> SUFFICES ASSUME ReadInv, Read PROVE ReadInv' OBVIOUS
  <1>1. CASE Return("read", "failure") BY <1>1, ReturnKeepsReadInv
  <1>2. CASE Return("read", "tooLarge") BY <1>2, ReturnKeepsReadInv
  <1>3. CASE /\ Goes("read", "read")
             /\ \E n \in Len(bytes) + 1 .. MaximumBytes :
                  /\ n <= Len(inode[fd].bytes)
                  /\ bytes' = bytes \o SubSeq(inode[fd].bytes, Len(bytes) + 1, n)
             /\ UNCHANGED <<fd, before, status, seen>>
    <2> USE <1>3 DEF Goes, fsVars
    <2>1. PICK n \in Len(bytes) + 1 .. MaximumBytes :
            /\ n <= Len(inode[fd].bytes)
            /\ bytes' = bytes \o SubSeq(inode[fd].bytes, Len(bytes) + 1, n)
      OBVIOUS
    <2>2. /\ fd \in Inodes
          /\ inode[fd].bytes \in Seq(Blocks) /\ bytes \in Seq(Blocks)
          /\ Len(bytes) \in Nat /\ Len(inode[fd].bytes) \in Nat
      BY OpenFile DEF ReadInv
    <2>3. n \in Nat /\ Len(bytes) < n /\ n <= MaximumBytes BY <2>1, <2>2, MaximumBytesConstant
    <2>4. /\ bytes' \in Seq(Blocks) /\ Len(bytes') = n
          /\ \A k \in 1 .. Len(bytes) : bytes'[k] = bytes[k]
          /\ \A k \in Len(bytes) + 1 .. n : bytes'[k] = inode[fd].bytes[k]
      BY <2>1, <2>2, <2>3, ChunkIsNext
    <2>5. TypeOK' BY <2>4 DEF ReadInv, TypeOK, FileSystemTypeOK, Inodes, None
    <2>6. Past' /\ Early' /\ AtEnd' /\ Returned' /\ NothingRead'
      BY DEF ReadInv, Past, Early, AtEnd, Returned, Reading, NothingRead
    <2>7. LimitIsKept' BY <2>3, <2>4 DEF LimitIsKept
    <2>8. IsSeen' BY DEF ReadInv, IsSeen, Reading, Snapshot, StampOf
    <2>9. ReadIsSnapshot' BY DEF ReadInv, Returned, ReadIsSnapshot
    <2>10. Unchanged'
      <3> SUFFICES ASSUME StampOf(fd) = before PROVE Begins'
        BY DEF Unchanged, StampOf
      <3>1. Begins BY DEF ReadInv, Unchanged, Reading
      <3>2. ASSUME NEW k \in 1 .. n PROVE bytes'[k] = inode[fd].bytes[k]
        <4>1. CASE k \in 1 .. Len(bytes) BY <2>4, <3>1, <4>1 DEF Begins
        <4>2. CASE k \in Len(bytes) + 1 .. n BY <2>4, <4>2
        <4>3. k \in 1 .. Len(bytes) \/ k \in Len(bytes) + 1 .. n
          BY <2>2, <2>3
        <4> QED BY <4>1, <4>2, <4>3
      <3> QED BY <2>1, <2>4, <3>2 DEF Begins
    <2> QED BY <2>5, <2>6, <2>7, <2>8, <2>9, <2>10 DEF ReadInv
  <1>4. CASE /\ Goes("read", "refstat")
             /\ Len(bytes) >= Len(inode[fd].bytes)
             /\ UNCHANGED <<fd, before, bytes, status, seen>>
    <2> USE <1>4 DEF Goes, fsVars
    <2>1. Len(bytes) \in Nat /\ Len(inode[fd].bytes) \in Nat /\ fd \in Inodes
      BY OpenFile DEF ReadInv
    <2>2. TypeOK' BY <2>1 DEF ReadInv, TypeOK, FileSystemTypeOK, Inodes, None
    <2>3. /\ Past' /\ Early' /\ Returned' /\ NothingRead' /\ LimitIsKept'
          /\ ReadIsSnapshot'
      BY DEF ReadInv, Past, Early, Returned, Reading, NothingRead, LimitIsKept,
             ReadIsSnapshot
    <2>4. IsSeen' BY DEF ReadInv, IsSeen, Reading, Snapshot, StampOf
    <2>5. Unchanged' BY DEF ReadInv, Unchanged, Reading, StampOf, Begins
    <2>6. AtEnd'
      BY <2>1 DEF ReadInv, Unchanged, Reading, StampOf, Begins, AtEnd
    <2> QED BY <2>2, <2>3, <2>4, <2>5, <2>6 DEF ReadInv
  <1> QED BY <1>1, <1>2, <1>3, <1>4 DEF Read

\* At the end of the file with the first stamp, what was read is the content
\* that was seen under it.
LEMMA StatAfterKeepsReadInv == ReadInv /\ StatAfter => ReadInv'
PROOF
  <1> SUFFICES ASSUME ReadInv, StatAfter PROVE ReadInv' OBVIOUS
  <1>1. CASE Return("refstat", "failure") BY <1>1, ReturnKeepsReadInv
  <1>2. CASE /\ pc = "refstat" /\ StampOf(fd) = before
             /\ Return("refstat", "success")
    <2>1. Begins /\ Len(bytes) = Len(inode[fd].bytes)
      BY <1>2 DEF ReadInv, Unchanged, AtEnd, Reading
    <2>2. inode[fd].bytes \in Seq(Blocks) /\ bytes \in Seq(Blocks)
      BY <1>2, OpenFile DEF ReadInv
    <2>3. bytes = inode[fd].bytes BY <2>1, <2>2, SeqEqual DEF Begins
    <2>4. Snapshot(fd) \in seen BY <1>2 DEF ReadInv, IsSeen, Reading
    <2>5. [stamp |-> before, bytes |-> bytes] \in seen
      BY <1>2, <2>3, <2>4 DEF Snapshot
    <2> QED BY <1>2, <2>5, ReturnKeepsReadInv
  <1> QED BY <1>1, <1>2 DEF StatAfter

\* Another program either leaves the open file alone, or takes the first
\* stamp away from it for good.
LEMMA OtherProgramKeepsReadInv == ReadInv /\ OtherProgram => ReadInv'
PROOF
  <1> SUFFICES ASSUME ReadInv, OtherProgram PROVE ReadInv' OBVIOUS
  <1> USE DEF OtherProgram
  <1>1. /\ FileSystemTypeOK' /\ clock' = clock + 1 /\ clock \in Nat
        /\ \A i \in Inodes : inode'[i] = inode[i] \/ inode'[i].mtime = clock'
    <2>1. FileSystemTypeOK BY DEF ReadInv, TypeOK
    <2> QED BY <2>1, OtherProgramsAreSeen DEF FileSystemTypeOK
  <1>2. TypeOK' BY <1>1 DEF ReadInv, TypeOK
  <1>3. \A i \in Inodes : inode[i].mtime \in Nat /\ inode[i].mtime <= clock
    BY DEF ReadInv, TypeOK, FileSystemTypeOK, Past
  <1>4. Past' BY <1>1, <1>3 DEF Past
  <1>5. IsSeen' BY DEF IsSeen, Reading, Snapshot, StampOf, ReadInv, TypeOK, None, Inodes
  <1>6. ASSUME Reading PROVE /\ fd \in Inodes /\ before.mtime \in Nat
                             /\ before.mtime <= clock
    BY <1>6 DEF ReadInv, TypeOK, Reading, Early, Stamp
  <1>7. Early' BY <1>1, <1>6 DEF Early, Reading
  <1>8. ASSUME Reading, StampOf(fd)' = before PROVE inode'[fd] = inode[fd]
    <2>1. inode'[fd].mtime = before.mtime BY <1>8 DEF StampOf
    <2> QED BY <2>1, <1>1, <1>6, <1>8
  <1>9. Unchanged' /\ AtEnd'
    <2> SUFFICES ASSUME Reading, StampOf(fd)' = before
                 PROVE  /\ Begins'
                        /\ pc = "refstat" => (Len(bytes) = Len(inode[fd].bytes))'
      BY DEF Unchanged, AtEnd, Reading
    <2>1. inode'[fd] = inode[fd] BY <1>8
    <2>2. StampOf(fd) = before BY <2>1 DEF StampOf
    <2>3. Begins /\ (pc = "refstat" => Len(bytes) = Len(inode[fd].bytes))
      BY <2>2 DEF ReadInv, Unchanged, AtEnd
    <2> QED BY <2>1, <2>3 DEF Begins
  <1>10. /\ Returned' /\ NothingRead' /\ LimitIsKept'
    BY DEF ReadInv, Returned, NothingRead, LimitIsKept
  <1>11. ReadIsSnapshot'
    <2>1. seen \subseteq seen' OBVIOUS
    <2> QED BY <2>1 DEF ReadInv, ReadIsSnapshot
  <1> QED BY <1>2, <1>4, <1>5, <1>7, <1>9, <1>10, <1>11 DEF ReadInv

LEMMA ReadInvariant == ReadSpec => []ReadInv
PROOF
  <1>1. ReadInit => ReadInv BY InitReadInv
  <1>2. ReadInv /\ [ReadNext]_readVars => ReadInv'
    <2> SUFFICES ASSUME ReadInv, [ReadNext]_readVars PROVE ReadInv' OBVIOUS
    <2>1. CASE Open BY <2>1, OpenKeepsReadInv
    <2>2. CASE StatBefore BY <2>2, StatBeforeKeepsReadInv
    <2>3. CASE Read BY <2>3, ReadKeepsReadInv
    <2>4. CASE StatAfter BY <2>4, StatAfterKeepsReadInv
    <2>5. CASE OtherProgram BY <2>5, OtherProgramKeepsReadInv
    <2>6. CASE UNCHANGED readVars
      BY <2>6 DEF readVars, fsVars, ReadInv, TypeOK, FileSystemTypeOK, Past, IsSeen,
        Unchanged, Early, AtEnd, Returned, NothingRead, LimitIsKept,
        ReadIsSnapshot, Reading, Begins, Snapshot, StampOf
    <2> QED BY <2>1, <2>2, <2>3, <2>4, <2>5, <2>6 DEF ReadNext, ReadOver
  <1> QED BY <1>1, <1>2, PTL DEF ReadSpec

\* Every reachable state of a read has its type.
THEOREM ReadTypeCorrect == ReadSpec => []TypeOK
PROOF
  <1>1. ReadInv => TypeOK BY DEF ReadInv
  <1> QED BY <1>1, ReadInvariant, PTL

\* A buffer that ReadDocumentFile accepts is one content the file had, under
\* the stamp that is returned with it, whatever other programs do meanwhile.
THEOREM AcceptedReadIsSnapshot == ReadSpec => []ReadIsSnapshot
PROOF
  <1>1. ReadInv => ReadIsSnapshot BY DEF ReadInv
  <1> QED BY <1>1, ReadInvariant, PTL

\* ReadDocumentFile never holds more than the caller's limit.
THEOREM LimitIsAlwaysKept == ReadSpec => []LimitIsKept
PROOF
  <1>1. ReadInv => LimitIsKept BY DEF ReadInv
  <1> QED BY <1>1, ReadInvariant, PTL

\* A file nobody has touched is the one at the path, and not larger than the
\* limit once its size was looked at.
Undisturbed ==
  ~ disturbed /\ pc \in {"fstat", "read", "refstat"} =>
    /\ fd = At("path")
    /\ pc # "fstat" => Len(inode[fd].bytes) <= MaximumBytes

LEMMA NextKeepsSize ==
  ReadInv /\ Undisturbed /\ SizeDecides /\ [ReadNext]_readVars => Undisturbed' /\ SizeDecides'
PROOF
  <1> SUFFICES ASSUME ReadInv, Undisturbed, SizeDecides, [ReadNext]_readVars
               PROVE  Undisturbed' /\ SizeDecides'
    OBVIOUS
  <1> USE DEF Undisturbed, SizeDecides, Goes, fsVars, At, Follow, Bytes
  <1>1. ASSUME NEW from, NEW result, Return(from, result),
               ~ disturbed /\ result # "failure" =>
                 result = IF Len(inode[fd].bytes) > MaximumBytes THEN "tooLarge" ELSE "success",
               fd = At("path") \/ result = "failure" \/ disturbed
        PROVE  Undisturbed' /\ SizeDecides'
    BY <1>1 DEF Return
  <1>2. pc \in {"fstat", "read", "refstat"} =>
          Len(inode[fd].bytes) \in Nat /\ MaximumBytes \in Nat
    BY OpenFile, MaximumBytesConstant DEF ReadInv
  <1>3. CASE Open BY <1>1, <1>3 DEF Open
  <1>4. CASE StatBefore
    <2>1. CASE pc = "fstat" /\ Return("fstat", "failure") BY <1>1, <2>1
    <2>2. CASE Len(inode[fd].bytes) > MaximumBytes /\ Return("fstat", "tooLarge")
      BY <1>1, <2>2 DEF Return
    <2>3. CASE Goes("fstat", "read") /\ Len(inode[fd].bytes) <= MaximumBytes /\ fd' = fd
      BY <2>3
    <2> QED BY <1>4, <2>1, <2>2, <2>3 DEF StatBefore, Return
  <1>5. CASE Read
    <2>1. CASE Return("read", "failure") BY <1>1, <2>1
    <2>2. CASE Len(inode[fd].bytes) > MaximumBytes /\ Return("read", "tooLarge")
      BY <1>1, <2>2 DEF Return
    <2>3. CASE pc = "read" /\ pc' \in {"read", "refstat"} /\ UNCHANGED <<fsVars, disturbed, fd>>
      BY <2>3
    <2> QED BY <1>5, <2>1, <2>2, <2>3 DEF Read
  <1>6. CASE StatAfter
    <2>1. CASE Return("refstat", "failure") BY <1>1, <2>1
    <2>2. CASE Return("refstat", "success") BY <1>1, <1>2, <2>2 DEF Return
    <2> QED BY <1>6, <2>1, <2>2 DEF StatAfter
  <1>7. CASE OtherProgram BY <1>7 DEF OtherProgram
  <1>8. CASE UNCHANGED readVars BY <1>8 DEF readVars
  <1> QED BY <1>3, <1>4, <1>5, <1>6, <1>7, <1>8 DEF ReadNext, ReadOver

\* A file nobody touches while it is read is refused exactly when it is larger
\* than the limit, unless a call fails.
THEOREM SizeAloneDecides == ReadSpec => []SizeDecides
PROOF
  <1>1. ReadInit => Undisturbed /\ SizeDecides
    BY DEF ReadInit, Undisturbed, SizeDecides
  <1> QED BY <1>1, NextKeepsSize, ReadInvariant, PTL DEF ReadSpec
=============================================================================
