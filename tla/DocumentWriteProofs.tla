------------------------- MODULE DocumentWriteProofs -------------------------
(***************************************************************************)
(* What a save leaves, for all contents, modes, failures, crashes and      *)
(* other programs, and that seen from outside it is one replacement.       *)
(***************************************************************************)
EXTENDS DocumentWrite, SequenceTheorems, TLAPS

Unresolved == {"lstat", "realpath", "stat"}
Unopened   == Unresolved \cup {"check", "mkstemp"}
Filling    == {"fchmod", "write", "fsync", "fstat", "close", "recheck", "rename"}
Filled     == Filling \ {"fchmod", "write"}
Ahead      == Unopened \cup Filling
Doors      == {"path", "target"}

\* The directory as it is may be on the disk, and only directories are.
Disk ==
  /\ ondisk \subseteq [entry : [Names -> Inodes \cup {None}], linked : BOOLEAN]
  /\ Directory(entry, linked) \in ondisk

\* The clock counts what other programs do, and no file is of the future.
Clocked == clock = 1 + others /\ \A i \in Inodes : inode[i].mtime <= clock

\* A link's name holds nothing of its own.
LinkIsBare == \A d \in ondisk : d.linked => d.entry["path"] = None

\* How far the temporary file is, by the call that comes next.
Temporary ==
  /\ pc \in Unopened => fd = None
  /\ pc \in Unopened \cup {"syncdir", "done"} => entry["temp"] = None
  /\ pc = "fchmod" => existing # NoMode
  /\ pc \in Filling \ {"fchmod"} =>
       inode[fd].mode = IF existing = NoMode THEN Private ELSE existing
  /\ pc \in Filled => inode[fd].bytes = text
  /\ pc \in Filled \ {"fsync"} => fd \in synced

\* Until it is renamed nothing but its own name leads to it.
Hidden == pc \in Filling => \A d \in ondisk, n \in Doors : d.entry[n] # fd

\* Whatever a crash brings back, the document's names lead to synced, whole
\* contents, and to one at all if there was one and nobody removed it.
WholeOnDisk ==
  \A d \in ondisk, n \in Doors :
    d.entry[n] # None => d.entry[n] \in synced /\ inode[d.entry[n]].bytes \in Contents
NeverGone ==
  others = 0 /\ known # << >> =>
    \A d \in ondisk : d.entry[IF d.linked THEN "target" ELSE "path"] # None

\* What is reported follows from what was done.
Outcome ==
  /\ pc \in Ahead \cup {"syncdir"} => status = "none"
  /\ pc = "unlink" => status \in {"changed", "failure"}
  /\ pc = "done" => status # "none"
  /\ pc = "syncdir" \/ status = "success" => swap.done
  /\ swap.done => pc \in {"syncdir", "done", "down"} /\ status \in {"none", "success"}

\* The stamp is the temporary file's, and nobody's after another change.
Stamped ==
  /\ pc \in {"close", "recheck", "rename"} => StampOf(fd) = stamp
  /\ pc = "syncdir" \/ status = "success" =>
       /\ fd \in Inodes /\ fd \in synced
       /\ stamp.ino = fd /\ stamp.mtime <= clock
       /\ inode[fd].mtime = stamp.mtime => inode[fd].bytes = text

\* Left alone, the save goes where the path leads.
Visible ==
  others = 0 =>
    /\ pc \in {"stat", "check", "mkstemp"} \cup Filling =>
         dest = "path" \/ (dest = "target" /\ linked)
    /\ pc = "syncdir" \/ (pc = "done" /\ status = "success") =>
         At("path") = fd /\ StampOf(fd) = stamp /\ inode[fd].bytes = text

\* The file a guarded save expects is as it was read.
First == inode[expected.ino].mtime = expected.mtime

\* It holds what was read, and the temporary file never passes for it.
ExpectedIsKnown ==
  guarded =>
    /\ expected.ino \in Inodes /\ expected.mtime = 1 /\ known # << >>
    /\ First => <<inode[expected.ino].bytes>> = known
    /\ fd = expected.ino => ~ First /\ clock > 1
    /\ pc \in Unopened /\ others = 0 => At("path") = expected.ino

\* Where the destination is that file, its mode is the one that was taken;
\* and a link that dangled when it was followed leads nowhere since.
DestinationIsKnown ==
  /\ pc = "stat" /\ dest = "path" => ~ linked
  /\ guarded /\ pc \in {"check", "mkstemp"} \cup Filling =>
       /\ dest = "path" /\ linked /\ entry["target"] = expected.ino => ~ First
       /\ entry[dest] = expected.ino /\ First => existing = inode[expected.ino].mode

Checked == pc = "rename" /\ guarded /\ ~ raced => DestinationMatches

\* What the names lead to, and what the save knows.
Storage == Disk /\ Clocked /\ LinkIsBare /\ WholeOnDisk /\ NeverGone
Progress == /\ Temporary /\ Hidden /\ Outcome /\ Stamped /\ Visible
            /\ ExpectedIsKnown /\ DestinationIsKnown /\ Checked
WriteInv == TypeOK /\ Storage /\ Progress

\* A call that only looks leaves the storage as it is.
LEMMA LookingKeepsStorage ==
  ASSUME WriteInv, NEW from, NEW to, LooksAt(from, to)
  PROVE  FileSystemTypeOK' /\ Storage'
BY DEF WriteInv, Storage, TypeOK, FileSystemTypeOK, LooksAt, Call, Disk, Clocked, LinkIsBare,
       WholeOnDisk, NeverGone, Directory, Inodes, None

LEMMA ReturningKeepsWriteInv ==
  ASSUME WriteInv, NEW from \in Unopened \cup {"syncdir"},
         NEW result \in {"changed", "failure", "success"}, Return(from, result),
         from = "syncdir" <=> result = "success"
  PROVE  WriteInv'
PROOF
  <1> USE DEF Return, LooksAt, Call, Unopened, Unresolved, Filling, Filled, Ahead
  <1>1. FileSystemTypeOK' /\ Storage' BY LookingKeepsStorage
  <1>2. TypeOK' BY <1>1 DEF WriteInv, TypeOK, Inodes, None, Stamp
  <1>3. Temporary' /\ Hidden' /\ Outcome'
    BY DEF WriteInv, Progress, Temporary, Hidden, Outcome
  <1>4. Stamped' BY DEF WriteInv, Progress, Stamped, Outcome, StampOf
  <1>5. Visible' BY DEF WriteInv, Progress, Visible, At, Follow, StampOf
  <1>6. ExpectedIsKnown'
    BY DEF WriteInv, Progress, ExpectedIsKnown, First, Inodes, At, Follow
  <1>7. DestinationIsKnown' /\ Checked' BY DEF DestinationIsKnown, Checked
  <1> QED BY <1>1, <1>2, <1>3, <1>4, <1>5, <1>6, <1>7 DEF WriteInv, Progress

LEMMA DiscardingKeepsWriteInv ==
  ASSUME WriteInv, NEW from \in Filling,
         NEW result \in {"changed", "failure"}, Discard(from, result)
  PROVE  WriteInv'
PROOF
  <1> USE DEF Discard, LooksAt, Call, Unopened, Unresolved, Filling, Filled, Ahead
  <1>1. FileSystemTypeOK' /\ Storage' BY LookingKeepsStorage
  <1>2. TypeOK' BY <1>1 DEF WriteInv, TypeOK, Inodes, None, Stamp
  <1>3. Temporary' /\ Hidden' /\ Outcome'
    BY DEF WriteInv, Progress, Temporary, Hidden, Outcome
  <1>4. Stamped' BY DEF WriteInv, Progress, Stamped, Outcome
  <1>5. Visible' BY DEF Visible
  <1>6. ExpectedIsKnown'
    BY DEF WriteInv, Progress, ExpectedIsKnown, First, Inodes, At, Follow
  <1>7. DestinationIsKnown' /\ Checked' BY DEF DestinationIsKnown, Checked
  <1> QED BY <1>1, <1>2, <1>3, <1>4, <1>5, <1>6, <1>7 DEF WriteInv, Progress

LEMMA InitWriteInv == Init => WriteInv
PROOF
  <1> SUFFICES ASSUME Init PROVE WriteInv OBVIOUS
  <1> USE FileSystemConstants DEF Init, FileSystemInit
  <1>1. PICK c \in Contents, m \in Modes :
          inode = [i \in Inodes |-> [bytes |-> c, mtime |-> 1, mode |-> m]]
    OBVIOUS
  <1>2. PICK i \in {None, 1} :
          entry = [n \in Names |-> IF n = "temp" THEN None
                                   ELSE IF linked <=> n = "target" THEN i ELSE None]
    OBVIOUS
  <1>3. /\ c \in Seq(Blocks) /\ Len(c) \in Nat /\ i \in Inodes \cup {None}
        /\ None \notin Inodes
    BY LenProperties DEF Inodes, None
  <1>4. FileSystemTypeOK BY <1>1, <1>2, <1>3 DEF FileSystemTypeOK
  <1>5. Stat("path") \in Stamp
    BY <1>1, <1>2, <1>3 DEF Stat, StampOf, Stamp, NoStamp, Exists, At, Follow, Names
  <1>6. TypeOK
    <2>1. NoStamp \in Stamp BY DEF NoStamp, Stamp
    <2>2. \A d \in ondisk : d.entry \in [Names -> Inodes \cup {None}]
      BY <1>4 DEF FileSystemTypeOK, Directory
    <2> QED BY <1>4, <1>5, <2>1, <2>2 DEF TypeOK
  <1>7. Storage
    BY <1>1, <1>2, <1>3, <1>4 DEF Storage, FileSystemTypeOK, Disk, Directory, Clocked, LinkIsBare,
       WholeOnDisk, NeverGone, Content, Follow, Names, Doors
  <1>8. Temporary /\ Hidden /\ Outcome /\ Stamped /\ Visible
    BY <1>2 DEF Temporary, Hidden, Outcome, Stamped, Visible, Unopened, Unresolved, Filling,
       Filled, Names
  <1>9. ExpectedIsKnown
    BY <1>1, <1>2, <1>3 DEF ExpectedIsKnown, First, Stat, StampOf, Exists, At, Follow, Content, Names
  <1>10. DestinationIsKnown /\ Checked
    BY DEF DestinationIsKnown, Checked, Filling
  <1> QED BY <1>6, <1>7, <1>8, <1>9, <1>10 DEF WriteInv, Progress

\* A name and a mode for the destination: the mode is the one of the file that
\* is there, or there is none.
LEMMA ResolvingKeepsWriteInv ==
  ASSUME WriteInv, NEW from \in Unresolved, NEW name \in Doors, NEW mode,
         Resolved(from, "check", name, mode),
         mode = ModeOf(entry[name]) \/ (mode = NoMode /\ ~ Exists("path") /\ name = "path"),
         others = 0 => name = "path" \/ linked,
         linked /\ name = "path" => ~ Exists("path")
  PROVE  WriteInv'
PROOF
  <1> USE DEF Resolved, LooksAt, Call, Unopened, Unresolved, Filling, Filled, Ahead, Doors
  <1>1. FileSystemTypeOK' /\ Storage' BY LookingKeepsStorage
  <1>2. mode \in Modes \cup {NoMode}
    BY DEF WriteInv, TypeOK, FileSystemTypeOK, ModeOf, Names, None
  <1>3. TypeOK' BY <1>1, <1>2 DEF WriteInv, TypeOK, Inodes, None, Stamp
  <1>4. Temporary' /\ Hidden' /\ Outcome'
    BY DEF WriteInv, Progress, Temporary, Hidden, Outcome
  <1>5. Stamped' /\ Visible' BY DEF WriteInv, Progress, Stamped, Outcome, Visible
  <1>6. ExpectedIsKnown'
    BY DEF WriteInv, Progress, ExpectedIsKnown, First, Inodes, At, Follow
  <1>7. DestinationIsKnown' /\ Checked'
    <2>1. ASSUME guarded PROVE expected.ino \in Inodes /\ None \notin Inodes
      BY <2>1 DEF WriteInv, Progress, ExpectedIsKnown, Inodes, None
    <2>2. linked => entry["path"] = None
      BY DEF WriteInv, Storage, Disk, LinkIsBare, Directory
    <2> QED BY <2>1, <2>2 DEF DestinationIsKnown, Checked, First, Exists, At, Follow, ModeOf
  <1> QED BY <1>1, <1>3, <1>4, <1>5, <1>6, <1>7 DEF WriteInv, Progress

\* A call that only looks, and lets the save go on.
LEMMA LookingOnKeepsWriteInv ==
  ASSUME WriteInv, NEW from, NEW to, LooksAt(from, to), Keeps,
         <<from, to>> \in {<<"lstat", "realpath">>, <<"check", "mkstemp">>,
                           <<"write", "fsync">>, <<"close", "recheck">>,
                           <<"recheck", "rename">>},
         to = "fsync" => inode[fd].bytes = text,
         to = "rename" => ~ guarded \/ DestinationMatches
  PROVE  WriteInv'
PROOF
  <1> USE DEF LooksAt, Call, Keeps, Unopened, Unresolved, Filling, Filled, Ahead, Doors
  <1>1. FileSystemTypeOK' /\ Storage' BY LookingKeepsStorage
  <1>2. TypeOK' BY <1>1 DEF WriteInv, TypeOK, Inodes, None, Stamp
  <1>3. Temporary' /\ Hidden' /\ Outcome'
    BY DEF WriteInv, Progress, Temporary, Hidden, Outcome
  <1>4. Stamped' BY DEF WriteInv, Progress, Stamped, Outcome, StampOf
  <1>5. Visible' BY DEF WriteInv, Progress, Visible
  <1>6. ExpectedIsKnown'
    BY DEF WriteInv, Progress, ExpectedIsKnown, First, Inodes, At, Follow
  <1>7. DestinationIsKnown' BY DEF WriteInv, Progress, DestinationIsKnown, First
  <1>8. Checked' BY DEF Checked, DestinationMatches, Exists, Stat, StampOf, At, Follow
  <1> QED BY <1>1, <1>2, <1>3, <1>4, <1>5, <1>6, <1>7, <1>8 DEF WriteInv, Progress

LEMMA LstatKeepsWriteInv == WriteInv /\ Lstat => WriteInv'
PROOF
  <1> SUFFICES ASSUME WriteInv, Lstat PROVE WriteInv' OBVIOUS
  <1>1. CASE linked /\ LooksAt("lstat", "realpath") /\ Keeps
    BY <1>1, LookingOnKeepsWriteInv
  <1>2. CASE ~ linked /\ Resolved("lstat", "check", "path", ModeOf(entry["path"]))
    BY <1>2, ResolvingKeepsWriteInv DEF Unresolved, Doors
  <1> QED BY <1>1, <1>2 DEF Lstat

LEMMA RealpathKeepsWriteInv == WriteInv /\ Realpath => WriteInv'
PROOF
  <1> SUFFICES ASSUME WriteInv, Realpath PROVE WriteInv' OBVIOUS
  <1>1. CASE /\ Exists("path")
             /\ Resolved("realpath", "stat", Follow("path"), NoMode)
    <2> USE <1>1 DEF Resolved, LooksAt, Call, Unopened, Unresolved, Filling, Filled, Ahead, Doors
    <2>1. FileSystemTypeOK' /\ Storage' BY LookingKeepsStorage
    <2>2. TypeOK' BY <2>1 DEF WriteInv, TypeOK, Inodes, None, Stamp, Follow
    <2>3. Temporary' /\ Hidden' /\ Outcome' /\ Stamped'
      BY DEF WriteInv, Progress, Temporary, Hidden, Outcome, Stamped
    <2>4. Visible' BY DEF WriteInv, Progress, Visible, Follow, Outcome
    <2>5. ExpectedIsKnown'
      BY DEF WriteInv, Progress, ExpectedIsKnown, First, Inodes, At, Follow
    <2>6. DestinationIsKnown' /\ Checked' BY DEF DestinationIsKnown, Checked, Follow
    <2> QED BY <2>1, <2>2, <2>3, <2>4, <2>5, <2>6 DEF WriteInv, Progress
  <1>2. CASE ~ Exists("path") /\ Resolved("realpath", "check", "path", NoMode)
    BY <1>2, ResolvingKeepsWriteInv DEF Unresolved, Doors
  <1> QED BY <1>1, <1>2 DEF Realpath

LEMMA StatDestinationKeepsWriteInv == WriteInv /\ StatDestination => WriteInv'
PROOF
  <1> SUFFICES ASSUME WriteInv, StatDestination PROVE WriteInv' OBVIOUS
  <1>1. /\ pc = "stat" /\ dest \in Doors
        /\ Resolved("stat", "check", dest, ModeOf(entry[dest]))
    BY DEF StatDestination, Resolved, LooksAt, Call, WriteInv, TypeOK, Doors
  <1>2. /\ others = 0 => dest = "path" \/ linked
        /\ linked => dest # "path"
    BY <1>1 DEF WriteInv, Progress, Visible, DestinationIsKnown
  <1> QED BY <1>1, <1>2, ResolvingKeepsWriteInv DEF Unresolved

LEMMA CheckKeepsWriteInv == WriteInv /\ Check => WriteInv'
PROOF
  <1> SUFFICES ASSUME WriteInv, Check PROVE WriteInv' OBVIOUS
  <1>1. CASE (~ guarded \/ DestinationMatches) /\ LooksAt("check", "mkstemp") /\ Keeps
    BY <1>1, LookingOnKeepsWriteInv
  <1>2. CASE guarded /\ ~ DestinationMatches /\ Return("check", "changed")
    BY <1>2, ReturningKeepsWriteInv DEF Unopened, Unresolved
  <1> QED BY <1>1, <1>2 DEF Check

\* The chosen inode is free: no name leads to it, none that a crash brings
\* back, and it is neither the open one nor, unchanged, the expected one.
LEMMA MakeTemporaryKeepsWriteInv == WriteInv /\ MakeTemporary => WriteInv'
PROOF
  <1> SUFFICES ASSUME WriteInv, MakeTemporary PROVE WriteInv' OBVIOUS
  <1>1. CASE Return("mkstemp", "failure")
    BY <1>1, ReturningKeepsWriteInv DEF Unopened, Unresolved
  <1>2. CASE ~ Return("mkstemp", "failure")
    <2>1. PICK i \in Free(Held) :
            /\ Call("mkstemp", IF existing = NoMode THEN "write" ELSE "fchmod")
            /\ fd' = i
            /\ SetNames([entry EXCEPT !["temp"] = i], linked)
            /\ inode' = [inode EXCEPT ![i] = [bytes |-> << >>, mtime |-> clock,
                                              mode |-> Private]]
            /\ synced' = synced \ {i}
            /\ UNCHANGED <<dest, existing, stamp, status, swap, raced>>
      BY <1>2 DEF MakeTemporary
    <2>2. /\ i \in Inodes /\ None \notin Inodes /\ i # fd
          /\ \A n \in Names : entry[n] # i
          /\ \A d \in ondisk, n \in Names : d.entry[n] # i
      BY DEF Free, Held, Inodes, None
    <2>3. /\ pc = "mkstemp" /\ pc' \in {"write", "fchmod"}
          /\ pc' = "fchmod" <=> existing # NoMode
          /\ UNCHANGED <<text, guarded, expected, known, clock, others, linked, dest,
                         existing, stamp, status, swap, raced>>
          /\ fd' = i /\ synced' = synced \ {i}
      BY <2>1 DEF Call, SetNames
    <2>4. /\ entry' = [entry EXCEPT !["temp"] = i]
          /\ entry'["temp"] = i /\ \A n \in Doors : entry'[n] = entry[n]
      BY <2>1 DEF SetNames, WriteInv, TypeOK, FileSystemTypeOK, Names, Doors
    <2>5. /\ inode'[i] = [bytes |-> << >>, mtime |-> clock, mode |-> Private]
          /\ \A j \in Inodes \ {i} : inode'[j] = inode[j]
      BY <2>1, <2>2 DEF WriteInv, TypeOK, FileSystemTypeOK
    <2>6. FileSystemTypeOK'
      <3>1. << >> \in Seq(Blocks) /\ Private \in Modes BY FileSystemConstants
      <3> QED BY <2>1, <2>2, <2>3, <2>4, <3>1 DEF WriteInv, TypeOK, FileSystemTypeOK, Names
    <2>7. /\ Directory(entry', linked') \in ondisk'
          /\ \A d \in ondisk' : d = Directory(entry', linked') \/ d \in ondisk
      BY <2>1 DEF SetNames, MayBe
    <2>8. TypeOK'
      <3>1. \A d \in ondisk' : d.entry \in [Names -> Inodes \cup {None}]
        BY <2>6, <2>7 DEF WriteInv, TypeOK, FileSystemTypeOK, Directory
      <3> QED BY <2>2, <2>3, <2>4, <2>6, <3>1 DEF WriteInv, TypeOK
    <2>9. Disk' BY <2>6, <2>7 DEF WriteInv, Storage, Disk, Directory, FileSystemTypeOK
    <2>10. Clocked'
      BY <2>2, <2>3, <2>5 DEF WriteInv, TypeOK, FileSystemTypeOK, Storage, Clocked
    <2>11. \A d \in ondisk' : \E e \in ondisk :
             e.linked = d.linked /\ \A n \in Doors : e.entry[n] = d.entry[n]
      <3>1. Directory(entry, linked) \in ondisk BY DEF WriteInv, Storage, Disk
      <3>2. \A n \in Doors : Directory(entry, linked).entry[n] = Directory(entry', linked').entry[n]
        BY <2>4 DEF Directory
      <3>3. Directory(entry, linked).linked = Directory(entry', linked').linked
        BY <2>3 DEF Directory
      <3> QED BY <2>7, <3>1, <3>2, <3>3
    <2>12. LinkIsBare' /\ NeverGone'
      BY <2>3, <2>11 DEF WriteInv, Storage, LinkIsBare, NeverGone, Doors
    <2>13. WholeOnDisk'
      <3> SUFFICES ASSUME NEW d \in ondisk', NEW n \in Doors, d.entry[n] # None
                   PROVE  d.entry[n] \in synced' /\ inode'[d.entry[n]].bytes \in Contents
        BY DEF WholeOnDisk
      <3>1. PICK e \in ondisk : e.entry[n] = d.entry[n] BY <2>11
      <3>2. d.entry[n] # None => d.entry[n] \in Inodes \ {i}
        BY <2>2, <3>1 DEF WriteInv, TypeOK, Names, Doors
      <3> QED BY <2>3, <2>5, <3>1, <3>2 DEF WriteInv, Storage, WholeOnDisk
    <2>14. Temporary'
      BY <2>2, <2>3, <2>4, <2>5 DEF WriteInv, Progress, Temporary, Unopened, Unresolved,
         Filling, Filled
    <2>15. Hidden'
      BY <2>2, <2>3, <2>11 DEF Hidden, Names, Doors
    <2>16. Outcome' /\ Stamped'
      BY <2>3 DEF WriteInv, Progress, Outcome, Stamped, Ahead, Unopened, Filling
    <2>17. Visible'
      BY <2>3 DEF WriteInv, Progress, Visible, Filling, Outcome, Ahead, Unopened
    <2>18. ExpectedIsKnown'
      <3>1. \A n \in Doors : entry[n] = entry'[n] /\ entry[n] # i
        BY <2>2, <2>4 DEF Names, Doors
      <3>2. At("path") = At("path")' /\ At("path") # i
        BY <2>3, <3>1 DEF At, Follow, Doors
      <3>3. others # 0 => clock > 1
        BY DEF WriteInv, TypeOK, FileSystemTypeOK, Storage, Clocked
      <3>4. ASSUME guarded, expected.ino = i PROVE clock > 1 /\ expected.mtime = 1
        BY <2>3, <3>2, <3>3, <3>4 DEF WriteInv, Progress, ExpectedIsKnown, Unopened
      <3>5. ASSUME guarded, expected.ino # i PROVE inode'[expected.ino] = inode[expected.ino]
        BY <2>5, <3>5 DEF WriteInv, Progress, ExpectedIsKnown
      <3>6. clock \in Nat BY DEF WriteInv, TypeOK, FileSystemTypeOK
      <3> QED BY <2>2, <2>3, <2>5, <3>4, <3>5, <3>6
              DEF WriteInv, Progress, ExpectedIsKnown, First, Unopened, Unresolved
    <2>19. DestinationIsKnown' /\ Checked'
      <3>1. dest \in Doors /\ \A n \in Doors : entry[n] = entry'[n] /\ entry[n] # i
        BY <2>2, <2>4 DEF WriteInv, TypeOK, Names, Doors
      <3>2. ASSUME guarded, expected.ino # i PROVE inode'[expected.ino] = inode[expected.ino]
        BY <2>5, <3>2 DEF WriteInv, Progress, ExpectedIsKnown
      <3> QED BY <2>3, <3>1, <3>2 DEF WriteInv, Progress, DestinationIsKnown, Checked, First,
                 Filling, Doors
    <2> QED BY <2>8, <2>9, <2>10, <2>12, <2>13, <2>14, <2>15, <2>16, <2>17, <2>18, <2>19
            DEF WriteInv, Storage, Progress
  <1> QED BY <1>1, <1>2

\* Only the temporary file's bytes and mode change, under no name but its own.
LEMMA FillingKeepsWriteInv ==
  ASSUME WriteInv, pc \in {"fchmod", "write"}, pc' = "write", Keeps,
         NEW f \in [bytes : Seq(Blocks), mtime : {inode[fd].mtime, clock},
                    mode : {IF existing = NoMode THEN Private ELSE existing}],
         inode' = [inode EXCEPT ![fd] = f],
         UNCHANGED <<entry, linked, clock, others, ondisk, synced, text, guarded,
                     expected, known>>
  PROVE  WriteInv'
PROOF
  <1> USE DEF Filling
  <1>1. /\ fd \in Inodes /\ None \notin Inodes /\ inode'[fd] = f
        /\ \A j \in Inodes \ {fd} : inode'[j] = inode[j]
    BY DEF WriteInv, TypeOK, FileSystemTypeOK, Inodes, None
  <1>2. f.mtime \in Nat /\ f.mtime <= clock
    BY <1>1 DEF WriteInv, TypeOK, FileSystemTypeOK, Storage, Clocked
  <1>3. f.mode \in Modes BY FileSystemConstants DEF WriteInv, TypeOK
  <1>4. FileSystemTypeOK'
    BY <1>1, <1>2, <1>3 DEF WriteInv, TypeOK, FileSystemTypeOK
  <1>5. TypeOK' BY <1>4 DEF WriteInv, TypeOK, Keeps
  <1>6. Disk' /\ LinkIsBare' /\ NeverGone'
    BY DEF WriteInv, Storage, Disk, LinkIsBare, NeverGone
  <1>7. Clocked' BY <1>1, <1>2 DEF WriteInv, Storage, Clocked
  <1>8. /\ \A d \in ondisk, n \in Doors : d.entry[n] # fd
        /\ \A n \in Doors : entry[n] # fd
    BY DEF WriteInv, Storage, Disk, Progress, Hidden, Directory
  <1>9. WholeOnDisk'
    BY <1>1, <1>8 DEF WriteInv, TypeOK, Storage, WholeOnDisk, Names, Doors
  <1>10. Temporary' /\ Hidden'
    BY <1>1, <1>8 DEF WriteInv, Progress, Temporary, Hidden, Unopened, Unresolved, Filled, Keeps
  <1>11. Outcome' /\ Stamped'
    BY DEF WriteInv, Progress, Outcome, Stamped, Ahead, Keeps
  <1>12. Visible' BY DEF WriteInv, Progress, Visible, Outcome, Ahead, Keeps
  <1>13. ASSUME guarded, expected.ino # fd PROVE inode'[expected.ino] = inode[expected.ino]
    BY <1>1, <1>13 DEF WriteInv, Progress, ExpectedIsKnown
  <1>14. clock \in Nat BY DEF WriteInv, TypeOK, FileSystemTypeOK
  <1>15. ExpectedIsKnown'
    <2>1. ASSUME guarded, expected.ino = fd PROVE ~ First'
      BY <1>1, <1>2, <1>14, <2>1 DEF WriteInv, Progress, ExpectedIsKnown, First
    <2> QED BY <1>1, <1>13, <2>1 DEF WriteInv, Progress, ExpectedIsKnown, First, Unopened,
               Unresolved, Keeps
  <1>16. DestinationIsKnown' /\ Checked'
    BY <1>8, <1>13 DEF WriteInv, TypeOK, Progress, DestinationIsKnown, Checked, First, Doors, Keeps
  <1> QED BY <1>5, <1>6, <1>7, <1>9, <1>10, <1>11, <1>12, <1>15, <1>16
          DEF WriteInv, Storage, Progress

LEMMA ChangeModeKeepsWriteInv == WriteInv /\ ChangeMode => WriteInv'
PROOF
  <1> SUFFICES ASSUME WriteInv, ChangeMode PROVE WriteInv' OBVIOUS
  <1>1. CASE Discard("fchmod", "failure")
    BY <1>1, DiscardingKeepsWriteInv DEF Filling
  <1>2. CASE /\ Call("fchmod", "write") /\ Keeps
             /\ inode' = [inode EXCEPT ![fd].mode = existing]
             /\ UNCHANGED <<entry, linked, ondisk, synced>>
    <2> DEFINE f == [inode[fd] EXCEPT !.mode = existing]
    <2>1. existing # NoMode /\ fd \in Inodes /\ inode[fd] \in [bytes : Seq(Blocks), mtime : Nat, mode : Modes]
      BY <1>2 DEF Call, WriteInv, TypeOK, FileSystemTypeOK, Progress, Temporary
    <2>2. /\ f \in [bytes : Seq(Blocks), mtime : {inode[fd].mtime, clock},
                    mode : {IF existing = NoMode THEN Private ELSE existing}]
          /\ inode' = [inode EXCEPT ![fd] = f]
      BY <1>2, <2>1
    <2> HIDE DEF f
    <2> QED BY <1>2, <2>2, FillingKeepsWriteInv DEF Call
  <1> QED BY <1>1, <1>2 DEF ChangeMode

LEMMA WriteAllKeepsWriteInv == WriteInv /\ WriteAll => WriteInv'
PROOF
  <1> SUFFICES ASSUME WriteInv, WriteAll PROVE WriteInv' OBVIOUS
  <1>1. CASE Discard("write", "failure")
    BY <1>1, DiscardingKeepsWriteInv DEF Filling
  <1>2. CASE LooksAt("write", "fsync") /\ Keeps /\ inode[fd].bytes = text
    BY <1>2, LookingOnKeepsWriteInv
  <1>3. CASE /\ Call("write", "write") /\ Keeps
             /\ \E n \in Len(inode[fd].bytes) + 1 .. Len(text) :
                  inode' = [inode EXCEPT ![fd] =
                    [bytes |-> SubSeq(text, 1, n), mtime |-> clock, mode |-> @.mode]]
             /\ UNCHANGED <<entry, linked, ondisk, synced>>
    <2>1. PICK n \in Len(inode[fd].bytes) + 1 .. Len(text) :
                  inode' = [inode EXCEPT ![fd] =
                    [bytes |-> SubSeq(text, 1, n), mtime |-> clock, mode |-> @.mode]]
      BY <1>3
    <2>2. /\ fd \in Inodes
          /\ inode[fd] \in [bytes : Seq(Blocks), mtime : Nat, mode : Modes]
          /\ inode[fd].mode = IF existing = NoMode THEN Private ELSE existing
      BY <1>3 DEF Call, WriteInv, TypeOK, FileSystemTypeOK, Progress, Temporary, Filling
    <2>3. text \in Seq(Blocks) /\ Len(text) \in Nat /\ Len(inode[fd].bytes) \in Nat
      BY <2>2, FileSystemConstants, LenProperties DEF WriteInv, TypeOK
    <2>4. n \in 1 .. Len(text) BY <2>3
    <2>5. SubSeq(text, 1, n) \in Seq(Blocks)
      BY <2>3, <2>4, SubSeqProperties
    <2> DEFINE f == [bytes |-> SubSeq(text, 1, n), mtime |-> clock, mode |-> inode[fd].mode]
    <2>6. f \in [bytes : Seq(Blocks), mtime : {inode[fd].mtime, clock},
                 mode : {IF existing = NoMode THEN Private ELSE existing}]
      BY <2>2, <2>5
    <2>7. inode' = [inode EXCEPT ![fd] = f] BY <2>1, <2>2 DEF WriteInv, TypeOK, FileSystemTypeOK
    <2> HIDE DEF f
    <2> QED BY <1>3, <2>6, <2>7, FillingKeepsWriteInv DEF Call
  <1> QED BY <1>1, <1>2, <1>3 DEF WriteAll

LEMMA SyncKeepsWriteInv == WriteInv /\ Sync => WriteInv'
PROOF
  <1> SUFFICES ASSUME WriteInv, Sync PROVE WriteInv' OBVIOUS
  <1>1. CASE Discard("fsync", "failure")
    BY <1>1, DiscardingKeepsWriteInv DEF Filling
  <1>2. CASE /\ Call("fsync", "fstat") /\ Keeps
             /\ synced' = synced \cup {fd}
             /\ UNCHANGED <<entry, linked, inode, ondisk>>
    <2> USE <1>2 DEF Call, Keeps, Filling
    <2>1. FileSystemTypeOK' /\ TypeOK'
      BY DEF WriteInv, TypeOK, FileSystemTypeOK, Stamp
    <2>2. Storage'
      BY DEF WriteInv, Storage, Disk, Clocked, LinkIsBare, WholeOnDisk, NeverGone
    <2>3. Temporary' /\ Hidden' /\ Outcome' /\ Stamped'
      BY DEF WriteInv, Progress, Temporary, Hidden, Outcome, Stamped, Unopened, Unresolved,
         Filled, Ahead
    <2>4. Visible' /\ ExpectedIsKnown' /\ DestinationIsKnown' /\ Checked'
      BY DEF WriteInv, Progress, Outcome, Visible, ExpectedIsKnown, DestinationIsKnown, Checked,
         First, Unopened, Unresolved, Ahead
    <2> QED BY <2>1, <2>2, <2>3, <2>4 DEF WriteInv, Progress
  <1> QED BY <1>1, <1>2 DEF Sync

LEMMA StampTemporaryKeepsWriteInv == WriteInv /\ StampTemporary => WriteInv'
PROOF
  <1> SUFFICES ASSUME WriteInv, StampTemporary PROVE WriteInv' OBVIOUS
  <1>1. CASE Discard("fstat", "failure")
    BY <1>1, DiscardingKeepsWriteInv DEF Filling
  <1>2. CASE /\ LooksAt("fstat", "close")
             /\ stamp' = StampOf(fd)
             /\ UNCHANGED <<dest, existing, fd, status, swap, raced>>
    <2> USE <1>2 DEF LooksAt, Call, Filling
    <2>1. FileSystemTypeOK' /\ Storage' BY LookingKeepsStorage
    <2>2. StampOf(fd) \in Stamp
      BY LenProperties DEF WriteInv, TypeOK, FileSystemTypeOK, StampOf, Stamp
    <2>3. TypeOK' BY <2>1, <2>2 DEF WriteInv, TypeOK
    <2>4. Temporary' /\ Hidden' /\ Outcome' /\ Stamped'
      BY DEF WriteInv, Progress, Temporary, Hidden, Outcome, Stamped, Unopened, Unresolved,
         Filled, Ahead, StampOf
    <2>5. Visible' /\ ExpectedIsKnown' /\ DestinationIsKnown' /\ Checked'
      BY DEF WriteInv, Progress, Outcome, Visible, ExpectedIsKnown, DestinationIsKnown, Checked,
         First, Unopened, Unresolved, Ahead
    <2> QED BY <2>1, <2>3, <2>4, <2>5 DEF WriteInv, Progress
  <1> QED BY <1>1, <1>2 DEF StampTemporary

LEMMA CloseTemporaryKeepsWriteInv == WriteInv /\ CloseTemporary => WriteInv'
PROOF
  <1> SUFFICES ASSUME WriteInv, CloseTemporary PROVE WriteInv' OBVIOUS
  <1>1. CASE Discard("close", "failure")
    BY <1>1, DiscardingKeepsWriteInv DEF Filling
  <1>2. CASE LooksAt("close", "recheck") /\ Keeps
    BY <1>2, LookingOnKeepsWriteInv
  <1> QED BY <1>1, <1>2 DEF CloseTemporary

LEMMA RecheckKeepsWriteInv == WriteInv /\ Recheck => WriteInv'
PROOF
  <1> SUFFICES ASSUME WriteInv, Recheck PROVE WriteInv' OBVIOUS
  <1>1. CASE (~ guarded \/ DestinationMatches) /\ LooksAt("recheck", "rename") /\ Keeps
    BY <1>1, LookingOnKeepsWriteInv
  <1>2. CASE guarded /\ ~ DestinationMatches /\ Discard("recheck", "changed")
    BY <1>2, DiscardingKeepsWriteInv DEF Filling
  <1> QED BY <1>1, <1>2 DEF Recheck

\* The rename: a whole, synced file takes the destination's name.
LEMMA RenameKeepsWriteInv == WriteInv /\ Rename => WriteInv'
PROOF
  <1> SUFFICES ASSUME WriteInv, Rename PROVE WriteInv' OBVIOUS
  <1>1. CASE Discard("rename", "failure")
    BY <1>1, DiscardingKeepsWriteInv DEF Filling
  <1>2. CASE ~ Discard("rename", "failure")
    <2>1. /\ pc = "rename" /\ pc' = "syncdir" /\ swap'.done
          /\ entry' = [entry EXCEPT ![dest] = fd, !["temp"] = None]
          /\ linked' = (linked /\ dest # "path")
          /\ MayBe(entry', linked')
          /\ UNCHANGED <<text, guarded, expected, known, clock, others, inode, synced, dest,
                         existing, fd, stamp, status, raced>>
      BY <1>2 DEF Rename, Call, SetNames
    <2>2. /\ fd \in Inodes /\ fd \in synced /\ None \notin Inodes /\ dest \in Doors
          /\ inode[fd].bytes = text /\ text \in Contents /\ StampOf(fd) = stamp
      BY <2>1 DEF WriteInv, TypeOK, Progress, Temporary, Stamped, Filling, Filled, Doors, Inodes,
         None
    <2>3. /\ entry'[dest] = fd /\ entry'["temp"] = None
          /\ \A n \in Doors : n # dest => entry'[n] = entry[n]
          /\ entry' \in [Names -> Inodes \cup {None}]
      BY <2>1, <2>2 DEF WriteInv, TypeOK, FileSystemTypeOK, Names, Doors
    <2>4. FileSystemTypeOK'
      BY <2>1, <2>3 DEF WriteInv, TypeOK, FileSystemTypeOK
    <2>5. /\ Directory(entry, linked) \in ondisk
          /\ Directory(entry', linked') \in ondisk'
          /\ \A d \in ondisk' : d = Directory(entry', linked') \/ d \in ondisk
      BY <2>1 DEF MayBe, WriteInv, Storage, Disk
    <2>6. TypeOK'
      <3>1. \A d \in ondisk' : d.entry \in [Names -> Inodes \cup {None}]
        BY <2>4, <2>5 DEF WriteInv, TypeOK, FileSystemTypeOK, Directory
      <3> QED BY <2>1, <2>3, <2>4, <3>1 DEF WriteInv, TypeOK
    <2>7. Disk' BY <2>4, <2>5 DEF WriteInv, Storage, Disk, Directory, FileSystemTypeOK
    <2>8. Clocked' BY <2>1 DEF WriteInv, Storage, Clocked
    <2>9. Directory(entry', linked').entry = entry' /\ Directory(entry', linked').linked = linked'
      BY DEF Directory
    <2>10. /\ Directory(entry, linked).entry = entry /\ Directory(entry, linked).linked = linked
           /\ linked => entry["path"] = None
      BY <2>5 DEF Directory, WriteInv, Storage, LinkIsBare
    <2>11. LinkIsBare'
      <3>1. linked' => entry'["path"] = None
        BY <2>1, <2>2, <2>3, <2>10 DEF Doors
      <3> QED BY <2>5, <2>9, <3>1 DEF WriteInv, Storage, LinkIsBare
    <2>12. WholeOnDisk'
      <3>1. \A n \in Doors : entry[n] # None =>
               entry[n] \in synced /\ inode[entry[n]].bytes \in Contents
        BY <2>5, <2>10 DEF WriteInv, Storage, WholeOnDisk
      <3>2. \A n \in Doors : entry'[n] # None =>
               entry'[n] \in synced /\ inode[entry'[n]].bytes \in Contents
        BY <2>2, <2>3, <3>1
      <3> SUFFICES ASSUME NEW d \in ondisk', NEW n \in Doors, d.entry[n] # None
                   PROVE  d.entry[n] \in synced' /\ inode'[d.entry[n]].bytes \in Contents
        BY DEF WholeOnDisk
      <3>3. CASE d \in ondisk BY <2>1, <3>3 DEF WriteInv, Storage, WholeOnDisk
      <3>4. CASE d.entry = entry' BY <2>1, <3>2, <3>4
      <3> QED BY <2>5, <2>9, <3>3, <3>4
    <2>13. others = 0 => dest = "path" \/ (dest = "target" /\ linked)
      BY <2>1 DEF WriteInv, Progress, Visible, Filling
    <2>14. NeverGone'
      <3>1. others = 0 => entry'[IF linked' THEN "target" ELSE "path"] # None
        BY <2>1, <2>2, <2>3, <2>13
      <3> QED BY <2>1, <2>5, <2>9, <3>1 DEF WriteInv, Storage, NeverGone
    <2>15. Temporary' /\ Hidden' /\ Outcome'
      BY <2>1, <2>3 DEF WriteInv, Progress, Temporary, Hidden, Outcome, Unopened, Unresolved,
         Filling, Filled, Ahead
    <2>16. stamp.ino = fd /\ stamp.mtime <= clock
      BY <2>2 DEF StampOf, WriteInv, Storage, Clocked
    <2>17. Stamped'
      BY <2>1, <2>2, <2>16 DEF WriteInv, Progress, Stamped, Outcome, Ahead, Filling, StampOf
    <2>18. Visible'
      BY <2>1, <2>2, <2>3, <2>13 DEF Visible, At, Follow, StampOf, Filling
    <2>19. ExpectedIsKnown'
      BY <2>1 DEF WriteInv, Progress, ExpectedIsKnown, First, Unopened, Unresolved
    <2>20. DestinationIsKnown' /\ Checked'
      BY <2>1 DEF DestinationIsKnown, Checked, Filling
    <2> QED BY <2>6, <2>7, <2>8, <2>11, <2>12, <2>15, <2>17, <2>18, <2>19, <2>20, <2>14
            DEF WriteInv, Storage, Progress
  <1> QED BY <1>1, <1>2

LEMMA SyncDirectoryKeepsWriteInv == WriteInv /\ SyncDirectory => WriteInv'
PROOF
  <1> SUFFICES ASSUME WriteInv, SyncDirectory PROVE WriteInv' OBVIOUS
  <1>1. CASE Return("syncdir", "success")
    BY <1>1, ReturningKeepsWriteInv
  <1>2. CASE /\ Call("syncdir", "done")
             /\ ondisk' = {Directory(entry, linked)} /\ status' = "success"
             /\ UNCHANGED <<entry, linked, inode, synced, dest, existing, fd, stamp, swap,
                            raced>>
    <2> USE <1>2 DEF Call
    <2>1. \A d \in ondisk' : d \in ondisk
      BY DEF WriteInv, Storage, Disk
    <2>2. FileSystemTypeOK' /\ TypeOK'
      BY <2>1 DEF WriteInv, TypeOK, FileSystemTypeOK
    <2>3. Storage'
      BY <2>1 DEF WriteInv, Storage, Disk, Clocked, LinkIsBare, WholeOnDisk, NeverGone
    <2>4. Temporary' /\ Hidden' /\ Outcome'
      BY DEF WriteInv, Progress, Temporary, Hidden, Outcome, Unopened, Unresolved, Filling,
         Filled, Ahead
    <2>5. Stamped' BY DEF WriteInv, Progress, Stamped, StampOf
    <2>6. Visible' BY DEF WriteInv, Progress, Visible, At, Follow, StampOf, Filling
    <2>7. ExpectedIsKnown' /\ DestinationIsKnown' /\ Checked'
      BY DEF WriteInv, Progress, ExpectedIsKnown, First, Unopened, Unresolved,
         DestinationIsKnown, Filling, Checked
    <2> QED BY <2>2, <2>3, <2>4, <2>5, <2>6, <2>7 DEF WriteInv, Progress
  <1> QED BY <1>1, <1>2 DEF SyncDirectory

LEMMA UnlinkKeepsWriteInv == WriteInv /\ Unlink => WriteInv'
PROOF
  <1> SUFFICES ASSUME WriteInv, Unlink PROVE WriteInv' OBVIOUS
  <1>1. /\ pc = "unlink" /\ pc' = "done"
        /\ entry' = [entry EXCEPT !["temp"] = None] /\ MayBe(entry', linked')
        /\ UNCHANGED <<text, guarded, expected, known, clock, others, linked, inode, synced,
                       dest, existing, fd, stamp, status, swap, raced>>
    BY DEF Unlink, Call, SetNames, Keeps
  <1>2. /\ entry'["temp"] = None /\ \A n \in Doors : entry'[n] = entry[n]
        /\ entry' \in [Names -> Inodes \cup {None}]
    BY <1>1 DEF WriteInv, TypeOK, FileSystemTypeOK, Names, Doors
  <1>3. FileSystemTypeOK' BY <1>1, <1>2 DEF WriteInv, TypeOK, FileSystemTypeOK
  <1>4. /\ Directory(entry', linked') \in ondisk'
        /\ \A d \in ondisk' : d = Directory(entry', linked') \/ d \in ondisk
    BY <1>1 DEF MayBe
  <1>5. \A d \in ondisk' : \E e \in ondisk :
          e.linked = d.linked /\ \A n \in Doors : e.entry[n] = d.entry[n]
    <2>1. Directory(entry, linked) \in ondisk BY DEF WriteInv, Storage, Disk
    <2>2. \A n \in Doors : Directory(entry, linked).entry[n] = Directory(entry', linked').entry[n]
      BY <1>2 DEF Directory
    <2>3. Directory(entry, linked).linked = Directory(entry', linked').linked
      BY <1>1 DEF Directory
    <2> QED BY <1>4, <2>1, <2>2, <2>3
  <1>6. TypeOK'
    <2>1. \A d \in ondisk' : d.entry \in [Names -> Inodes \cup {None}]
      BY <1>3, <1>4 DEF WriteInv, TypeOK, FileSystemTypeOK, Directory
    <2> QED BY <1>1, <1>3, <2>1 DEF WriteInv, TypeOK
  <1>7. Disk' /\ Clocked'
    BY <1>1, <1>3, <1>4 DEF WriteInv, Storage, Disk, Clocked, Directory, FileSystemTypeOK
  <1>8. LinkIsBare' /\ WholeOnDisk' /\ NeverGone'
    BY <1>1, <1>5 DEF WriteInv, Storage, LinkIsBare, WholeOnDisk, NeverGone, Doors
  <1>9. Temporary' /\ Hidden' /\ Outcome'
    BY <1>1, <1>2 DEF WriteInv, Progress, Temporary, Hidden, Outcome, Unopened, Unresolved,
       Filling, Filled, Ahead
  <1>10. Stamped' BY <1>1 DEF WriteInv, Progress, Stamped, Outcome, StampOf
  <1>11. Visible' BY <1>1 DEF WriteInv, Progress, Visible, Outcome, Filling
  <1>12. ExpectedIsKnown' /\ DestinationIsKnown' /\ Checked'
    BY <1>1 DEF WriteInv, Progress, ExpectedIsKnown, First, Unopened, Unresolved,
       DestinationIsKnown, Filling, Checked
  <1> QED BY <1>6, <1>7, <1>8, <1>9, <1>10, <1>11, <1>12 DEF WriteInv, Storage, Progress

\* What another program does to the names and the files of the document.
OthersTouch ==
  /\ others' = others + 1 /\ clock' = clock + 1
  /\ linked' => linked /\ entry'["path"] = entry["path"]
  /\ entry'["temp"] = entry["temp"]
  /\ \A n \in Doors : \/ entry'[n] \in {entry[n], None}
                      \/ entry'[n] \in Free(Held) /\ inode'[entry'[n]].mtime = clock'
  /\ \A i \in Inodes : \/ inode'[i] = inode[i]
                       \/ /\ i \in Free(Held) \cup {entry[n] : n \in Doors}
                          /\ inode'[i].mtime = clock' /\ inode'[i].bytes \in Contents

\* An inode with other bytes, another time and another mode is an inode.
LEMMA InodeChanged ==
  ASSUME NEW f \in [Inodes -> [bytes : Seq(Blocks), mtime : Nat, mode : Modes]],
         NEW i \in Inodes, NEW c \in Seq(Blocks), NEW t \in Nat, NEW m \in Modes
  PROVE  [f EXCEPT ![i] = [bytes |-> c, mtime |-> t, mode |-> m]]
           \in [Inodes -> [bytes : Seq(Blocks), mtime : Nat, mode : Modes]]
  <1>1. [bytes |-> c, mtime |-> t, mode |-> m] \in [bytes : Seq(Blocks), mtime : Nat, mode : Modes]
    OBVIOUS
  <1> QED BY <1>1

LEMMA OthersTouchLittle ==
  ASSUME TypeOK, OtherPrograms(Held)
  PROVE  FileSystemTypeOK' /\ OthersTouch
PROOF
  <1> USE FileSystemConstants DEF TypeOK, FileSystemTypeOK, Other, OthersTouch, Names, Doors
  <1>1. clock + 1 \in Nat /\ others < MaxOthers => others + 1 \in 0 .. MaxOthers
    OBVIOUS
  <1>4. others' = others + 1 /\ clock' = clock + 1 /\ others < MaxOthers
    BY DEF OtherPrograms, OtherReplaces, OtherRewrites, OtherRemoves
  <1>5. clock' \in Nat /\ others' \in 0 .. MaxOthers
    BY <1>1, <1>4
  <1>2. CASE OtherReplaces(Held)
    <2>1. PICK n \in {"path", "target"}, i \in Free(Held), c \in Contents, m \in Modes :
            /\ n = "target" => linked
            /\ entry' = [entry EXCEPT ![n] = i]
            /\ inode' = [inode EXCEPT ![i] = [bytes |-> c, mtime |-> clock', mode |-> m]]
            /\ linked' = (linked /\ n # "path")
      BY <1>2 DEF OtherReplaces
    <2>2. i \in Inodes BY DEF Free
    <2>3. /\ inode'[i] = [bytes |-> c, mtime |-> clock', mode |-> m]
          /\ \A j \in Inodes \ {i} : inode'[j] = inode[j]
      BY <2>1, <2>2
    <2>4. FileSystemTypeOK'
      <3>1. entry' \in [Names -> Inodes \cup {None}] /\ linked' \in BOOLEAN BY <2>1, <2>2
      <3>2. c \in Seq(Blocks) /\ clock' \in Nat
        <4>1. c \in Seq(Blocks) OBVIOUS
        <4> QED BY <1>5, <4>1
      <3>4. inode \in [Inodes -> [bytes : Seq(Blocks), mtime : Nat, mode : Modes]] OBVIOUS
      <3>5. [inode EXCEPT ![i] = [bytes |-> c, mtime |-> clock', mode |-> m]]
              \in [Inodes -> [bytes : Seq(Blocks), mtime : Nat, mode : Modes]]
        BY <2>2, <3>2, <3>4, InodeChanged, Zenon
      <3>3. inode' \in [Inodes -> [bytes : Seq(Blocks), mtime : Nat, mode : Modes]]
        BY <2>1, <3>5, Zenon
      <3> QED BY <1>5, <3>1, <3>3, Zenon
    <2>5. linked' => linked /\ entry'["path"] = entry["path"] BY <2>1
    <2>6. entry'["temp"] = entry["temp"] BY <2>1
    <2>7. inode'[i].mtime = clock' /\ inode'[i].bytes \in Contents BY <2>3
    <2>8. \A d \in Doors : \/ entry'[d] \in {entry[d], None}
                           \/ entry'[d] \in Free(Held) /\ inode'[entry'[d]].mtime = clock'
      <3>1. entry'[n] = i /\ \A d \in Doors : d # n => entry'[d] = entry[d] BY <2>1
      <3> QED BY <2>7, <3>1
    <2>9. \A j \in Inodes : \/ inode'[j] = inode[j]
                            \/ /\ j \in Free(Held) \cup {entry[d] : d \in Doors}
                               /\ inode'[j].mtime = clock' /\ inode'[j].bytes \in Contents
      BY <2>3, <2>7, Zenon
    <2> QED BY <1>4, <2>4, <2>5, <2>6, <2>8, <2>9, Zenon
  <1>3. CASE OtherRewrites
    <2> DEFINE i == At("path")
    <2>1. i \in Inodes /\ \E n \in Doors : i = entry[n]
      BY <1>3 DEF OtherRewrites, Exists, At, Follow
    <2> HIDE DEF i
    <2>2. PICK c \in Contents :
            inode' = [inode EXCEPT ![i] = [bytes |-> c, mtime |-> clock', mode |-> @.mode]]
      BY <1>3 DEF OtherRewrites, i
    <2>3. /\ inode'[i] = [bytes |-> c, mtime |-> clock', mode |-> inode[i].mode]
          /\ \A j \in Inodes \ {i} : inode'[j] = inode[j]
      BY <2>1, <2>2
    <2>4. FileSystemTypeOK'
      <3>1. c \in Seq(Blocks) /\ clock' \in Nat
        <4>1. c \in Seq(Blocks) OBVIOUS
        <4> QED BY <1>5, <4>1
      <3>4. inode[i].mode \in Modes BY <2>1
      <3>2. inode' = [inode EXCEPT ![i] = [bytes |-> c, mtime |-> clock', mode |-> inode[i].mode]]
        BY <2>1, <2>2
      <3>3. inode' \in [Inodes -> [bytes : Seq(Blocks), mtime : Nat, mode : Modes]]
        BY <2>1, <3>1, <3>2, <3>4, InodeChanged
      <3> QED BY <1>1, <1>3, <3>3 DEF OtherRewrites
    <2>6. i \in {entry[n] : n \in Doors} BY <2>1
    <2>5. \A j \in Inodes : \/ inode'[j] = inode[j]
                            \/ /\ j \in {entry[n] : n \in Doors}
                               /\ inode'[j].mtime = clock' /\ inode'[j].bytes \in Contents
      <3>1. inode'[i].mtime = clock' /\ inode'[i].bytes \in Contents BY <2>3
      <3> QED BY <2>3, <2>6, <3>1, Zenon
    <2> QED BY <1>3, <2>4, <2>5 DEF OtherRewrites
  <1>6. CASE OtherRemoves
    <2>1. PICK n \in Doors : entry' = [entry EXCEPT ![n] = None] /\ (linked => n # "path")
      BY <1>6 DEF OtherRemoves, Follow
    <2>2. entry' \in [Names -> Inodes \cup {None}] BY <2>1
    <2>3. FileSystemTypeOK' BY <1>1, <1>6, <2>2 DEF OtherRemoves
    <2> QED BY <1>6, <2>1, <2>3 DEF OtherRemoves
  <1> QED BY <1>2, <1>3, <1>6 DEF OtherPrograms

LEMMA OtherProgramKeepsWriteInv == WriteInv /\ OtherProgram => WriteInv'
PROOF
  <1> SUFFICES ASSUME WriteInv, OtherProgram PROVE WriteInv' OBVIOUS
  <1>1. /\ pc # "down" /\ MayBe(entry', linked') /\ raced' = (raced \/ pc = "rename")
        /\ synced' = (synced \cup {entry'["path"], entry'["target"]}) \ {None}
        /\ UNCHANGED <<pc, text, guarded, expected, dest, existing, fd, stamp, status, known,
                       swap>>
    BY DEF OtherProgram
  <1>2. FileSystemTypeOK' /\ OthersTouch
    BY OthersTouchLittle DEF OtherProgram, WriteInv
  <1>3. /\ clock \in Nat /\ others \in Nat /\ clock = 1 + others
        /\ clock' = clock + 1 /\ others' = others + 1 /\ clock' > 1
        /\ None \notin Inodes /\ None = 0
    BY <1>2 DEF WriteInv, TypeOK, FileSystemTypeOK, Storage, Clocked, OthersTouch, Inodes, None
  <1>4. /\ Directory(entry, linked) \in ondisk
        /\ Directory(entry, linked).entry = entry /\ Directory(entry, linked).linked = linked
        /\ Directory(entry', linked') \in ondisk'
        /\ Directory(entry', linked').entry = entry'
        /\ Directory(entry', linked').linked = linked'
        /\ \A d \in ondisk' : d = Directory(entry', linked') \/ d \in ondisk
    BY <1>1 DEF MayBe, WriteInv, Storage, Disk, Directory
  <1>5. /\ \A i \in Free(Held) : i \in Inodes /\ i # fd
        /\ \A n \in Doors : entry[n] \in Inodes \cup {None} /\ entry'[n] \in Inodes \cup {None}
    BY <1>2 DEF Free, Held, WriteInv, TypeOK, FileSystemTypeOK, Names, Doors
  <1>6. TypeOK'
    <2>1. \A d \in ondisk' : d.entry \in [Names -> Inodes \cup {None}]
      BY <1>2, <1>4 DEF WriteInv, TypeOK, FileSystemTypeOK
    <2>2. synced' \subseteq Inodes BY <1>1, <1>5 DEF WriteInv, TypeOK, Doors
    <2> QED BY <1>1, <1>2, <2>1, <2>2 DEF WriteInv, TypeOK, OthersTouch
  <1>7. Disk' BY <1>2, <1>4 DEF WriteInv, Storage, Disk, Directory, FileSystemTypeOK
  <1>8. Clocked'
    BY <1>2, <1>3 DEF WriteInv, TypeOK, FileSystemTypeOK, Storage, Clocked, OthersTouch
  <1>9. LinkIsBare'
    BY <1>2, <1>4 DEF WriteInv, Storage, LinkIsBare, OthersTouch
  <1>10. \A i \in synced : i \in synced' /\ (inode[i].bytes \in Contents => inode'[i].bytes \in Contents)
    BY <1>1, <1>2, <1>3 DEF WriteInv, TypeOK, OthersTouch
  <1>11. WholeOnDisk'
    <2>1. ASSUME NEW n \in Doors, entry'[n] # None
          PROVE  entry'[n] \in synced' /\ inode'[entry'[n]].bytes \in Contents
      <3>1. entry'[n] \in synced' BY <1>1, <2>1 DEF Doors
      <3>2. \/ entry'[n] \in Free(Held) /\ inode'[entry'[n]].mtime = clock'
            \/ entry'[n] = entry[n]
        BY <1>2, <2>1 DEF OthersTouch
      <3>3. CASE entry'[n] \in Free(Held) /\ inode'[entry'[n]].mtime = clock'
        <4>1. entry'[n] \in Inodes /\ inode[entry'[n]].mtime # clock'
          BY <1>3, <1>5, <3>3 DEF WriteInv, TypeOK, FileSystemTypeOK, Storage, Clocked
        <4> QED BY <1>2, <3>1, <3>3, <4>1 DEF OthersTouch
      <3>4. CASE entry'[n] = entry[n]
        BY <1>4, <1>10, <2>1, <3>4 DEF WriteInv, Storage, WholeOnDisk
      <3> QED BY <3>2, <3>3, <3>4
    <2> QED BY <1>4, <1>10, <2>1 DEF WriteInv, Storage, WholeOnDisk
  <1>12. NeverGone' BY <1>3 DEF NeverGone
  <1>13. pc \in Filling => inode'[fd] = inode[fd] /\ \A n \in Doors : entry'[n] # fd
    <2> SUFFICES ASSUME pc \in Filling
                 PROVE  inode'[fd] = inode[fd] /\ \A n \in Doors : entry'[n] # fd
      OBVIOUS
    <2>1. fd \in Inodes /\ fd # None
      BY <1>3 DEF WriteInv, TypeOK, Filling
    <2>2. \A n \in Doors : entry[n] # fd
      BY <1>4 DEF WriteInv, Progress, Hidden
    <2> QED BY <1>2, <1>5, <2>1, <2>2 DEF OthersTouch
  <1>14. Temporary'
    BY <1>1, <1>2, <1>3, <1>13 DEF WriteInv, TypeOK, Progress, Temporary, OthersTouch, Filling,
       Filled
  <1>15. Hidden'
    BY <1>1, <1>4, <1>13 DEF WriteInv, Progress, Hidden
  <1>16. Outcome' BY <1>1 DEF WriteInv, Progress, Outcome
  <1>17. Stamped'
    <2>1. pc \in {"close", "recheck", "rename"} => StampOf(fd)' = stamp'
      BY <1>1, <1>13 DEF WriteInv, Progress, Stamped, StampOf, Filling
    <2>2. ASSUME pc = "syncdir" \/ status = "success"
          PROVE  /\ fd \in Inodes /\ fd \in synced' /\ stamp.ino = fd /\ stamp.mtime <= clock'
                 /\ inode'[fd].mtime = stamp.mtime => inode'[fd].bytes = text
      <3>1. /\ fd \in Inodes /\ fd \in synced /\ stamp.ino = fd /\ stamp.mtime <= clock
            /\ inode[fd].mtime = stamp.mtime => inode[fd].bytes = text
            /\ stamp.mtime \in Nat
        BY <2>2 DEF WriteInv, TypeOK, Progress, Stamped, Stamp
      <3> QED BY <1>2, <1>3, <1>10, <3>1 DEF OthersTouch
    <2> QED BY <1>1, <2>1, <2>2 DEF Stamped
  <1>18. Visible' BY <1>3 DEF Visible
  <1>19. ASSUME guarded, First'
         PROVE  First /\ inode'[expected.ino] = inode[expected.ino]
    BY <1>1, <1>2, <1>3, <1>19
       DEF WriteInv, Progress, ExpectedIsKnown, First, OthersTouch
  <1>20. ExpectedIsKnown'
    BY <1>1, <1>3, <1>19 DEF WriteInv, Progress, ExpectedIsKnown
  <1>21. DestinationIsKnown'
    <2>1. pc = "stat" /\ dest = "path" => ~ linked'
      BY <1>2 DEF OthersTouch, WriteInv, Progress, DestinationIsKnown
    <2>2. ASSUME guarded, First', NEW n \in Doors, entry'[n] = expected.ino
          PROVE  entry[n] = expected.ino
      BY <1>1, <1>2, <1>3, <2>2 DEF OthersTouch, WriteInv, Progress, ExpectedIsKnown, First
    <2>3. dest \in Doors /\ "target" \in Doors BY DEF WriteInv, TypeOK, Doors
    <2>4. linked' => linked BY <1>2 DEF OthersTouch
    <2> QED BY <1>1, <1>19, <2>1, <2>2, <2>3, <2>4
            DEF WriteInv, Progress, DestinationIsKnown
  <1>22. Checked' BY <1>1 DEF Checked
  <1> QED BY <1>6, <1>7, <1>8, <1>9, <1>11, <1>12, <1>14, <1>15, <1>16, <1>17, <1>18, <1>20,
             <1>21, <1>22 DEF WriteInv, Storage, Progress

\* The machine goes down: some directory comes back, and of the files only the
\* temporary one, which no name of the document leads to, may be cut short.
LEMMA CrashKeepsWriteInv == WriteInv /\ Crash => WriteInv'
PROOF
  <1> SUFFICES ASSUME WriteInv, Crash PROVE WriteInv' OBVIOUS
  <1>1. /\ pc' = "down"
        /\ UNCHANGED <<clock, others, text, guarded, expected, dest, existing, fd, stamp, status,
                       ondisk, synced, known, swap, raced>>
    BY DEF Crash
  <1>2. PICK d \in ondisk : entry' = d.entry /\ linked' = d.linked
    BY DEF Crash
  <1>3. /\ \A i \in synced : inode'[i] = inode[i]
        /\ \A i \in Inodes \ {fd} : inode'[i] = inode[i]
        /\ \A i \in Inodes : inode'[i].mtime = inode[i].mtime
        /\ inode' \in [Inodes -> [bytes : Seq(Blocks), mtime : Nat, mode : Modes]]
    <2>1. CASE fd \in Inodes \ synced
      <3>1. PICK n \in 0 .. Len(inode[fd].bytes) :
              inode' = [inode EXCEPT ![fd].bytes = SubSeq(@, 1, n)]
        BY <2>1 DEF Crash
      <3>2. /\ inode[fd] \in [bytes : Seq(Blocks), mtime : Nat, mode : Modes]
            /\ Len(inode[fd].bytes) \in Nat
        BY <2>1, LenProperties DEF WriteInv, TypeOK, FileSystemTypeOK
      <3>3. SubSeq(inode[fd].bytes, 1, n) \in Seq(Blocks)
        <4>1. n \in Nat /\ n <= Len(inode[fd].bytes) BY <3>2
        <4> QED BY <3>2, <4>1, SubSeqProperties, EmptySeq
      <3> QED
        BY <2>1, <3>1, <3>2, <3>3 DEF WriteInv, TypeOK, FileSystemTypeOK
    <2>2. CASE fd \notin Inodes \ synced
      BY <2>2 DEF Crash, WriteInv, TypeOK, FileSystemTypeOK
    <2> QED BY <2>1, <2>2
  <1>4. d.entry \in [Names -> Inodes \cup {None}] /\ d.linked \in BOOLEAN
        /\ Directory(entry', linked') = d
    BY <1>2 DEF WriteInv, Storage, Disk, Directory
  <1>5. FileSystemTypeOK'
    BY <1>1, <1>2, <1>3, <1>4 DEF WriteInv, TypeOK, FileSystemTypeOK
  <1>6. TypeOK' BY <1>1, <1>5 DEF WriteInv, TypeOK
  <1>7. Disk' /\ LinkIsBare' /\ NeverGone'
    BY <1>1, <1>4 DEF WriteInv, Storage, Disk, LinkIsBare, NeverGone
  <1>8. Clocked' BY <1>1, <1>3 DEF WriteInv, Storage, Clocked
  <1>9. WholeOnDisk' BY <1>1, <1>3 DEF WriteInv, Storage, WholeOnDisk
  <1>10. Temporary' /\ Hidden' /\ Outcome' /\ Visible'
    BY <1>1 DEF WriteInv, Progress, Temporary, Hidden, Outcome, Visible, Unopened, Unresolved,
       Filling, Filled, Ahead
  <1>11. Stamped' BY <1>1, <1>3 DEF WriteInv, Progress, Stamped
  <1>12. ExpectedIsKnown'
    BY <1>1, <1>3 DEF WriteInv, Progress, ExpectedIsKnown, First, Unopened, Unresolved
  <1>13. DestinationIsKnown' /\ Checked'
    BY <1>1 DEF DestinationIsKnown, Checked, Filling
  <1> QED BY <1>6, <1>7, <1>8, <1>9, <1>10, <1>11, <1>12, <1>13 DEF WriteInv, Storage, Progress

LEMMA StutteringKeepsWriteInv == WriteInv /\ UNCHANGED vars => WriteInv'
PROOF
  <1> SUFFICES ASSUME WriteInv, UNCHANGED vars PROVE WriteInv' OBVIOUS
  <1> USE DEF vars, fsVars
  <1>1. TypeOK' BY DEF WriteInv, TypeOK, FileSystemTypeOK
  <1>2. Storage'
    BY DEF WriteInv, Storage, Disk, Clocked, LinkIsBare, WholeOnDisk, NeverGone
  <1>3. Temporary' /\ Hidden' /\ Outcome' /\ Stamped' /\ Visible'
    BY DEF WriteInv, Progress, Temporary, Hidden, Outcome, Stamped, Visible, StampOf, At, Follow
  <1>4. ExpectedIsKnown' /\ DestinationIsKnown' /\ Checked'
    BY DEF WriteInv, Progress, ExpectedIsKnown, DestinationIsKnown, Checked, First, At, Follow,
       DestinationMatches, Exists, Stat, StampOf
  <1> QED BY <1>1, <1>2, <1>3, <1>4 DEF WriteInv, Progress

LEMMA NextKeepsWriteInv == WriteInv /\ [Next]_vars => WriteInv'
BY LstatKeepsWriteInv, RealpathKeepsWriteInv, StatDestinationKeepsWriteInv, CheckKeepsWriteInv,
   MakeTemporaryKeepsWriteInv, ChangeModeKeepsWriteInv, WriteAllKeepsWriteInv, SyncKeepsWriteInv,
   StampTemporaryKeepsWriteInv, CloseTemporaryKeepsWriteInv, RecheckKeepsWriteInv,
   RenameKeepsWriteInv, SyncDirectoryKeepsWriteInv, UnlinkKeepsWriteInv,
   OtherProgramKeepsWriteInv, CrashKeepsWriteInv, StutteringKeepsWriteInv
DEF Next, Over

LEMMA WriteInvariant == Spec => []WriteInv
BY InitWriteInv, NextKeepsWriteInv, PTL DEF Spec
-----------------------------------------------------------------------------
\* Whatever calls fail and whatever other programs do, every state of a save is
\* well formed and it returns with its temporary file renamed or removed.
THEOREM SaveLeavesNothingBehind == Spec => []LeavesNothingBehind
PROOF
  <1>1. WriteInv => LeavesNothingBehind
    BY DEF WriteInv, LeavesNothingBehind, NoTemporaryRemains, Progress, Temporary
  <1> QED BY <1>1, WriteInvariant, PTL

\* A machine that goes down between any two calls of a save leaves a whole
\* document under every name, and a document at all where there was one.
THEOREM CrashLeavesWhole == Spec => []WholeAfterCrash
PROOF
  <1>1. WriteInv => WholeAfterCrash
    <2> SUFFICES ASSUME WriteInv PROVE WholeAfterCrash OBVIOUS
    <2>1. /\ Directory(entry, linked) \in ondisk
          /\ Directory(entry, linked).entry = entry /\ Directory(entry, linked).linked = linked
      BY DEF WriteInv, Storage, Disk, Directory
    <2>2. Follow("path") \in Doors BY DEF Follow, Doors
    <2> QED BY <2>1, <2>2 DEF WholeAfterCrash, WriteInv, Storage, WholeOnDisk, NeverGone, Exists,
               Bytes, At, Follow
  <1> QED BY <1>1, WriteInvariant, PTL

\* What a guarded rename takes the place of is what its caller had read.
Displaced == OnlyTheReadFileIsReplaced /\ ModeIsKept

LEMMA RenameDisplacesTheReadFile ==
  ASSUME WriteInv, Rename, ~ Discard("rename", "failure"), guarded, ~ raced
  PROVE  swap'.over = known /\ swap'.kept
PROOF
  <1>1. /\ pc = "rename" /\ fd \in Inodes /\ dest \in Doors
        /\ swap' = [done |-> TRUE, over |-> Content(dest),
                    kept |-> inode[fd].mode = IF entry[dest] = None THEN Private
                                              ELSE inode[entry[dest]].mode]
    BY DEF Rename, Call, WriteInv, TypeOK, Doors
  <1>2. Exists(dest) /\ Stat(dest) = expected
    BY <1>1 DEF WriteInv, Progress, Checked, DestinationMatches
  <1>3. At(dest) = expected.ino /\ First /\ expected.ino # None
    BY <1>2 DEF Stat, StampOf, Exists, First
  <1>4. entry[dest] = expected.ino
    BY <1>1, <1>3 DEF At, Follow, WriteInv, Progress, DestinationIsKnown, Filling, Doors
  <1>5. Content(dest) = known
    BY <1>3, <1>4 DEF Content, WriteInv, Progress, ExpectedIsKnown
  <1>6. existing = inode[expected.ino].mode /\ existing # NoMode
    <2>1. existing = inode[expected.ino].mode
      BY <1>1, <1>3, <1>4 DEF WriteInv, Progress, DestinationIsKnown, Filling
    <2>2. expected.ino \in Inodes BY DEF WriteInv, Progress, ExpectedIsKnown
    <2> QED BY <2>1, <2>2, NoModeAssumption DEF WriteInv, TypeOK, FileSystemTypeOK
  <1>7. inode[fd].mode = existing
    BY <1>1, <1>6 DEF WriteInv, Progress, Temporary, Filling
  <1> QED BY <1>1, <1>3, <1>4, <1>5, <1>6, <1>7

LEMMA NextKeepsDisplaced == WriteInv /\ Displaced /\ [Next]_vars => Displaced'
PROOF
  <1> SUFFICES ASSUME WriteInv, Displaced, [Next]_vars PROVE Displaced' OBVIOUS
  <1> USE DEF Displaced, OnlyTheReadFileIsReplaced, ModeIsKept
  <1>1. CASE Rename /\ ~ Discard("rename", "failure")
    <2>1. UNCHANGED <<guarded, known, raced>> BY <1>1 DEF Rename, Call
    <2> QED BY <1>1, <2>1, RenameDisplacesTheReadFile
  <1>2. ASSUME UNCHANGED <<swap, guarded, known>>, raced => raced' PROVE Displaced'
    BY <1>2
  <1> USE DEF Resolved, Return, Discard, LooksAt, Call, Keeps
  <1>3. CASE Lstat \/ Realpath \/ StatDestination \/ Check
    BY <1>2, <1>3 DEF Lstat, Realpath, StatDestination, Check
  <1>4. CASE MakeTemporary \/ ChangeMode \/ WriteAll
    BY <1>2, <1>4 DEF MakeTemporary, ChangeMode, WriteAll
  <1>5. CASE Sync \/ StampTemporary \/ CloseTemporary \/ Recheck
    BY <1>2, <1>5 DEF Sync, StampTemporary, CloseTemporary, Recheck
  <1>6. CASE Discard("rename", "failure") \/ SyncDirectory \/ Unlink
    BY <1>2, <1>6 DEF SyncDirectory, Unlink
  <1>7. CASE OtherProgram \/ Crash \/ UNCHANGED vars
    BY <1>2, <1>7 DEF OtherProgram, Crash, vars
  <1> HIDE DEF Resolved, Return, Discard, LooksAt, Call, Keeps
  <1> QED BY <1>1, <1>3, <1>4, <1>5, <1>6, <1>7 DEF Next, Over

\* A guarded save displaces exactly the bytes its caller had read and keeps the
\* mode bits, unless another program came after the last check; the returned
\* stamp vouches for the saved text; and a save nobody interferes with is what
\* the path shows.
THEOREM SavesAreAlwaysTrue == Spec => []SavesAreTrue
PROOF
  <1>1. Init => Displaced
    BY DEF Init, Displaced, OnlyTheReadFileIsReplaced, ModeIsKept
  <1>2. Spec => []Displaced
    BY <1>1, WriteInvariant, NextKeepsDisplaced, PTL DEF Spec
  <1>3. WriteInv => StampVouchesForText
    BY DEF WriteInv, Progress, Stamped, StampVouchesForText, Exists, Bytes, Stat, StampOf
  <1>4. WriteInv => SaveIsVisible
    <2> SUFFICES ASSUME WriteInv, status = "success", others = 0, pc = "done"
                 PROVE  Exists("path") /\ Bytes("path") = text /\ Stat("path") = stamp
      BY DEF SaveIsVisible
    <2>1. fd \in Inodes /\ None \notin Inodes
      BY DEF WriteInv, Progress, Stamped, Inodes, None
    <2> QED BY <2>1 DEF WriteInv, Progress, Visible, Exists, Bytes, Stat
  <1> QED BY <1>2, <1>3, <1>4, WriteInvariant, PTL DEF SavesAreTrue, Displaced
-----------------------------------------------------------------------------
(* Seen from outside: AtomicSave *)

\* Every name of the document has a whole content.
Whole ==
  \A n \in {"path", "target"} : Content(n) \in {<<c>> : c \in Contents} \cup {<< >>}

LEMMA ContentsAreWhole == WriteInv => Whole
PROOF
  <1> SUFFICES ASSUME WriteInv, NEW n \in Doors
               PROVE  Content(n) \in {<<c>> : c \in Contents} \cup {<< >>}
    BY DEF Doors, Whole
  <1>1. Directory(entry, linked) \in ondisk /\ Directory(entry, linked).entry = entry
    BY DEF WriteInv, Storage, Disk, Directory
  <1> QED BY <1>1 DEF WriteInv, Storage, WholeOnDisk, Content

\* A call that shows nothing under the document's names and returns nothing.
LEMMA SilentStutters ==
  ASSUME UNCHANGED <<text, status, swap>>,
         Content("path")' = Content("path"), Content("target")' = Content("target")
  PROVE  UNCHANGED Atomic!asVars
PROOF
  <1>1. [n \in {"path", "target"} |-> Content(n)]' = [n \in {"path", "target"} |-> Content(n)]
    OBVIOUS
  <1> QED BY <1>1 DEF Atomic!asVars

\* The ways out that leave the document alone.
LEMMA ReturningGivesUp ==
  ASSUME WriteInv, pc \in Ahead, status' \in {"changed", "failure"},
         UNCHANGED <<text, swap, entry, inode>>
  PROVE  Atomic!GiveUp
PROOF
  <1>1. status = "none" /\ ~ swap.done
    BY DEF WriteInv, Progress, Outcome, Ahead, Unopened, Unresolved, Filling
  <1>2. [n \in {"path", "target"} |-> Content(n)]' = [n \in {"path", "target"} |-> Content(n)]
    BY DEF Content
  <1> QED BY <1>1, <1>2 DEF Atomic!GiveUp

LEMMA SyncDirectorySucceeds == WriteInv /\ SyncDirectory => Atomic!Succeed
PROOF
  <1> SUFFICES ASSUME WriteInv, SyncDirectory PROVE Atomic!Succeed OBVIOUS
  <1>1. pc = "syncdir" /\ status' = "success" /\ UNCHANGED <<text, swap, entry, inode>>
    BY DEF SyncDirectory, Return, LooksAt, Call
  <1>2. status = "none" /\ swap.done
    BY <1>1 DEF WriteInv, Progress, Outcome
  <1>3. [n \in {"path", "target"} |-> Content(n)]' = [n \in {"path", "target"} |-> Content(n)]
    BY <1>1 DEF Content
  <1> QED BY <1>1, <1>2, <1>3 DEF Atomic!Succeed

LEMMA RenameReplaces ==
  WriteInv /\ Rename /\ ~ Discard("rename", "failure") => Atomic!Replace
PROOF
  <1> SUFFICES ASSUME WriteInv, Rename, ~ Discard("rename", "failure") PROVE Atomic!Replace
    OBVIOUS
  <1>1. /\ pc = "rename" /\ swap'.done /\ UNCHANGED <<text, status, inode>>
        /\ entry' = [entry EXCEPT ![dest] = fd, !["temp"] = None]
    BY DEF Rename, Call, SetNames
  <1>2. /\ fd \in Inodes /\ None \notin Inodes /\ dest \in {"path", "target"}
        /\ inode[fd].bytes = text
    BY <1>1 DEF WriteInv, TypeOK, Progress, Temporary, Filled, Filling, Inodes, None
  <1>3. status = "none" /\ ~ swap.done
    BY <1>1 DEF WriteInv, Progress, Outcome, Ahead, Filling
  <1>4. /\ entry'[dest] = fd /\ fd # None
        /\ \A n \in {"path", "target"} : n # dest => entry'[n] = entry[n]
    BY <1>1, <1>2 DEF WriteInv, TypeOK, FileSystemTypeOK, Names
  <1>5. \A n \in {"path", "target"} :
          [m \in {"path", "target"} |-> Content(m)]'[n]
            = IF n = dest THEN <<text>> ELSE Content(n)
    BY <1>1, <1>2, <1>4 DEF Content
  <1>6. [n \in {"path", "target"} |-> Content(n)]'
          = [[n \in {"path", "target"} |-> Content(n)] EXCEPT ![dest] = <<text>>]
    BY <1>1, <1>2, <1>5
  <1> QED BY <1>1, <1>2, <1>3, <1>6 DEF Atomic!Replace

LEMMA OthersAreEnvironment ==
  ASSUME WriteInv', UNCHANGED <<text, status, swap>>
  PROVE  Atomic!Environment
PROOF
  <1>1. Whole' BY ContentsAreWhole, PTL
  <1>2. [n \in {"path", "target"} |-> Content(n)]'
          \in [{"path", "target"} -> {<<c>> : c \in Contents} \cup {<< >>}]
    BY <1>1 DEF Whole
  <1>3. <<text>>' = <<text>> OBVIOUS
  <1> QED BY <1>2, <1>3 DEF Atomic!Environment

\* The temporary file is written and removed under its own name only.
LEMMA TemporaryStutters ==
  ASSUME WriteInv, MakeTemporary \/ ChangeMode \/ WriteAll \/ Unlink,
         UNCHANGED <<text, status, swap>>
  PROVE  UNCHANGED Atomic!asVars
PROOF
  <1>1. /\ \A n \in Doors : entry[n] \in Inodes \cup {None} /\ (pc \in Filling => entry[n] # fd)
        /\ None \notin Inodes
    BY DEF WriteInv, TypeOK, FileSystemTypeOK, Storage, Disk, Progress, Hidden, Directory, Doors,
       Names, Inodes, None
  <1>2. \A n \in Doors : entry'[n] = entry[n]
    BY <1>1 DEF MakeTemporary, ChangeMode, WriteAll, Unlink, Return, Discard, LooksAt, Call,
       SetNames, WriteInv, TypeOK, FileSystemTypeOK, Names, Doors
  <1>3. \A n \in Doors : entry[n] # None => inode'[entry[n]] = inode[entry[n]]
    <2> SUFFICES ASSUME NEW n \in Doors, entry[n] # None
                 PROVE  inode'[entry[n]] = inode[entry[n]]
      OBVIOUS
    <2> USE <1>1 DEF WriteInv, TypeOK, FileSystemTypeOK
    <2>1. CASE MakeTemporary
      <3>1. \A i \in Free(Held) : i # entry[n] BY DEF Free, Names, Doors
      <3> QED BY <2>1, <3>1 DEF MakeTemporary, Return, LooksAt
    <2>2. CASE ChangeMode
      <3>1. pc \in Filling BY <2>2 DEF ChangeMode, Discard, LooksAt, Call, Filling
      <3> QED BY <2>2, <3>1 DEF ChangeMode, Discard, LooksAt
    <2>3. CASE WriteAll
      <3>1. pc \in Filling BY <2>3 DEF WriteAll, Discard, LooksAt, Call, Filling
      <3> QED BY <2>3, <3>1 DEF WriteAll, Discard, LooksAt
    <2>4. CASE Unlink BY <2>4 DEF Unlink
    <2> QED BY <2>1, <2>2, <2>3, <2>4
  <1>4. Content("path")' = Content("path") /\ Content("target")' = Content("target")
    BY <1>2, <1>3 DEF Content, Doors
  <1> QED BY <1>4, SilentStutters

LEMMA NextIsAtomic == WriteInv /\ WriteInv' /\ [Next]_vars => [Atomic!AtomicNext]_(Atomic!asVars)
PROOF
  <1> SUFFICES ASSUME WriteInv, WriteInv', [Next]_vars
               PROVE  Atomic!AtomicNext \/ UNCHANGED Atomic!asVars
    OBVIOUS
  <1>1. ASSUME NEW from \in Ahead, NEW result \in {"changed", "failure"},
               Return(from, result) \/ Discard(from, result)
        PROVE  Atomic!AtomicNext
    <2>1. pc \in Ahead /\ status' = result /\ UNCHANGED <<text, swap, entry, inode>>
      BY <1>1 DEF Return, Discard, LooksAt, Call
    <2> QED BY <2>1, ReturningGivesUp DEF Atomic!AtomicNext
  <1>2. ASSUME UNCHANGED <<text, status, swap, entry, inode>> PROVE UNCHANGED Atomic!asVars
    BY <1>2, SilentStutters DEF Content
  <1>3. CASE Lstat \/ Realpath \/ StatDestination
    BY <1>2, <1>3 DEF Lstat, Realpath, StatDestination, Resolved, LooksAt, Call, Keeps
  <1>4. CASE Check \/ Recheck
    BY <1>1, <1>2, <1>4 DEF Check, Recheck, LooksAt, Call, Keeps, Ahead, Unopened, Filling
  <1>5. CASE MakeTemporary \/ ChangeMode \/ WriteAll \/ Unlink
    <2>1. CASE UNCHANGED <<text, status, swap>> BY <1>5, <2>1, TemporaryStutters
    <2>2. CASE ~ UNCHANGED <<text, status, swap>>
      BY <1>1, <1>5, <2>2 DEF MakeTemporary, ChangeMode, WriteAll, Unlink, LooksAt, Call, Keeps,
         Ahead, Unopened, Filling
    <2> QED BY <2>1, <2>2
  <1>6. CASE Sync \/ StampTemporary \/ CloseTemporary
    BY <1>1, <1>2, <1>6 DEF Sync, StampTemporary, CloseTemporary, LooksAt, Call, Keeps, Ahead,
       Filling
  <1>7. CASE Rename
    BY <1>1, <1>7, RenameReplaces DEF Atomic!AtomicNext, Ahead, Filling
  <1>8. CASE SyncDirectory
    BY <1>8, SyncDirectorySucceeds DEF Atomic!AtomicNext
  <1>9. CASE OtherProgram \/ Crash
    BY <1>9, OthersAreEnvironment DEF OtherProgram, Crash, Atomic!AtomicNext
  <1>10. CASE UNCHANGED vars
    BY <1>2, <1>10 DEF vars, fsVars
  <1> QED BY <1>3, <1>4, <1>5, <1>6, <1>7, <1>8, <1>9, <1>10 DEF Next, Over

LEMMA InitIsAtomic == Init => Atomic!AtomicInit
PROOF
  <1> SUFFICES ASSUME Init PROVE Atomic!AtomicInit OBVIOUS
  <1>1. Whole BY InitWriteInv, ContentsAreWhole
  <1>2. [n \in {"path", "target"} |-> Content(n)]
          \in [{"path", "target"} -> {<<c>> : c \in Contents} \cup {<< >>}]
    BY <1>1 DEF Whole
  <1> QED BY <1>2 DEF Init, Atomic!AtomicInit

\* Seen from outside a save is one replacement of the document by the whole
\* text, and success is reported after it and nothing else is.
THEOREM SaveImplementsAtomic == Spec => SaveIsAtomic
BY InitIsAtomic, NextIsAtomic, WriteInvariant, PTL DEF Spec, SaveIsAtomic, Atomic!AtomicSpec
=============================================================================
