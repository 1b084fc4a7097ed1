----------------------------- MODULE FileSystem -----------------------------
(***************************************************************************)
(* The directory of one document as ReadDocumentFile and WriteDocumentFile *)
(* see it: names, inodes, and the programs that change them meanwhile. The *)
(* document's path is a file or a symbolic link to "target"; "temp" is the *)
(* name mkstemp picks. A stamp is device, inode, size and modification     *)
(* time. An inode number is given out again once nothing refers to it.     *)
(*                                                                         *)
(* The clock is fine: no two changes of a file carry the same time.        *)
(***************************************************************************)
EXTENDS Naturals, Sequences

CONSTANTS Blocks,
          Contents,    \* whole contents, as sequences of blocks
          Modes,       \* permission bits; mkstemp's are Private
          Private,
          MaxInodes,   \* bound: inodes
          MaxOthers    \* bound: changes by other programs

ASSUME FileSystemConstants ==
  /\ Contents \subseteq Seq(Blocks)
  /\ Private \in Modes
  /\ MaxInodes \in Nat \ {0}
  /\ MaxOthers \in Nat

VARIABLES entry,   \* the inode a name leads to, None when there is none
          linked,  \* "path" is a symbolic link to "target"
          inode,   \* bytes, modification time and mode
          clock,
          others   \* changes other programs made so far

fsVars == <<entry, linked, inode, clock, others>>

Names   == {"path", "target", "temp"}
Inodes  == 1 .. MaxInodes
None    == 0
NoStamp == [ino |-> None, size |-> 0, mtime |-> 0]
Stamp   == [ino : Inodes \cup {None}, size : Nat, mtime : Nat]

\* stat follows the link; lstat, rename and unlink do not.
Follow(name) == IF name = "path" /\ linked THEN "target" ELSE name
At(name)     == entry[Follow(name)]
Exists(name) == At(name) # None
Bytes(name)  == inode[At(name)].bytes

\* StampFromStat, of an inode and of what a name leads to.
StampOf(i) == [ino |-> i, size |-> Len(inode[i].bytes), mtime |-> inode[i].mtime]
Stat(name) == IF Exists(name) THEN StampOf(At(name)) ELSE NoStamp

\* The inode numbers nothing refers to; held are the open ones and those a
\* crash may bring back.
Free(held) == Inodes \ (held \cup {entry[n] : n \in Names})

FileSystemInit ==
  /\ linked \in BOOLEAN
  /\ \E i \in {None, 1} :
       entry = [n \in Names |-> IF n = "temp" THEN None
                                ELSE IF linked <=> n = "target" THEN i ELSE None]
  /\ \E c \in Contents, m \in Modes :
       inode = [i \in Inodes |-> [bytes |-> c, mtime |-> 1, mode |-> m]]
  /\ clock = 1 /\ others = 0

Other == /\ others < MaxOthers
         /\ others' = others + 1
         /\ clock' = clock + 1

\* Another program writes a new file and renames it over the name.
OtherReplaces(held) ==
  /\ Other
  /\ \E n \in {"path", "target"}, i \in Free(held), c \in Contents, m \in Modes :
       /\ n = "target" => linked
       /\ entry' = [entry EXCEPT ![n] = i]
       /\ inode' = [inode EXCEPT ![i] = [bytes |-> c, mtime |-> clock', mode |-> m]]
       /\ linked' = (linked /\ n # "path")

\* Another program rewrites the document's file in place.
OtherRewrites ==
  /\ Other
  /\ Exists("path")
  /\ \E c \in Contents :
       inode' = [inode EXCEPT ![At("path")] =
                   [bytes |-> c, mtime |-> clock', mode |-> @.mode]]
  /\ UNCHANGED <<entry, linked>>

OtherRemoves ==
  /\ Other
  /\ Exists("path")
  /\ entry' = [entry EXCEPT ![Follow("path")] = None]
  /\ UNCHANGED <<inode, linked>>

OtherPrograms(held) == OtherReplaces(held) \/ OtherRewrites \/ OtherRemoves

FileSystemTypeOK ==
  /\ entry \in [Names -> Inodes \cup {None}]
  /\ linked \in BOOLEAN
  /\ inode \in [Inodes -> [bytes : Seq(Blocks), mtime : Nat, mode : Modes]]
  /\ clock \in Nat /\ others \in 0 .. MaxOthers
=============================================================================
