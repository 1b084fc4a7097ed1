--------------------------- MODULE DocumentWrite ---------------------------
(***************************************************************************)
(* WriteDocumentFile, one system call after the other: the link is         *)
(* followed, a guarded write looks for the stamp it expects, a temporary   *)
(* file beside the destination is written, synced and renamed over it. Any *)
(* call may fail, other programs change the names and the file between two *)
(* calls, and the machine may go down at any moment.                       *)
(***************************************************************************)
EXTENDS FileSystem

CONSTANT CanCrash   \* whether an instance explores crashes

ASSUME CrashConstant == CanCrash \in BOOLEAN

VARIABLES
  pc, text, guarded, expected,
  dest,      \* ResolveWriteDestination
  existing,  \* the mode of the regular file there, NoMode when there is none
  fd,        \* the temporary file's inode
  stamp, status,
  \* what a crash leaves: one of the directory states since the last sync,
  \* and the bytes of the inodes that were synced
  ondisk, synced,
  \* history: what the caller read from the expected file, what the rename
  \* displaced, and whether another program came after the last check
  known, swap, raced

vars == <<fsVars, pc, text, guarded, expected, dest, existing, fd, stamp,
          status, ondisk, synced, known, swap, raced>>

NoMode == "none"

ASSUME NoModeAssumption == NoMode \notin Modes

Directory(e, l) == [entry |-> e, linked |-> l]

\* The open inode, and those of directories a crash may bring back.
Held == {fd} \cup {d.entry[n] : d \in ondisk, n \in Names}

\* A name's content, as a sequence of at most one.
Content(name) == IF entry[name] = None THEN << >> ELSE <<inode[entry[name]].bytes>>

ModeOf(i) == IF i = None THEN NoMode ELSE inode[i].mode

DestinationMatches == Exists(dest) /\ Stat(dest) = expected

Init ==
  /\ FileSystemInit
  /\ pc = "lstat" /\ text \in Contents
  /\ guarded \in BOOLEAN /\ (guarded => Exists("path"))
  /\ expected = Stat("path") /\ known = Content(Follow("path"))
  /\ dest = "path" /\ existing = NoMode /\ fd = None
  /\ stamp = NoStamp /\ status = "none"
  /\ ondisk = {Directory(entry, linked)} /\ synced = Inodes
  /\ swap = [done |-> FALSE, over |-> << >>, kept |-> TRUE] /\ raced = FALSE

\* A system call of the function; it leaves alone what it does not name.
Call(from, to) == pc = from /\ pc' = to /\ UNCHANGED <<text, guarded, expected,
                                                       known, clock, others>>

LooksAt(from, to) == /\ Call(from, to)
                     /\ UNCHANGED <<entry, linked, inode, ondisk, synced>>

Keeps == UNCHANGED <<dest, existing, fd, stamp, status, swap, raced>>

\* A directory change reaches the disk at the latest with the next sync.
MayBe(e, l) == ondisk' = {Directory(e, l)} \cup IF CanCrash THEN ondisk ELSE {}

SetNames(e, l) == entry' = e /\ linked' = l /\ MayBe(e, l)

Return(from, result) ==
  /\ LooksAt(from, "done") /\ status' = result
  /\ UNCHANGED <<dest, existing, fd, stamp, swap, raced>>

\* close and unlink, then return.
Discard(from, result) ==
  /\ LooksAt(from, "unlink") /\ status' = result
  /\ UNCHANGED <<dest, existing, fd, stamp, swap, raced>>
-----------------------------------------------------------------------------
(* ResolveWriteDestination *)

Resolved(from, to, name, mode) ==
  /\ LooksAt(from, to)
  /\ dest' = name /\ existing' = mode
  /\ UNCHANGED <<fd, stamp, status, swap, raced>>

Lstat ==
  \/ linked /\ LooksAt("lstat", "realpath") /\ Keeps
  \/ ~ linked /\ Resolved("lstat", "check", "path", ModeOf(entry["path"]))

Bug_KeepsModeOfLink ==
  \/ Exists("path") /\ Resolved("realpath", "check", Follow("path"), "link's")
  \/ ~ Exists("path") /\ Resolved("realpath", "check", "path", NoMode)

\* A dangling link is replaced itself.
Realpath ==
  \/ Exists("path") /\ Resolved("realpath", "stat", Follow("path"), NoMode)
  \/ ~ Exists("path") /\ Resolved("realpath", "check", "path", NoMode)

StatDestination == Resolved("stat", "check", dest, ModeOf(entry[dest]))
-----------------------------------------------------------------------------
(* The temporary file *)

Check ==
  \/ (~ guarded \/ DestinationMatches) /\ LooksAt("check", "mkstemp") /\ Keeps
  \/ guarded /\ ~ DestinationMatches /\ Return("check", "changed")

MakeTemporary ==
  \/ Return("mkstemp", "failure")
  \/ /\ Call("mkstemp", IF existing = NoMode THEN "write" ELSE "fchmod")
     /\ \E i \in Free(Held) :
          /\ fd' = i
          /\ SetNames([entry EXCEPT !["temp"] = i], linked)
          /\ inode' = [inode EXCEPT ![i] = [bytes |-> << >>, mtime |-> clock,
                                            mode |-> Private]]
          /\ synced' = synced \ {i}
     /\ UNCHANGED <<dest, existing, stamp, status, swap, raced>>

ChangeMode ==
  \/ Discard("fchmod", "failure")
  \/ /\ Call("fchmod", "write") /\ Keeps
     /\ inode' = [inode EXCEPT ![fd].mode = existing]
     /\ UNCHANGED <<entry, linked, ondisk, synced>>

\* WriteAll: every write takes some of the blocks that are left.
WriteAll ==
  \/ Discard("write", "failure")
  \/ /\ LooksAt("write", "fsync") /\ Keeps
     /\ inode[fd].bytes = text
  \/ /\ Call("write", "write") /\ Keeps
     /\ \E n \in Len(inode[fd].bytes) + 1 .. Len(text) :
          inode' = [inode EXCEPT ![fd] =
                      [bytes |-> SubSeq(text, 1, n), mtime |-> clock, mode |-> @.mode]]
     /\ UNCHANGED <<entry, linked, ondisk, synced>>

Bug_NoSync == LooksAt("fsync", "fstat") /\ Keeps

Sync ==
  \/ Discard("fsync", "failure")
  \/ /\ Call("fsync", "fstat") /\ Keeps
     /\ synced' = synced \cup {fd}
     /\ UNCHANGED <<entry, linked, inode, ondisk>>

Bug_StampsDestination ==
  /\ LooksAt("fstat", "close")
  /\ stamp' = Stat(dest)
  /\ UNCHANGED <<dest, existing, fd, status, swap, raced>>

StampTemporary ==
  \/ Discard("fstat", "failure")
  \/ /\ LooksAt("fstat", "close")
     /\ stamp' = StampOf(fd)
     /\ UNCHANGED <<dest, existing, fd, status, swap, raced>>

CloseTemporary ==
  \/ Discard("close", "failure")
  \/ LooksAt("close", "recheck") /\ Keeps

Bug_RecheckLeavesTemporary ==
  \/ (~ guarded \/ DestinationMatches) /\ LooksAt("recheck", "rename") /\ Keeps
  \/ guarded /\ ~ DestinationMatches /\ Return("recheck", "changed")

Bug_NoRecheck == LooksAt("recheck", "rename") /\ Keeps

Recheck ==
  \/ (~ guarded \/ DestinationMatches) /\ LooksAt("recheck", "rename") /\ Keeps
  \/ guarded /\ ~ DestinationMatches /\ Discard("recheck", "changed")

Rename ==
  \/ Discard("rename", "failure")
  \/ /\ Call("rename", "syncdir")
     /\ SetNames([entry EXCEPT ![dest] = fd, !["temp"] = None],
                 linked /\ dest # "path")
     /\ swap' = [done |-> TRUE, over |-> Content(dest),
                 kept |-> inode[fd].mode = IF entry[dest] = None THEN Private
                                           ELSE inode[entry[dest]].mode]
     /\ UNCHANGED <<inode, synced, dest, existing, fd, stamp, status, raced>>

Bug_DirectoryMustSync ==
  \/ Return("syncdir", "failure")
  \/ /\ Call("syncdir", "done")
     /\ ondisk' = {Directory(entry, linked)} /\ status' = "success"
     /\ UNCHANGED <<entry, linked, inode, synced, dest, existing, fd, stamp,
                    swap, raced>>

Bug_StampsPathAtTheEnd ==
  /\ LooksAt("syncdir", "done") /\ status' = "success" /\ stamp' = Stat(dest)
  /\ UNCHANGED <<dest, existing, fd, swap, raced>>

\* The directory's sync is best effort.
SyncDirectory ==
  \/ Return("syncdir", "success")
  \/ /\ Call("syncdir", "done")
     /\ ondisk' = {Directory(entry, linked)} /\ status' = "success"
     /\ UNCHANGED <<entry, linked, inode, synced, dest, existing, fd, stamp,
                    swap, raced>>

Unlink ==
  /\ Call("unlink", "done") /\ Keeps
  /\ SetNames([entry EXCEPT !["temp"] = None], linked)
  /\ UNCHANGED <<inode, synced>>
-----------------------------------------------------------------------------
\* Other programs sync what they write.
OtherProgram ==
  /\ pc # "down"
  /\ OtherPrograms(Held)
  /\ MayBe(entry', linked')
  /\ raced' = (raced \/ pc = "rename")
  /\ synced' = (synced \cup {entry'["path"], entry'["target"]}) \ {None}
  /\ UNCHANGED <<pc, text, guarded, expected, dest, existing, fd, stamp, status,
                 known, swap>>

\* The machine goes down: some directory state since the last sync is left,
\* and any part of the bytes that were not synced.
Crash ==
  /\ CanCrash /\ pc # "down" /\ pc' = "down"
  /\ \E d \in ondisk : entry' = d.entry /\ linked' = d.linked
  /\ IF fd \in Inodes \ synced
     THEN \E n \in 0 .. Len(inode[fd].bytes) :
            inode' = [inode EXCEPT ![fd].bytes = SubSeq(@, 1, n)]
     ELSE inode' = inode
  /\ UNCHANGED <<clock, others, text, guarded, expected, dest, existing, fd,
                 stamp, status, ondisk, synced, known, swap, raced>>

Over == pc \in {"done", "down"} /\ UNCHANGED vars

Next ==
  \/ Lstat \/ Realpath \/ StatDestination \/ Check
  \/ MakeTemporary \/ ChangeMode \/ WriteAll \/ Sync \/ StampTemporary
  \/ CloseTemporary \/ Recheck \/ Rename \/ SyncDirectory \/ Unlink
  \/ OtherProgram \/ Crash \/ Over

Spec == Init /\ [][Next]_vars
-----------------------------------------------------------------------------
(* Properties *)

\* A machine that goes down at any moment of a save leaves a whole document:
\* an old content or the new one, never a part, and never no file at all
\* where there was one.
WholeAfterCrash ==
  pc = "down" =>
    /\ Exists("path") => Bytes("path") \in Contents
    /\ others = 0 /\ known # << >> => Exists("path")

\* "in that case no temporary file remains": whatever call failed, the
\* function returns with its temporary file renamed or removed.
NoTemporaryRemains == pc = "done" => entry["temp"] = None

\* A guarded save displaces exactly the bytes its caller had read, whatever
\* other programs did to the file, the link or the names until the last
\* check ("another writer can still race the last check").
OnlyTheReadFileIsReplaced ==
  swap.done /\ guarded /\ ~ raced => swap.over = known

\* "a rewrite of an existing regular file keeps that file's mode bits. A
\* newly created file uses the mode from mkstemp", under the same exception.
ModeIsKept == swap.done /\ guarded /\ ~ raced => swap.kept

\* "so a later path replacement cannot be mistaken for this save's identity":
\* as long as the file at the path has the returned stamp, it holds the text
\* that was saved.
StampVouchesForText ==
  status = "success" /\ Exists("path") /\ Stat("path") = stamp
    => Bytes("path") = text

\* A save nobody interferes with is what the path shows, with the stamp that
\* the next guarded save will expect.
SaveIsVisible ==
  status = "success" /\ others = 0 /\ pc = "done" =>
    /\ Exists("path") /\ Bytes("path") = text
    /\ Stat("path") = stamp

\* Seen from outside, a save is one atomic replacement.
Atomic == INSTANCE AtomicSave WITH
  Contents <- {<<c>> : c \in Contents},
  Places   <- {"path", "target"},
  Nothing  <- << >>,
  content  <- [n \in {"path", "target"} |-> Content(n)],
  text     <- <<text>>,
  phase    <- CASE status = "success"               -> "succeeded"
                [] status \in {"changed", "failure"} -> "gaveUp"
                [] status = "none" -> IF swap.done THEN "replaced" ELSE "working"

SaveIsAtomic == Atomic!AtomicSpec

TypeOK ==
  /\ FileSystemTypeOK
  /\ pc \in {"lstat", "realpath", "stat", "check", "mkstemp", "fchmod", "write",
             "fsync", "fstat", "close", "recheck", "rename", "syncdir",
             "unlink", "done", "down"}
  /\ text \in Contents /\ guarded \in BOOLEAN
  /\ expected \in Stamp /\ stamp \in Stamp
  /\ dest \in {"path", "target"} /\ existing \in Modes \cup {NoMode}
  /\ fd \in Inodes \cup {None}
  /\ pc \in {"fchmod", "write", "fsync", "fstat", "close", "recheck", "rename"}
       => fd \in Inodes /\ entry["temp"] = fd
  /\ status \in {"none", "success", "changed", "failure"}
  /\ \A d \in ondisk : d.entry \in [Names -> Inodes \cup {None}]
  /\ synced \subseteq Inodes /\ raced \in BOOLEAN

\* Every state is well formed, the temporary's descriptor open where it is
\* used, and the temporary file gone when the function returns.
LeavesNothingBehind == TypeOK /\ NoTemporaryRemains

\* A guarded save replaces what the caller knew and keeps its mode bits; what
\* success says of the file and its stamp is true.
SavesAreTrue ==
  OnlyTheReadFileIsReplaced /\ ModeIsKept /\ SaveIsVisible /\ StampVouchesForText
=============================================================================
