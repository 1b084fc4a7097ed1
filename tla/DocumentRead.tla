---------------------------- MODULE DocumentRead ----------------------------
(***************************************************************************)
(* ReadDocumentFile, one system call after the other, while other programs *)
(* replace, rewrite and remove the file: the stamp before, chunk after     *)
(* chunk up to the limit, the stamp after.                                 *)
(***************************************************************************)
EXTENDS FileSystem

CONSTANT MaximumBytes   \* in blocks

ASSUME MaximumBytesConstant == MaximumBytes \in Nat

VARIABLES
  pc, fd,
  before,  \* the stamp of the open file, before the first read
  bytes, status,
  \* history: every stamp and content the open file had, and whether another
  \* program changed anything
  seen, disturbed

readVars == <<fsVars, pc, fd, before, bytes, status, seen, disturbed>>

ReadInit ==
  /\ FileSystemInit
  /\ pc = "open" /\ fd = None /\ before = NoStamp
  /\ bytes = << >> /\ status = "none" /\ seen = {} /\ disturbed = FALSE

Goes(from, to) == pc = from /\ pc' = to /\ UNCHANGED <<fsVars, disturbed>>

Return(from, result) ==
  /\ Goes(from, "done") /\ status' = result
  /\ UNCHANGED <<fd, before, bytes, seen>>

Snapshot(i) == [stamp |-> StampOf(i), bytes |-> inode[i].bytes]

Open ==
  \/ Return("open", "failure")
  \/ /\ Exists("path") /\ Goes("open", "fstat")
     /\ fd' = At("path") /\ seen' = {Snapshot(At("path"))}
     /\ UNCHANGED <<before, bytes, status>>

Bug_RejectsExactLimit ==
  \/ pc = "fstat" /\ Len(inode[fd].bytes) >= MaximumBytes /\ Return("fstat", "tooLarge")
  \/ /\ Goes("fstat", "read")
     /\ Len(inode[fd].bytes) < MaximumBytes
     /\ before' = StampOf(fd)
     /\ UNCHANGED <<fd, bytes, status, seen>>

StatBefore ==
  \/ Return("fstat", "failure")
  \/ pc = "fstat" /\ Len(inode[fd].bytes) > MaximumBytes /\ Return("fstat", "tooLarge")
  \/ /\ Goes("fstat", "read")
     /\ Len(inode[fd].bytes) <= MaximumBytes
     /\ before' = StampOf(fd)
     /\ UNCHANGED <<fd, bytes, status, seen>>

Bug_ReadPastLimit ==
  \/ Return("read", "failure")
  \/ /\ Goes("read", "read")
     /\ \E n \in Len(bytes) + 1 .. Len(inode[fd].bytes) :
          bytes' = bytes \o SubSeq(inode[fd].bytes, Len(bytes) + 1, n)
     /\ UNCHANGED <<fd, before, status, seen>>
  \/ /\ Goes("read", "refstat")
     /\ Len(bytes) >= Len(inode[fd].bytes)
     /\ UNCHANGED <<fd, before, bytes, status, seen>>

\* One read takes some of what is there, never past the limit; at the limit
\* one more readable byte is too large, and no more bytes are the end.
Read ==
  \/ Return("read", "failure")
  \/ /\ Goes("read", "read")
     /\ \E n \in Len(bytes) + 1 .. MaximumBytes :
          /\ n <= Len(inode[fd].bytes)
          /\ bytes' = bytes \o SubSeq(inode[fd].bytes, Len(bytes) + 1, n)
     /\ UNCHANGED <<fd, before, status, seen>>
  \/ /\ pc = "read" /\ Len(bytes) = MaximumBytes /\ Len(inode[fd].bytes) > MaximumBytes
     /\ Return("read", "tooLarge")
  \/ /\ Goes("read", "refstat")
     /\ Len(bytes) >= Len(inode[fd].bytes)
     /\ UNCHANGED <<fd, before, bytes, status, seen>>

Bug_NoStatAfter == Return("refstat", "success")

\* close may fail too.
StatAfter ==
  \/ Return("refstat", "failure")
  \/ pc = "refstat" /\ StampOf(fd) = before /\ Return("refstat", "success")

OtherProgram ==
  /\ OtherPrograms({fd})
  /\ disturbed' = TRUE
  /\ seen' = IF fd = None THEN seen
             ELSE seen \cup {[stamp |-> [ino |-> fd, size |-> Len(inode'[fd].bytes),
                                         mtime |-> inode'[fd].mtime],
                              bytes |-> inode'[fd].bytes]}
  /\ UNCHANGED <<pc, fd, before, bytes, status>>

ReadOver == pc = "done" /\ UNCHANGED readVars

ReadNext == Open \/ StatBefore \/ Read \/ StatAfter \/ OtherProgram \/ ReadOver

ReadSpec == ReadInit /\ [][ReadNext]_readVars
-----------------------------------------------------------------------------
(* Properties *)

\* "so the buffer is not accepted with identity fields that may describe
\* different bytes": an accepted buffer is one content the file had, under the
\* very stamp that is returned with it, and not a mixture.
ReadIsSnapshot ==
  status = "success" => [stamp |-> before, bytes |-> bytes] \in seen

\* "Never appends past maximumBytes", however the file grows meanwhile.
LimitIsKept == Len(bytes) <= MaximumBytes

\* "Files of exactly this size remain eligible; larger files never load": a
\* file nobody touches is answered by its size alone, if at all.
SizeDecides ==
  pc = "done" /\ ~ disturbed /\ status # "failure" =>
    status = IF Len(Bytes("path")) > MaximumBytes THEN "tooLarge" ELSE "success"

TypeOK ==
  /\ FileSystemTypeOK
  /\ pc \in {"open", "fstat", "read", "refstat", "done"}
  /\ fd \in Inodes \cup {None}
  /\ pc \in {"fstat", "read", "refstat"} => fd \in Inodes
  /\ before \in Stamp
  /\ status \in {"none", "success", "failure", "tooLarge"}
  /\ bytes \in Seq(Blocks) /\ disturbed \in BOOLEAN
=============================================================================
