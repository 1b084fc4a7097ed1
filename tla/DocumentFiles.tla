--------------------------- MODULE DocumentFiles ---------------------------
(***************************************************************************)
(* What ReadDocumentFile and WriteDocumentFile promise DocumentWorkspace.  *)
(*                                                                         *)
(* disk maps every normalized path to the regular file there, if any. A    *)
(* file is its bytes and its stamp (device, inode, size, mtime): only the  *)
(* equality of stamps is ever used, so a stamp is a number that no other   *)
(* live file or tab carries. io is what the operating system does to the   *)
(* call: "ok", "fails" (any error of the call itself) or "blind" (the      *)
(* destination cannot be inspected).                                       *)
(***************************************************************************)
EXTENDS Naturals, FiniteSets

CONSTANTS Texts,        \* contents of files and documents
          OverWarning,  \* contents above DocumentFileWarningThresholdBytes
          OverHard,     \* contents above DocumentFileHardLimitBytes
          Paths,        \* lexically normalized paths
          MaxStamps     \* stamps that files and tabs may carry at once

ASSUME FileConstants ==
  /\ OverHard \subseteq OverWarning
  /\ OverWarning \subseteq Texts
  /\ MaxStamps \in Nat \ {0}

Stamps  == 1 .. MaxStamps
NoStamp == 0

Absent == [exists |-> FALSE]
File   == [exists : {TRUE}, text : Texts, stamp : Stamps]
Disk   == [Paths -> File \cup {Absent}]

FileOf(text, stamp) == [exists |-> TRUE, text |-> text, stamp |-> stamp]

DiskStamps(disk) == {disk[p].stamp : p \in {q \in Paths : disk[q].exists}}

Bug_TooLargeIgnoresWarning(text, limit) == text \in OverHard

Bug_TooLargeIgnoresHard(text, limit) == limit = "warning" /\ text \in OverWarning

TooLarge(text, limit) ==
  text \in (IF limit = "warning" THEN OverWarning ELSE OverHard)

\* ReadDocumentFile under one of the two limits.
ReadStatus(disk, path, limit, io) ==
  IF io # "ok" \/ ~ disk[path].exists       THEN "failed"
  ELSE IF TooLarge(disk[path].text, limit)  THEN "tooLarge"
  ELSE "success"

DestinationMatches(disk, path, expected) ==
  disk[path].exists /\ disk[path].stamp = expected

\* WriteDocumentFile: a guarded write (expected # NoStamp) that does not find
\* the expected file, or cannot look, reports "changed" and writes nothing.
WriteStatus(disk, path, expected, io) ==
  IF /\ expected # NoStamp
     /\ io = "blind" \/ ~ DestinationMatches(disk, path, expected)
  THEN "changed"
  ELSE IF io = "ok" THEN "success" ELSE "failed"
=============================================================================
