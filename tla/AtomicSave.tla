----------------------------- MODULE AtomicSave -----------------------------
(***************************************************************************)
(* What WriteDocumentFile promises (DocumentFile.h): what is read under a  *)
(* name is at every moment a whole content; the text arrives whole, in one *)
(* step; success is reported only after that step, and a change or a       *)
(* failure only without it. Other programs and crashes put whole contents. *)
(***************************************************************************)
CONSTANTS Contents, Places, Nothing
VARIABLES content, text, phase

asVars == <<content, text, phase>>

AtomicInit ==
  /\ content \in [Places -> Contents \cup {Nothing}]
  /\ text \in Contents
  /\ phase = "working"

Environment ==
  /\ content' \in [Places -> Contents \cup {Nothing}]
  /\ UNCHANGED <<text, phase>>

Replace ==
  /\ phase = "working"
  /\ \E p \in Places : content' = [content EXCEPT ![p] = text]
  /\ phase' = "replaced"
  /\ UNCHANGED text

Succeed ==
  /\ phase = "replaced"
  /\ phase' = "succeeded"
  /\ UNCHANGED <<content, text>>

GiveUp ==
  /\ phase = "working"
  /\ phase' = "gaveUp"
  /\ UNCHANGED <<content, text>>

AtomicNext == Environment \/ Replace \/ Succeed \/ GiveUp

AtomicSpec == AtomicInit /\ [][AtomicNext]_asVars
=============================================================================
