------------------------------ MODULE MCServices ------------------------------
(* The desktop's services and the files in one run.  The selections and the file
   dialogs share the event loop and nothing else, and a read shares nothing with
   either, so each behaviour follows one of the three.                          *)
EXTENDS WaylandSelections, PortalDialogs, DocumentRead

CONSTANTS first, second, third   \* blocks

\* Below, twice at, and above a limit of two blocks.
MCContents == {<<third>>, <<first, first>>, <<second, second>>, <<third, third, third>>}

VARIABLE part
vars == <<part, selectionVars, dialogVars, readVars>>

\* No file, and nothing being read.
NoRead ==
    /\ inode = [i \in Inodes |-> [bytes |-> <<third>>, mtime |-> 1, mode |-> Private]]
    /\ entry = [n \in Names |-> None] /\ linked = FALSE /\ clock = 1 /\ others = 0
    /\ pc = "done" /\ fd = None /\ before = NoStamp
    /\ bytes = << >> /\ status = "failure" /\ seen = {} /\ disturbed = FALSE

Init ==
    /\ part \in {"selections", "dialogs", "read"}
    /\ SelectionInit(part = "selections") /\ DialogInit(part = "dialogs")
    /\ IF part = "read" THEN ReadInit ELSE NoRead

Next ==
    /\ \/ part = "selections" /\ SelectionNext /\ UNCHANGED <<dialogVars, readVars>>
       \/ part = "dialogs" /\ DialogNext /\ UNCHANGED <<selectionVars, readVars>>
       \/ part = "read" /\ ReadNext /\ UNCHANGED <<selectionVars, dialogVars>>
    /\ UNCHANGED part

Spec == Init /\ [][Next]_vars
FairSpec == Spec /\ SelectionFairness /\ DialogFairness
===============================================================================
