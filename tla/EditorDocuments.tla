-------------------------- MODULE EditorDocuments --------------------------
(***************************************************************************)
(* The retained documents of ApplicationEditor, the host behind every tab. *)
(*                                                                         *)
(* Each operator is one ApplicationEditor operation: it takes the state s  *)
(* of the application so far and returns the state after the call, so that *)
(* a workspace handler which makes several calls is their composition.     *)
(* The fields of s used here:                                              *)
(*   docs     the retained documents: what the buffer holds, what it held  *)
(*            at its save point, and whether it is at that save point      *)
(*            (an edit that is typed and then deleted leaves a document    *)
(*            modified with the saved text)                                *)
(*   editing  activeDocumentId, the document input and painting go to      *)
(*   paste    a paste is pending for the current document generation       *)
(*   spell    the spelling card: closed, loading (open without a live      *)
(*            session) or review (the session owns the active document)    *)
(*   scope    the document whose selection OpenSpellcheck measured         *)
(*   fault    an operation threw std::invalid_argument                     *)
(***************************************************************************)
EXTENDS DocumentFiles

CONSTANTS MaxDocs,   \* documents that are retained or still referred to
          Empty      \* the content of a new document

ASSUME DocumentConstants ==
  /\ MaxDocs \in Nat \ {0}
  /\ Empty \in Texts

DocIds == 1 .. MaxDocs
NoDoc  == 0

Document == [text : Texts, saved : Texts, clean : BOOLEAN]

AtSavePoint(text) == [text |-> text, saved |-> text, clean |-> TRUE]

HasDocument(s, id) == id \in DOMAIN s.docs

Modified(s, id) == ~ s.docs[id].clean

SpellcheckReviewActive(s) == s.spell = "review"

\* A document with no tab of its own yet; the caller picks an unused id.
CreateDocument(s, id) ==
  [s EXCEPT !.docs = [d \in DOMAIN s.docs \cup {id} |->
                        IF d = id THEN AtSavePoint(Empty) ELSE s.docs[d]]]

\* A spelling review pins its document: activation is then silently ignored.
\* Otherwise a change of document supersedes the pending paste.
ActivateDocument(s, id) ==
  IF id = s.editing \/ SpellcheckReviewActive(s) THEN s
  ELSE IF ~ HasDocument(s, id) THEN [s EXCEPT !.fault = TRUE]
  ELSE [s EXCEPT !.editing = id, !.paste = FALSE]

Bug_CloseDocumentLeaks(s, id) ==
  IF id = s.editing \/ ~ HasDocument(s, id) THEN [s EXCEPT !.fault = TRUE] ELSE s

CloseDocument(s, id) ==
  IF id = s.editing \/ ~ HasDocument(s, id) THEN [s EXCEPT !.fault = TRUE]
  ELSE [s EXCEPT !.docs = [d \in DOMAIN s.docs \ {id} |-> s.docs[d]]]

Bug_LoadKeepsSavePoint(s, text) ==
  [s EXCEPT !.docs[s.editing].text  = text,
            !.docs[s.editing].clean = TRUE, !.paste = FALSE]

\* Replaces the buffer of the document being edited, with an empty undo
\* history and a fresh save point.
LoadInitialBuffer(s, text) ==
  [s EXCEPT !.docs[s.editing] = AtSavePoint(text), !.paste = FALSE]

MarkSaved(s, id) == [s EXCEPT !.docs[id] = AtSavePoint(s.docs[id].text)]

\* Any user edit of the active document: it leaves the save point, and the
\* new document generation supersedes a pending paste.
EditText(s, text) ==
  [s EXCEPT !.docs[s.editing].text  = text,
            !.docs[s.editing].clean = FALSE,
            !.paste                 = FALSE]

\* Undo (or redo) that arrives at the save point.
UndoToSavePoint(s) ==
  [s EXCEPT !.docs[s.editing] = AtSavePoint(s.docs[s.editing].saved),
            !.paste           = FALSE]

RequestClipboardPaste(s) == [s EXCEPT !.paste = TRUE]

\* The clipboard answers. The text enters only the document and generation
\* the paste was requested in; no modal card is consulted.
HandleClipboardResult(s, text) == IF s.paste THEN EditText(s, text) ELSE s

\* OpenSpellcheck measures the selection of the active document now and asks
\* the worker to discover dictionaries.
OpenSpellcheck(s) == [s EXCEPT !.spell = "loading", !.scope = s.editing]

Bug_ReviewKeepsPaste(s) == [s EXCEPT !.spell = "review"]

\* The first dictionary list builds the session on whatever document is
\* active by then, and BeginSpellcheckReview takes the document over.
StartSpellcheckSession(s) == [s EXCEPT !.spell = "review", !.paste = FALSE]

CloseSpellcheck(s) == [s EXCEPT !.spell = "closed", !.scope = NoDoc]
=============================================================================
