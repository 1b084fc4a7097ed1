------------------------- MODULE MCSpellcheckReview -------------------------
(* Two words, two dictionaries: "bad" is wrong for both, "odd" for one.       *)
EXTENDS SpellcheckReview

MCKnown == [d \in Dictionaries |-> IF d = "de" THEN {"odd"} ELSE {}]
MCDocuments == {<<"bad", "bad", "odd">>}
MCSelections == {<<0, 2>>, <<1, 3>>}
MCReplacements == {<<>>, <<"bad", "odd">>}
=============================================================================
