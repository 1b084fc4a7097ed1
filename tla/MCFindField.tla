----------------------------- MODULE MCFindField -----------------------------
(* Instances of FindField for TLC: "s" is the sharp s, two bytes that fold to two
   letters, "A" and "a" are equal but for case.                               *)
EXTENDS FindField

MCWidth == [c \in {"a", "A", "s"} |-> IF c = "s" THEN 2 ELSE 1]
MCFolded == [c \in {"a", "A", "s"} |-> IF c = "s" THEN <<"a", "a">> ELSE <<"a">>]

\* A document of two words that match each other and half of each other's letters,
\* and an empty one.
MCBodies == {<<<<"s", "s">>, <<>>>>}
===============================================================================
