-------------------------- MODULE MCDocumentWrite --------------------------
(* Instances of DocumentWrite for TLC. *)
EXTENDS DocumentWrite, TLC

CONSTANTS a, b   \* blocks

\* Two contents of one size; neither begins the other.
MCContents == {<<a, a>>, <<b, b>>}

MCSymmetry == Permutations({a, b})
=============================================================================
