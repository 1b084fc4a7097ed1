--------------------------- MODULE MCApplication ---------------------------
(* Instances of Application for TLC. *)
EXTENDS Application

CONSTANTS t0, t1, big, huge,   \* contents: new, typed, over 64 MiB, over 256 MiB
          p, q                 \* normalized paths

MCPaths1 == {p}
MCPaths2 == {p, q}

\* Dialogs may spell a path in more than one way.
MCNames1 == {"/d/p"}
MCNames2 == {"/d/p", "/d/./p", "/d/q"}
MCNormalize1 == [n \in MCNames1 |-> p]
MCSame1 == [n \in {p} |-> n]
MCSame2 == [n \in {p, q} |-> n]
MCNormalize2 == [n \in MCNames2 |-> IF n = "/d/q" THEN q ELSE p]

MCDisk1 == [x \in {p} |-> FileOf(t0, 1)]
MCDisk2 == [x \in {p, q} |-> IF x = p THEN FileOf(t0, 1) ELSE Absent]

\* No file, a small file, or one of the given contents.
MCDisks1     == {MCDisk1}
MCDisks2     == {MCDisk2}
MCDisksLeaving == {[x \in {p, q} |-> IF x = p THEN FileOf(big, 1) ELSE FileOf(t0, 2)]}
MCDisksLarge == {[x \in {p, q} |-> IF x = p THEN FileOf(a, 1) ELSE FileOf(b, 2)] :
                   a \in {big}, b \in {t1, big, huge}}

\* Both files exist; the instance that uses this treats p and q alike.
MCDisksBoth == {[x \in {p, q} |-> FileOf(t0, IF x = first THEN 1 ELSE 2)] :
                  first \in {p, q}}
MCSymmetry  == Permutations({p, q})
=============================================================================
