---------------------------- MODULE MCLayeredScan ----------------------------
(* Small instances of LayeredScan for TLC. *)
EXTENDS LayeredScan

\* A tree of two directories, by the lines of their declarations.
Both(l, m) == [d \in Dir |-> IF d = 1 THEN l ELSE m]

\* Both declarations move; or directory 2 goes.
ThreeTrees == {Both(1, 1), Both(2, 2), [d \in {1} |-> 1]}

\* The declaration of 1 moves.
TwoTrees == {Both(1, 1), Both(2, 1)}

\* Each requires the other's declaration.
EachOther == [d \in Dir |-> 3 - d]

TheFirst == {1}
=============================================================================
