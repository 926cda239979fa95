----------------------------- MODULE MCParseCache -----------------------------
(* Small instances of ParseCache for TLC. *)
EXTENDS ParseCache

CONSTANTS x, y, binary

\* A C file and a C++ file.
TwoFiles == [f \in {1, 2} |-> IF f = 1 THEN "c" ELSE "cpp"]

\* One file.
OneFile == [f \in {1} |-> "rust"]
=============================================================================
