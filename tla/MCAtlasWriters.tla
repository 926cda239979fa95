--------------------------- MODULE MCAtlasWriters ---------------------------
(* Small instances of AtlasWriters for TLC. *)
EXTENDS AtlasWriters, TLC

TheFileAndItsSymbol == {Entity}
TheSymbol == {{"symbol"}}

Alike == Permutations(Procs) \union Permutations(Trees)
=============================================================================
