--------------------------- MODULE MCJsonlJournal ---------------------------
(* Small instances of JsonlJournal for TLC. *)
EXTENDS JsonlJournal, TLC

\* No event is told from another: only the order of their appends matters.
EventSymmetry == Permutations(Events)
=============================================================================
