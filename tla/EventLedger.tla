----------------------------- MODULE EventLedger -----------------------------
(***************************************************************************)
(* What the resident service promises about a set of watched projects,     *)
(* with the loop, the watcher threads, the crashes and the retries left    *)
(* out: what was recorded stays on record, the Atlas only moves forward,   *)
(* and an event is settled only once the Atlas shows what it announced.    *)
(*                                                                         *)
(* Every action is a relation between one project's old and new value, so  *)
(* a step of the service may be compared with it without enumerating the   *)
(* infinite sets of events and versions.                                   *)
(***************************************************************************)
EXTENDS Naturals

CONSTANTS
    Root,       \* the watched projects
    File,       \* the files of a project
    Event       \* records holding the versions they announce in "seen"

VARIABLES
    observed,   \* observed[r]: the events recorded for project r
    settled,    \* settled[r]: those of them whose work is done
    indexed     \* indexed[r][f]: the version of f the Atlas of r describes

vars == <<observed, settled, indexed>>

Covers(version, e) == \A f \in File : version[f] >= e.seen[f]

\* Nothing but entry r of the array changes.
Only(r, old, new) == \A q \in Root : q # r => new[q] = old[q]

Init ==
    /\ observed = [r \in Root |-> {}]
    /\ settled = [r \in Root |-> {}]
    /\ indexed = [r \in Root |-> [f \in File |-> 0]]

\* More events of project r are on record, and none leaves it.
Observe(r) ==
    /\ observed' \in [Root -> SUBSET Event]
    /\ observed[r] \subseteq observed'[r]
    /\ Only(r, observed, observed')
    /\ UNCHANGED <<settled, indexed>>

\* The Atlas of project r moves forward, file by file.
Index(r) ==
    /\ indexed' \in [Root -> [File -> Nat]]
    /\ \A f \in File : indexed'[r][f] >= indexed[r][f]
    /\ Only(r, indexed, indexed')
    /\ UNCHANGED <<observed, settled>>

\* Recorded events whose work the Atlas shows are settled, for good.
Settle(r) ==
    /\ settled' \in [Root -> SUBSET Event]
    /\ settled[r] \subseteq settled'[r]
    /\ \A e \in settled'[r] \ settled[r] :
          e \in observed[r] /\ Covers(indexed[r], e)
    /\ Only(r, settled, settled')
    /\ UNCHANGED <<observed, indexed>>

Next == \E r \in Root : Observe(r) \/ Index(r) \/ Settle(r)

Spec == Init /\ [][Next]_vars
=============================================================================
