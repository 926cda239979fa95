----------------------------- MODULE LayeredScan -----------------------------
(***************************************************************************)
(* `creature-context scan-layered`, which stores the Atlas a directory at  *)
(* a time, over a store that still holds the snapshot before it.  Every    *)
(* row is stamped with its snapshot, upserts overwrite rows by id, and     *)
(* finalize_snapshot deletes what does not carry the new stamp.  The scan  *)
(* may be interrupted anywhere and run again; files change under it; the   *)
(* resident service reconciles, and the semantic lane or `creature-context *)
(* evidence` store again what they have loaded.                            *)
(*                                                                         *)
(* A directory holds one file, which has at most one declaration, the same *)
(* on one line or another, and requires the declaration of one directory.  *)
(* A tree is the line of each file's declaration, and stands for the hash  *)
(* of the files that names a snapshot.                                     *)
(***************************************************************************)
EXTENDS Naturals, Functions

CONSTANTS
    N,          \* directories 1..N, in the order of their keys
    MaxLine,    \* bound: the lines a declaration may be on
    Trees,      \* bound: what the project may look like
    Needs,      \* Needs[d]: the directory that the file of d requires
    OfKindFile, \* directories whose file has an entity of kind File, not Test or Resource
    Summarised  \* bound: the directories that the lane gets to

Dir == 1..N
Line == 1..MaxLine
NoDecl == 0

\* The trees, files and symbols are functions that grow and shrink.
Partial(D, R) == UNION {[S -> R] : S \in SUBSET D}
RowsOf(f, D, R) == DOMAIN f \subseteq D /\ f \in [DOMAIN f -> R]
Empty == [x \in {} |-> x]
Upsert(old, new) ==
    [x \in DOMAIN old \union DOMAIN new |-> IF x \in DOMAIN new THEN new[x] ELSE old[x]]
Stamped(rows, t) == [x \in {y \in DOMAIN rows : rows[y].stamp = t} |-> rows[x]]

ASSUME BoundsAssumption == N \in Nat \ {0} /\ MaxLine \in Nat
ASSUME TreesAssumption == Trees \subseteq Partial(Dir, Line \union {NoDecl})
ASSUME NeedsAssumption == Needs \in [Dir -> Dir]
ASSUME KindAssumption == OfKindFile \subseteq Dir
ASSUME SummarisedAssumption == Summarised \subseteq Dir

\* The id of a declaration is hashed from its file and the line it first had.
SymbolId == [dir : Dir, line : Line]
FileRow == [stamp : Trees, linked : BOOLEAN]
SymbolRow == [stamp : Trees, line : Line, summary : BOOLEAN]

VARIABLES
    tree,       \* the files on disk
    current,    \* metadata.current_snapshot: none or one
    files,      \* rows of the files
    symbols,    \* rows of the declarations
    phase,      \* where the layered scan is
    index,      \* the snapshot it is of
    prev,       \* prev_snapshot_id
    at,         \* the directory it is at
    sub,        \* the row of its declaration, to be stored
    parsed,     \* directories whose file could be read (global_requires)
    provides,   \* those of them with a declaration (global_provides)
    calm,       \* whether nothing but the scan has changed anything since it began
    whole,      \* whether the store was whole then
    alone,      \* whether only layered scans of these files came since it was whole
    leftover    \* directories that had rows under its stamp already

store == <<current, files, symbols>>
scan == <<phase, index, prev, at, sub, parsed, provides>>
begun == <<whole, leftover>>
vars == <<tree, store, scan, calm, begun, alone>>

TypeOK ==
    /\ tree \in Trees /\ current \subseteq Trees
    /\ RowsOf(files, Dir, FileRow) /\ RowsOf(symbols, SymbolId, SymbolRow)
    /\ phase \in {"idle", "open", "build", "persist", "stitch", "finalize", "done"}
    /\ index \in Trees /\ prev \subseteq Trees
    /\ at \in Dir
    /\ RowsOf(sub, SymbolId, SymbolRow)
    /\ parsed \subseteq Dir /\ provides \subseteq parsed
    /\ calm \in BOOLEAN /\ whole \in BOOLEAN /\ alone \in BOOLEAN
    /\ leftover \subseteq Dir

Init ==
    /\ tree \in Trees
    /\ current = {} /\ files = Empty /\ symbols = Empty
    /\ phase = "idle" /\ index = tree /\ prev = {} /\ at = 1 /\ sub = Empty
    /\ parsed = {} /\ provides = {}
    /\ calm = FALSE /\ whole = FALSE /\ leftover = {} /\ alone = TRUE

-----------------------------------------------------------------------------
(* What the store says of a tree.                                          *)

Declares(t, d) == d \in DOMAIN t /\ t[d] # NoDecl
Rows(d) == {s \in DOMAIN symbols : s.dir = d}

\* Whether the requirement of d's file is met in tree t.
Met(t, d) == Declares(t, Needs[d])

FileDescribes(t, d) ==
    IF d \in DOMAIN t
    THEN d \in DOMAIN files /\ files[d] = [stamp |-> t, linked |-> Met(t, d)]
    ELSE d \notin DOMAIN files

\* One row for a declaration, and none where there is none.
SymbolDescribes(t, d) ==
    IF Declares(t, d)
    THEN \E s \in SymbolId : /\ Rows(d) = {s}
                             /\ symbols[s].stamp = t /\ symbols[s].line = t[d]
    ELSE Rows(d) = {}

Described(t, d) == FileDescribes(t, d) /\ SymbolDescribes(t, d)

\* The store is empty, or holds one snapshot and nothing else.
Whole ==
    \/ current = {} /\ DOMAIN files = {} /\ DOMAIN symbols = {}
    \/ \E t \in current : \A d \in Dir : Described(t, d)

-----------------------------------------------------------------------------
(* The layered scan.                                                       *)

\* scan_index, with the files hashed at one moment.
Begin ==
    /\ phase = "idle"
    /\ phase' = "open" /\ index' = tree
    /\ calm' = TRUE /\ whole' = Whole
    /\ leftover' = DOMAIN Stamped(files, tree)
                     \union {s.dir : s \in DOMAIN Stamped(symbols, tree)}
    /\ UNCHANGED <<tree, store, prev, at, sub, parsed, provides, alone>>

Open ==
    /\ phase = "open"
    /\ phase' = "build" /\ prev' = current
    /\ UNCHANGED <<tree, store, index, at, sub, parsed, provides, calm, begun, alone>>

\* load_planet_subtree: the declarations of d, if its file has this stamp.
Subtree(d, t) ==
    IF d \in DOMAIN files /\ files[d].stamp = t
    THEN {s \in Rows(d) : symbols[s].stamp = t}
    ELSE {}

\* A mutant: the identity is reconciled with the snapshot being written.
EarlierOfIndex(d) == Subtree(d, index)

Earlier(d) == UNION {Subtree(d, t) : t \in prev}

Fresh(d, line) == [dir |-> d, line |-> line]

\* reconcile_identity for a file with one declaration: it takes over one of the
\* stored ones, whichever sorts first, or is new, as it always is in a file of
\* another kind.
Reconciled(d, line, earlier) ==
    IF earlier = {} \/ d \notin OfKindFile THEN {Fresh(d, line)} ELSE earlier

Row(t, d, summary) == [stamp |-> t, line |-> tree[d], summary |-> summary]

\* The file is read again to be parsed.
Build ==
    /\ phase = "build" /\ at \in DOMAIN index
    /\ phase' = "persist"
    /\ parsed' = IF at \in DOMAIN tree THEN parsed \union {at} ELSE parsed
    /\ provides' = IF Declares(tree, at) THEN provides \union {at} ELSE provides
    /\ IF Declares(tree, at)
       THEN \E s \in Reconciled(at, tree[at], Earlier(at)) :
               sub' = [x \in {s} |->
                          Row(index, at, s \in Earlier(at) /\ symbols[s].summary)]
       ELSE sub' = Empty
    /\ UNCHANGED <<tree, store, index, prev, at, calm, begun, alone>>

\* A mutant: one directory too many.
NextDirPastTheLast(next) ==
    IF at =< N THEN at' = at + 1 /\ phase' = next
    ELSE at' = 1 /\ phase' = IF next = "build" THEN "stitch" ELSE "finalize"

\* The loop over the directories goes on, or gives way to the next stage.
NextDir(next) ==
    IF at < N THEN at' = at + 1 /\ phase' = next
    ELSE at' = 1 /\ phase' = IF next = "build" THEN "stitch" ELSE "finalize"

SkipDir ==
    /\ phase = "build" /\ at \in Dir \ DOMAIN index
    /\ NextDir("build")
    /\ UNCHANGED <<tree, store, index, prev, sub, parsed, provides, calm, begun, alone>>

\* upsert_subtree, with what the directory alone can tell of the requirement.
Persist ==
    /\ phase = "persist"
    /\ files' = Upsert(files, [d \in {at} |->
                                  [stamp |-> index,
                                   linked |-> at \in provides /\ Needs[at] = at]])
    /\ symbols' = Upsert(symbols, sub)
    /\ sub' = Empty
    /\ NextDir("build")
    /\ UNCHANGED <<tree, current, index, prev, parsed, provides, calm, begun, alone>>

\* Files whose requirement another directory meets.
Affected(d) == d \in parsed /\ Needs[d] \in provides /\ Needs[d] # d

\* The stitch reloads a file it affects and stores it again.
Stitch ==
    /\ phase = "stitch"
    /\ files' = IF Affected(at) /\ at \in DOMAIN files /\ files[at].stamp = index
                THEN [files EXCEPT ![at].linked = TRUE] ELSE files
    /\ NextDir("stitch")
    /\ UNCHANGED <<tree, current, symbols, index, prev, sub, parsed, provides,
                   calm, begun, alone>>

\* A mutant: nothing is deleted.
FinalizeByPointer ==
    /\ phase = "finalize"
    /\ current' = {index}
    /\ phase' = "done"
    /\ UNCHANGED <<tree, files, symbols, index, prev, at, sub, parsed, provides,
                   calm, begun, alone>>

\* finalize_snapshot: what has another stamp goes.
Finalize ==
    /\ phase = "finalize"
    /\ files' = Stamped(files, index) /\ symbols' = Stamped(symbols, index)
    /\ current' = {index}
    /\ phase' = "done"
    /\ UNCHANGED <<tree, index, prev, at, sub, parsed, provides, calm, begun, alone>>

\* The status is printed; or a call fails, or somebody presses Ctrl-C.
Ends ==
    /\ phase # "idle"
    /\ phase' = "idle" /\ index' = tree /\ prev' = {} /\ at' = 1 /\ sub' = Empty
    /\ parsed' = {} /\ provides' = {}
    /\ calm' = FALSE /\ whole' = FALSE /\ leftover' = {}
    /\ UNCHANGED <<tree, store, alone>>

-----------------------------------------------------------------------------
(* Everybody else.                                                         *)

Edit(t) ==
    /\ t # tree
    /\ tree' = t /\ calm' = FALSE /\ alone' = (Whole /\ phase = "idle")
    /\ UNCHANGED <<store, scan, begun>>

\* A reconciliation of the service, or `creature-context scan`: it loads every row,
\* whatever its stamp, if there is a snapshot, and replaces them all by those of
\* the tree.  What comes between the two is overwritten.
Known(d) == IF current = {} THEN {} ELSE Rows(d)

Replace ==
    /\ \E id \in [{d \in Dir : Declares(tree, d)} -> SymbolId] :
          /\ \A d \in DOMAIN id : id[d] \in Reconciled(d, tree[d], Known(d))
          /\ symbols' = [s \in Range(id) |->
                            Row(tree, s.dir, s \in Known(s.dir) /\ symbols[s].summary)]
    /\ files' = [d \in DOMAIN tree |-> [stamp |-> tree, linked |-> Met(tree, d)]]
    /\ current' = {tree} /\ calm' = FALSE /\ alone' = (phase = "idle")
    /\ UNCHANGED <<tree, scan, begun>>

\* `creature-context evidence`, or the semantic lane with the summaries it made,
\* loads a snapshot and stores it again: every row, under the stamp of the current
\* snapshot.
StoreAgain(summarised) ==
    /\ \E t \in current :
          /\ files' = [d \in DOMAIN files |-> [files[d] EXCEPT !.stamp = t]]
          /\ symbols' = [s \in DOMAIN symbols |->
                            [symbols[s] EXCEPT !.stamp = t,
                                               !.summary = @ \/ s.dir \in summarised]]
    /\ calm' = FALSE /\ alone' = (alone /\ Whole /\ phase = "idle")
    /\ UNCHANGED <<tree, current, scan, begun>>

Next ==
    \/ Begin \/ Open \/ Build \/ SkipDir \/ Persist \/ Stitch \/ Finalize \/ Ends
    \/ \E t \in Trees : Edit(t)
    \/ Replace
    \/ \E summarised \in {{}, Summarised} : StoreAgain(summarised)

Spec == Init /\ [][Next]_vars

-----------------------------------------------------------------------------
(* What must hold.                                                         *)

\* A layered scan that nobody disturbs leaves in the store the files, links and
\* declarations of the tree, and nothing else, from whatever store it began with:
\* interrupted, stored again in its middle, or reconciled by others.  All but the
\* directories that already had rows under its very stamp, in a store that was
\* not whole.
ExactButForLeftovers ==
    phase = "done" /\ calm =>
        /\ current = {tree}
        /\ \A d \in Dir : Described(tree, d) \/ (~whole /\ d \in leftover)

\* A layered scan that nobody disturbs, of a project whose store is whole, gives
\* every declaration of a file of kind File the identity and the summary that the
\* store has for it, wherever it has moved.
RescanKeepsIdentity ==
    phase = "persist" /\ calm /\ whole /\ at \in OfKindFile =>
        \A s \in Rows(at) : DOMAIN sub # {} =>
            DOMAIN sub = {s} /\ sub[s].summary = symbols[s].summary

\* While an undisturbed scan of a whole store runs, no declaration of a file of kind
\* File is in the store twice: an interruption loses nothing and doubles nothing
\* yet.
NothingIsDoubled ==
    calm /\ whole => \A r, s \in DOMAIN symbols :
                         r.dir = s.dir /\ r.dir \in OfKindFile => r = s

-----------------------------------------------------------------------------
(* What the comments of the code promise and the code does not keep.        *)

\* "A declaration whose line moved [...] keeps its id", whatever the file is called:
\* in a file of another kind it gets a new one.
RescanKeepsEveryIdentity ==
    phase = "persist" /\ calm /\ whole =>
        \A s \in Rows(at) : DOMAIN sub # {} => DOMAIN sub = {s}

\* "so the store ends holding exactly the new snapshot".
FinalizeIsExact == phase = "done" /\ alone => Whole
=============================================================================
