--------------------------- MODULE SymbolIdentity ---------------------------
(***************************************************************************)
(* How the declarations of one source file keep their entity ids from scan *)
(* to scan.  A scan mints an id for each declaration from its name and its *)
(* line, reconcile_identity carries the stored ids over to the ones it     *)
(* recognises, and evaluate_snapshot rejects a snapshot in which two       *)
(* entities share an id, so that the stored one stays.  Between scans the  *)
(* file changes in any way, and the semantic lane adds summaries.          *)
(*                                                                         *)
(* reconcile_identity is one action per declaration and phase, as its      *)
(* loops are.  It looks only at the declarations of files of kind File,    *)
(* and a file is of another kind because of its name.                      *)
(***************************************************************************)
EXTENDS Naturals, Sequences, FiniteSets

CONSTANTS
    Name,       \* names of declarations
    Label,      \* constructs: the structural fingerprint of a declaration
    Kind,       \* Kind[l]: the entity kind of construct l
    MaxLine,    \* bound: lines of the file
    MaxDecls,   \* bound: declarations in the file
    Texts,      \* bound: what a parser may find in the file
    MaxSummaries, \* bound: entities with a summary at a time
    Orders      \* bound: ways the ids may sort, as functions from ids to ranks

Line == 1..MaxLine
Decl == [name : Name, label : Label, line : Line]

\* The key an id is hashed from; the file is the same for all.
Id == [name : Name, line : Line, occurrence : 0..MaxDecls]

ASSUME BoundsAssumption == MaxLine \in Nat /\ MaxDecls \in Nat /\ MaxSummaries \in Nat
ASSUME KindAssumption == Label \subseteq DOMAIN Kind

\* Hashing puts the ids in an order that has nothing to do with the text.
ASSUME OrdersAssumption ==
    \A rank \in Orders : /\ rank \in [Id -> Nat]
                         /\ \A x, y \in Id : rank[x] = rank[y] => x = y

\* The entity of a declaration: "summary" says whether it has one.
Entity == [id : Id, decl : Decl, summary : BOOLEAN]

\* file_kind: a name with "test" or "spec" in it makes a file a Test, one with the
\* ending of data or of a picture a Resource; all are parsed alike.
FileKind == {"File", "Test", "Resource"}

\* Declarations top to bottom.
Text == {t \in UNION {[1..n -> Decl] : n \in 0..MaxDecls} :
            \A i, j \in DOMAIN t : i < j => t[i].line <= t[j].line}

ASSUME TextsAssumption == Texts \subseteq Text

VARIABLES
    store,      \* the stored entities, in the order of the text
    next,       \* the declarations of the text being scanned
    match,      \* match[i]: the stored entity that declaration i is, or 0
    at,         \* the declaration reconcile_identity looks at
    phase,      \* where the scan is
    rank,       \* the order of the ids, never changed
    fileKind,   \* the kind of the file's entity, never changed
    steady      \* whether the stored snapshot repeats the text before it

vars == <<store, next, match, at, phase, rank, fileKind, steady>>

Phases == {"idle", "move", "rename", "finish"}

TypeOK ==
    /\ store \in Seq(Entity)
    /\ next \in Text
    /\ match \in [DOMAIN next -> 0..Len(store)]
    /\ at \in 1..Len(next) + 1
    /\ phase \in Phases
    /\ rank \in Orders
    /\ fileKind \in FileKind
    /\ steady \in BOOLEAN

Init ==
    /\ store = <<>> /\ next = <<>> /\ match = <<>>
    /\ at = 1 /\ phase = "idle"
    /\ rank \in Orders
    /\ fileKind \in FileKind
    /\ steady = FALSE

-----------------------------------------------------------------------------

\* A mutant: declarations of one name on one line get the same id.
FreshWithoutOccurrence(i) ==
    [name |-> next[i].name, line |-> next[i].line, occurrence |-> 0]

\* The declarations before i that share its name and line.
Earlier(i) == {j \in 1..i - 1 : /\ next[j].name = next[i].name
                                /\ next[j].line = next[i].line}

\* symbol_entity_id, with a suffix that counts them.
Fresh(i) ==
    [name |-> next[i].name, line |-> next[i].line,
     occurrence |-> Cardinality(Earlier(i))]

Consumed == {match[i] : i \in DOMAIN next}
Free == DOMAIN store \ Consumed

\* symbols: the declarations whose parent is an entity of kind File.
Reconciled == fileKind = "File"

\* A mutant: what was matched in the last scan is not forgotten.
ParseKeepingMatches(t) ==
    /\ phase = "idle"
    /\ next' = t
    /\ at' = 1 /\ phase' = "move"
    /\ UNCHANGED <<store, match, rank, fileKind, steady>>

\* The file is read and parsed.
Parse(t) ==
    /\ phase = "idle"
    /\ next' = t
    /\ match' = [i \in DOMAIN t |-> 0]
    /\ at' = 1 /\ phase' = "move"
    /\ UNCHANGED <<store, rank, fileKind, steady>>

\* The phase goes on to the next declaration, or the next phase starts.
Proceed(after) ==
    /\ IF at < Len(next) THEN at' = at + 1 /\ phase' = phase
                         ELSE at' = 1 /\ phase' = after
    /\ UNCHANGED <<store, next, rank, fileKind, steady>>

\* A mutant: a declaration is looked for where it was.
SamePlace(p) == /\ store[p].decl.name = next[at].name
                /\ store[p].decl.line = next[at].line

SameName(p) == /\ store[p].decl.name = next[at].name
               /\ Kind[store[p].decl.label] = Kind[next[at].label]

\* A mutant: a stored entity is not used up by the declaration it went to.
MoveAgain ==
    /\ phase = "move" /\ Reconciled /\ at \in DOMAIN next
    /\ LET found == {p \in DOMAIN store : SameName(p)} IN
          IF found = {} THEN UNCHANGED match
          ELSE \E p \in found :
                  /\ \A q \in found : rank[store[p].id] <= rank[store[q].id]
                  /\ match' = [match EXCEPT ![at] = p]
    /\ Proceed("rename")

\* Phase 1: the first stored entity of the same name and kind, in the order in
\* which the store hands them out.
Move ==
    /\ phase = "move" /\ Reconciled /\ at \in DOMAIN next
    /\ LET found == {p \in Free : SameName(p)} IN
          IF found = {} THEN UNCHANGED match
          ELSE \E p \in found :
                  /\ \A q \in found : rank[store[p].id] <= rank[store[q].id]
                  /\ match' = [match EXCEPT ![at] = p]
    /\ Proceed("rename")

SameShape(p) == /\ Kind[store[p].decl.label] = Kind[next[at].label]
                /\ store[p].decl.label = next[at].label

\* Phase 2: the only stored entity left of the same structure, for a
\* declaration that phase 1 found nothing for.
Rename ==
    /\ phase = "rename" /\ Reconciled /\ at \in DOMAIN next
    /\ LET found == {p \in Free : SameShape(p)} IN
          IF match[at] = 0 /\ Cardinality(found) = 1
          THEN match' = [match EXCEPT ![at] = CHOOSE p \in found : TRUE]
          ELSE UNCHANGED match
    /\ Proceed("finish")

\* A file without declarations, or of another kind, takes no step in a phase.
Skip ==
    /\ phase \in {"move", "rename"} /\ (next = <<>> \/ ~Reconciled)
    /\ phase' = "finish"
    /\ UNCHANGED <<store, next, match, at, rank, fileKind, steady>>

\* apply_remap.
IdOf(i) == IF match[i] = 0 THEN Fresh(i) ELSE store[match[i]].id

\* A mutant: summaries are not carried forward.
CarryNothing(id) == FALSE

\* The summaries of the stored entity with this id, if there is one.
Carried(id) == \E p \in DOMAIN store : store[p].id = id /\ store[p].summary

Result == [i \in DOMAIN next |->
             [id |-> IdOf(i), decl |-> next[i], summary |-> Carried(IdOf(i))]]

Distinct == \A i, j \in DOMAIN next : i # j => IdOf(i) # IdOf(j)

SameText == Len(next) = Len(store) /\ \A i \in DOMAIN next : next[i] = store[i].decl

\* evaluate_snapshot accepts the hierarchy and the snapshot is stored ...
Accept ==
    /\ phase = "finish" /\ Distinct
    /\ store' = Result
    /\ steady' = SameText
    /\ next' = <<>> /\ match' = <<>> /\ at' = 1 /\ phase' = "idle"
    /\ UNCHANGED <<rank, fileKind>>

\* ... or a duplicate id ends the scan with an error.
Reject ==
    /\ phase = "finish" /\ ~Distinct
    /\ next' = <<>> /\ match' = <<>> /\ at' = 1 /\ phase' = "idle"
    /\ UNCHANGED <<store, rank, fileKind, steady>>

\* The semantic lane gives a declaration its summary.
Summarise(p) ==
    /\ phase = "idle" /\ ~store[p].summary
    /\ Cardinality({q \in DOMAIN store : store[q].summary}) < MaxSummaries
    /\ store' = [store EXCEPT ![p].summary = TRUE]
    /\ UNCHANGED <<next, match, at, phase, rank, fileKind, steady>>

Next ==
    \/ \E t \in Texts : Parse(t)
    \/ Move \/ Rename \/ Skip \/ Accept \/ Reject
    \/ \E p \in DOMAIN store : Summarise(p)

Spec == Init /\ [][Next]_vars

-----------------------------------------------------------------------------
(* What must hold.                                                         *)

\* No stored identity is given to two declarations: "it never silently merges
\* stable identities", as far as carrying ids over goes.
CarriedOnce ==
    \A i, j \in DOMAIN next : i # j /\ match[i] # 0 => match[i] # match[j]

\* A scan is rejected for one reason only: a declaration that was recognised as
\* nothing stored mints the very id that another one carries on.
RejectedOnlyForReuse ==
    phase = "finish" /\ ~Distinct =>
        \E i, j \in DOMAIN next : /\ match[i] = 0 /\ match[j] # 0
                                  /\ Fresh(i) = store[match[j]].id

\* How many of these entities have the name and kind of this declaration.
Alike(entities, d) ==
    Cardinality({i \in DOMAIN entities :
                    /\ entities[i].decl.name = d.name
                    /\ Kind[entities[i].decl.label] = Kind[d.label]})

\* In a file of kind File, a declaration that is the only one of its name and kind
\* before and after a scan keeps its id and its summary, wherever it has moved and
\* whatever happened to the others.
MovedKeepsIdentity ==
    [][\A p \in DOMAIN store : \A i \in DOMAIN store' :
          /\ fileKind = "File"
          /\ store[p].decl.name = store'[i].decl.name
          /\ Kind[store[p].decl.label] = Kind[store'[i].decl.label]
          /\ Alike(store, store[p].decl) = 1
          /\ Alike(store', store[p].decl) = 1
          => /\ store'[i].id = store[p].id
             /\ store[p].summary => store'[i].summary]_vars

\* Scanning one text again and again settles after one repetition: from then on
\* neither an id nor a summary moves, even among declarations of one name.
RepetitionSettles ==
    steady /\ SameText /\ phase = "finish" => Distinct /\ Result = store

-----------------------------------------------------------------------------
(* What the comments of the code promise and the code does not keep.        *)

\* "same name and kind (a move -- only the line changed): id preserved", whatever
\* the file is called.
MovesKeepIdsEverywhere ==
    [][\A p \in DOMAIN store : \A i \in DOMAIN store' :
          /\ store[p].decl.name = store'[i].decl.name
          /\ Kind[store[p].decl.label] = Kind[store'[i].decl.label]
          /\ Alike(store, store[p].decl) = 1
          /\ Alike(store', store[p].decl) = 1
          => store'[i].id = store[p].id]_vars

\* "every id is unique": no text makes a scan mint a duplicate.
IdsAreUnique == phase = "finish" => Distinct

\* "the same file, symbol and line always yield the same entity id, so a rescan
\* is stable".
RescanIsStable ==
    phase = "finish" /\ SameText => \A i \in DOMAIN next : IdOf(i) = store[i].id
=============================================================================
