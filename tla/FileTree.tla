------------------------------ MODULE FileTree ------------------------------
(***************************************************************************)
(* The scan of a project's tree and what it leaves behind, in the order in *)
(* which it is left: the identity registry, the store, the root ATLAS.idx  *)
(* and one ATLAS.idx for each folder.  A scan walks the tree within its    *)
(* configured scope and limits, gives files, their directories (planets)   *)
(* and the top-level directories (systems) the ids that the registry has   *)
(* for them or for what they were before a move, and builds entities and   *)
(* edges.  It may die between any two writes; the database may be deleted  *)
(* and rebuilt from the root ATLAS.idx.                                    *)
(*                                                                         *)
(* A hash is what it is the hash of.  Declarations, evidence and Green are *)
(* in other modules.                                                       *)
(***************************************************************************)
EXTENDS Naturals, Sequences, FiniteSets, SequencesExt

CONSTANTS
    Files,          \* paths of files
    WalkOrder,      \* the order in which a walk meets them
    Content,        \* bound: what may be in a file
    PlanetOf,       \* the directory of a file
    Path,           \* for each directory, those that lead to it and itself, without the root "."
    SystemOf,       \* the top-level directory of a directory
    Above,          \* the parent of a directory, or "." at the top
    Size,           \* the length of a content
    Stem,           \* the language of a file and its name without its extension
    Imports,        \* the names in the import lines of a content
    Configs,        \* bound: what config.toml may say
    MaxEdits,       \* bound: changes of the tree and of config.toml
    MaxFaults       \* bound: scans that die, databases that are deleted

Planets == {PlanetOf[f] : f \in Files}
Systems == {SystemOf[p] : p \in Planets}

\* ScanConfig: the include list (<<>> is the whole root), the directories that the walk
\* does not enter, by their names in `exclude` or in the built-in list, as *.noindex or as a
\* virtual environment, and three ceilings.  0 is none for the last two.
ASSUME FilesAssumption ==
    WalkOrder \in Seq(Files) /\ ToSet(WalkOrder) = Files /\ IsInjective(WalkOrder)
Default == [include |-> <<>>, skip |-> {}, maxFileBytes |-> 1048576, maxFiles |-> 0, maxBytes |-> 0]

ASSUME ConfigsAssumption == Default \in Configs /\
    Configs \subseteq [include : Seq(DOMAIN Path), skip : SUBSET DOMAIN Path,
                       maxFileBytes : Nat, maxFiles : Nat, maxBytes : Nat]
ASSUME BoundsAssumption == MaxEdits \in Nat /\ MaxFaults \in Nat

None == "none"
Nothing == [is |-> "nothing"]   \* no snapshot, no ATLAS.idx

VARIABLES
    tree,       \* the content of each file, or None
    locked,     \* files and directories that cannot be read
    config,     \* config.toml
    registry,   \* .creature/identities.json: its records and the snapshots (none or one) they are of
    store,      \* the SQLite store: a snapshot or Nothing
    root,       \* the root ATLAS.idx, as what a rebuild makes of it, or Nothing
    folder,     \* for each directory, its ATLAS.idx or Nothing
    at,         \* where the scan is
    index,      \* the ScanIndex in the memory of the scan
    spent,      \* edits and faults so far
    \* history
    kept,       \* files that every scan has found since the one that is in the store, and
                \* since the one that is in the root ATLAS.idx
    steady      \* whether the tree and config.toml are as the scan read them

world == <<tree, locked, config>>
disk == <<registry, store, root, folder>>
vars == <<world, disk, at, index, spent, kept, steady>>

-----------------------------------------------------------------------------
(* collect_files.                                                          *)

\* The entries of the include list, or the root.
Scopes == IF config.include = <<>> THEN <<".">> ELSE config.include

\* From an entry the walk enters the directories on the way to p; what it would skip below
\* another directory, it does not skip as an entry.
Enters(entry, p) ==
    /\ entry = "." \/ entry \in Path[p]
    /\ (Path[p] \ Path[entry]) \intersect config.skip = {}

\* Nor does it come past a directory that cannot be read, the entry itself among them.
Reads(entry, p) == ({entry, p} \union (Path[p] \ Path[entry])) \intersect locked = {}

\* A file that is too large is passed over, before anything is counted.
Fits(f) == tree[f] # None /\ Size[tree[f]] <= config.maxFileBytes

\* The walk meets a file below an entry at a place of its order, and below two entries
\* twice.
FileAt(m) == WalkOrder[m[2]]
Offered ==
    {m \in (DOMAIN Scopes) \X (DOMAIN WalkOrder) :
        LET f == FileAt(m)
        IN  /\ Enters(Scopes[m[1]], PlanetOf[f]) /\ Reads(Scopes[m[1]], PlanetOf[f])
            /\ Fits(f)}

Precedes(k, m) == k[1] < m[1] \/ (k[1] = m[1] /\ k[2] < m[2])
UpTo(m) == {k \in Offered : ~Precedes(m, k)}

Lengths == [m \in Offered |-> Size[tree[FileAt(m)]]]
Bytes(met) == SumFunctionOnSet(Lengths, met)

WithinLimits(met) ==
    /\ config.maxFiles = 0 \/ Cardinality(met) <= config.maxFiles
    /\ config.maxBytes = 0 \/ Bytes(met) <= config.maxBytes

\* The walk stops at the first file that would pass a ceiling.
Taken == {m \in Offered : WithinLimits(UpTo(m))}

\* A mutant: the walk looks at the number of files alone.
TruncatedByCount(taken) == config.maxFiles # 0 /\ Cardinality(taken) >= config.maxFiles

\* WalkOutcome.
Truncated(taken) == taken # Offered

-----------------------------------------------------------------------------
(* Identities.                                                             *)

Record(kind, path, id, print) == [kind |-> kind, path |-> path, id |-> id, print |-> print]

\* The hash of a kind and a path.
StableId(kind, path) == <<kind, path>>

\* A mutant: what is still at its path may have moved too.
ReconcileCopies(previous, kind, path, print, current) ==
    LET same == {r \in previous : r.kind = kind /\ r.path = path}
        moved == {r \in previous : r.kind = kind /\ r.print = print}
    IN  IF same # {} THEN (CHOOSE r \in same : TRUE).id
        ELSE IF Cardinality(moved) = 1 THEN (CHOOSE r \in moved : TRUE).id
        ELSE StableId(kind, path)

\* A mutant: a path that is known is looked for among what has moved first.
ReconcileMovesFirst(previous, kind, path, print, current) ==
    LET same == {r \in previous : r.kind = kind /\ r.path = path}
        moved == {r \in previous :
                    r.kind = kind /\ r.print = print /\ r.path \notin current}
    IN  IF Cardinality(moved) = 1 THEN (CHOOSE r \in moved : TRUE).id
        ELSE IF same # {} THEN (CHOOSE r \in same : TRUE).id
        ELSE StableId(kind, path)

ReconcileId(previous, kind, path, print, current) ==
    LET same == {r \in previous : r.kind = kind /\ r.path = path}
        moved == {r \in previous :
                    r.kind = kind /\ r.print = print /\ r.path \notin current}
    IN  IF same # {} THEN (CHOOSE r \in same : TRUE).id
        ELSE IF Cardinality(moved) = 1 THEN (CHOOSE r \in moved : TRUE).id
        ELSE StableId(kind, path)

\* A mutant: the files of the whole system.
FilesInSystem(i, p) == {f \in i.files : SystemOf[PlanetOf[f]] = SystemOf[p]}

FilesIn(i, p) == {f \in i.files : PlanetOf[f] = p}
PlanetsIn(files) == {PlanetOf[f] : f \in files}
SystemsIn(files) == {SystemOf[PlanetOf[f]] : f \in files}

\* scan_index: files first, for the ids of its files are the print of a directory.
ScanIndex(taken) ==
    LET files == {FileAt(m) : m \in taken}
        fileId == [f \in files |-> ReconcileId(registry.records, "file", f, tree[f], files)]
        planetPrint == [p \in PlanetsIn(files) |->
                            {fileId[f] : f \in {g \in files : PlanetOf[g] = p}}]
        systemPrint == [s \in SystemsIn(files) |->
                            {fileId[f] : f \in {g \in files : SystemOf[PlanetOf[g]] = s}}]
        ids(kind, print) == [x \in DOMAIN print |->
            ReconcileId(registry.records, kind, x, print[x], DOMAIN print)]
    IN  [files |-> files,
         twice |-> \E k, m \in taken : k # m /\ FileAt(k) = FileAt(m),
         print |-> [f \in files |-> tree[f]],
         file |-> fileId,
         planetPrint |-> planetPrint, planet |-> ids("planet", planetPrint),
         systemPrint |-> systemPrint, system |-> ids("system", systemPrint),
         truncated |-> Truncated(taken)]

\* A mutant: files are recorded under the hashes of their paths.
RecordsOfPaths(i) ==
    {Record("file", f, StableId("file", f), i.print[f]) : f \in i.files}
    \union {Record("planet", p, i.planet[p], i.planetPrint[p]) : p \in DOMAIN i.planet}
    \union {Record("system", s, i.system[s], i.systemPrint[s]) : s \in DOMAIN i.system}

\* write_registry: a record for every file, planet and system, of this scan alone.
RecordsOf(i) ==
    {Record("file", f, i.file[f], i.print[f]) : f \in i.files}
    \union {Record("planet", p, i.planet[p], i.planetPrint[p]) : p \in DOMAIN i.planet}
    \union {Record("system", s, i.system[s], i.systemPrint[s]) : s \in DOMAIN i.system}

-----------------------------------------------------------------------------
(* Entities and edges.                                                     *)

Entity(kind, id, path, parent, print) ==
    [kind |-> kind, id |-> id, path |-> path, parent |-> parent, print |-> print]
Holds(a, b) == [kind |-> "contains", from |-> a, to |-> b]
Import(a, b) == [kind |-> "imports", from |-> a, to |-> b]

NoId == StableId(None, None)
Universe == StableId("universe", None)
Galaxy == StableId("galaxy", None)

\* build_roots.
Roots == {Entity("universe", Universe, None, NoId, None),
          Entity("galaxy", Galaxy, None, Universe, None)}

SystemEntity(i, s) == Entity("system", i.system[s], s, Galaxy, None)
\* A mutant: under the hash of the system's path.
PlanetUnderStableId(i, p) ==
    Entity("planet", i.planet[p], p, StableId("system", SystemOf[p]), None)

PlanetEntity(i, p) == Entity("planet", i.planet[p], p, i.system[SystemOf[p]], None)
Moon(i, f) == Entity("file", i.file[f], f, i.planet[PlanetOf[f]], i.print[f])

\* import_edges: an import names files of its own language, a file that is no source
\* imports nothing, and a stem that several files have is nobody's.
ImportEdges(i) ==
    LET owners(stem) == {g \in i.files : Stem[g] = stem}
        imported(f) == {g \in i.files :
            /\ Stem[f].language # None /\ Stem[g].language = Stem[f].language
            /\ Stem[g].name \in Imports[i.print[f]]
            /\ owners(Stem[g]) = {g} /\ i.file[g] # i.file[f]}
    IN  UNION {{Import(i.file[f], i.file[g]) : g \in imported(f)} : f \in i.files}

\* build_snapshot goes through the files in their order and makes a group for the first of
\* them whose group has an id that no group before it has.
GroupAt(i, m) ==
    LET p == PlanetOf[WalkOrder[m[1]]]
    IN  IF m[2] = 1 THEN SystemEntity(i, SystemOf[p]) ELSE PlanetEntity(i, p)

GroupsMade(i) ==
    LET places == {n \in DOMAIN WalkOrder : WalkOrder[n] \in i.files} \X {1, 2}
        first(m) == \A k \in places : Precedes(k, m) => GroupAt(i, k).id # GroupAt(i, m).id
    IN  {GroupAt(i, m) : m \in {k \in places : first(k)}}

Built(i) ==
    LET made == GroupsMade(i)
    IN  [id |-> i.print,
         entities |-> Roots \union made \union {Moon(i, f) : f \in i.files},
         edges |-> {Holds(Universe, Galaxy)}
                   \union {Holds(e.parent, e.id) : e \in made}
                   \union {Holds(i.planet[PlanetOf[f]], i.file[f]) : f \in i.files}
                   \union ImportEdges(i),
         doubt |-> i.truncated]

\* build_directory_entities, for a scan that goes a directory at a time.
Slice(i, p) ==
    LET s == SystemOf[p]
    IN  [entities |-> {SystemEntity(i, s), PlanetEntity(i, p)}
                      \union {Moon(i, f) : f \in FilesIn(i, p)},
         edges |-> {Holds(Galaxy, i.system[s]), Holds(i.system[s], i.planet[p])}
                   \union {Holds(i.planet[p], i.file[f]) : f \in FilesIn(i, p)}]

\* Two files of one id; two groups of one id are one entity before anyone looks.
Duplicate(i) == i.twice \/ \E f, g \in i.files : f # g /\ i.file[f] = i.file[g]

-----------------------------------------------------------------------------
(* Projections.                                                            *)

\* decode_atlas_idx of the root's ATLAS.idx: @uncertainty is not read back.
Portable(s) == [s EXCEPT !.doubt = FALSE]

FoldersOf(s) == {e.path : e \in {x \in s.entities : x.kind = "planet"}}

\* snapshot_with_inferred_parents and the @child records of a folder's ATLAS.idx.
ChildrenOf(s, p) == {q \in FoldersOf(s) : Above[q] = p /\ q # p}
FolderIdx(s, p) == [id |-> s.id, children |-> ChildrenOf(s, p)]

-----------------------------------------------------------------------------
(* The steps of a scan.                                                    *)

NoIndex == [files |-> {}, twice |-> FALSE, print |-> <<>>, file |-> <<>>,
            planetPrint |-> <<>>, planet |-> <<>>, systemPrint |-> <<>>, system |-> <<>>,
            truncated |-> FALSE]

Idle == at = [stage |-> "idle", left |-> {}]
Stage(name) == at.stage = name
Move(name, left) == at' = [stage |-> name, left |-> left]

\* init_project writes the default configuration.
Init ==
    /\ tree \in [Files -> Content \union {None}] /\ locked = {} /\ config = Default
    /\ registry = [records |-> {}, last |-> {}]
    /\ store = Nothing /\ root = Nothing
    /\ folder = [p \in Planets |-> Nothing]
    /\ at = [stage |-> "idle", left |-> {}] /\ index = NoIndex
    /\ spent = [edits |-> 0, faults |-> 0]
    /\ kept = [t \in {"store", "root"} |-> {}] /\ steady = FALSE

\* A file of the walk that cannot be read fails the scan.
Walk ==
    /\ Idle
    /\ {FileAt(m) : m \in Taken} \intersect locked = {}
    /\ index' = ScanIndex(Taken)
    /\ Move("walked", {})
    /\ steady' = TRUE
    /\ UNCHANGED <<world, disk, spent, kept>>

\* evaluate_snapshot refuses two entities of one id, before anything is written.
Refuse ==
    /\ Stage("walked") /\ Duplicate(index)
    /\ Move("idle", {}) /\ index' = NoIndex
    /\ UNCHANGED <<world, disk, spent, kept, steady>>

WriteRegistry ==
    /\ Stage("walked") /\ ~Duplicate(index)
    /\ registry' = [records |-> RecordsOf(index), last |-> {index.print}]
    /\ kept' = [t \in {"store", "root"} |-> kept[t] \intersect index.files]
    /\ Move("registered", {})
    /\ UNCHANGED <<world, store, root, folder, index, spent, steady>>

ReplaceSnapshot ==
    /\ Stage("registered")
    /\ store' = Built(index)
    /\ kept' = [kept EXCEPT !.store = index.files]
    /\ Move("stored", {})
    /\ UNCHANGED <<world, registry, root, folder, index, spent, steady>>

\* write_projections: the root, then the folders in their order.
WriteRoot ==
    /\ Stage("stored")
    /\ root' = Portable(store)
    /\ kept' = [kept EXCEPT !.root = kept.store]
    /\ Move("rooted", FoldersOf(store))
    /\ UNCHANGED <<world, registry, store, folder, index, spent, steady>>

WriteFolder ==
    /\ Stage("rooted")
    /\ \E n \in DOMAIN WalkOrder :
           LET p == PlanetOf[WalkOrder[n]]
           IN  /\ p \in at.left
               /\ \A m \in 1..(n - 1) : PlanetOf[WalkOrder[m]] \notin at.left
               /\ folder' = [folder EXCEPT ![p] = FolderIdx(store, p)]
               /\ Move("rooted", at.left \ {p})
    /\ UNCHANGED <<world, registry, store, root, index, spent, kept, steady>>

Finish ==
    /\ Stage("rooted") /\ at.left = {}
    /\ Move("idle", {}) /\ index' = NoIndex
    /\ UNCHANGED <<world, disk, spent, kept, steady>>

\* rebuild_repository_from_portable.
Rebuild ==
    /\ Idle /\ root # Nothing
    /\ store' = root
    /\ kept' = [kept EXCEPT !.store = kept.root]
    /\ UNCHANGED <<world, registry, root, folder, at, index, spent, steady>>

-----------------------------------------------------------------------------
(* The rest of the world.                                                  *)

Edited ==
    /\ spent.edits < MaxEdits /\ spent' = [spent EXCEPT !.edits = @ + 1]
    /\ steady' = FALSE
    /\ UNCHANGED <<disk, at, index, kept>>

Write ==
    /\ \E f \in Files, c \in Content : tree[f] # c /\ tree' = [tree EXCEPT ![f] = c]
    /\ Edited /\ UNCHANGED <<locked, config>>

Rename ==
    /\ \E f, g \in Files : f # g /\ tree[f] # None
                           /\ tree' = [tree EXCEPT ![g] = tree[f], ![f] = None]
    /\ Edited /\ UNCHANGED <<locked, config>>

Delete ==
    /\ \E f \in Files : tree[f] # None /\ tree' = [tree EXCEPT ![f] = None]
    /\ Edited /\ UNCHANGED <<locked, config>>

Lock ==
    /\ \E x \in Files \union Planets : locked' = (locked \union {x}) \ (locked \intersect {x})
    /\ Edited /\ UNCHANGED <<tree, config>>

Configure ==
    /\ config' \in Configs \ {config}
    /\ Edited /\ UNCHANGED <<tree, locked>>

Fault == spent.faults < MaxFaults /\ spent' = [spent EXCEPT !.faults = @ + 1]

\* The process dies, or a step after the registry fails: parsing, a commit, a write.
Die ==
    /\ ~Idle /\ Fault
    /\ Move("idle", {}) /\ index' = NoIndex
    /\ UNCHANGED <<world, disk, kept, steady>>

DeleteDatabase ==
    /\ Idle /\ store # Nothing /\ Fault
    /\ store' = Nothing /\ kept' = [kept EXCEPT !.store = {}]
    /\ UNCHANGED <<world, registry, root, folder, at, index, steady>>

Next ==
    \/ Walk \/ Refuse \/ WriteRegistry \/ ReplaceSnapshot \/ WriteRoot \/ WriteFolder \/ Finish
    \/ Rebuild \/ Write \/ Rename \/ Delete \/ Lock \/ Configure \/ Die \/ DeleteDatabase

Spec == Init /\ [][Next]_vars

-----------------------------------------------------------------------------
(* What holds.                                                             *)

Kinds == {"file", "planet", "system"}
Ids(i, kind) == CASE kind = "file" -> i.file [] kind = "planet" -> i.planet [] OTHER -> i.system
Prints(i, kind) ==
    CASE kind = "file" -> i.print [] kind = "planet" -> i.planetPrint [] OTHER -> i.systemPrint
Recorded(kind) == {r \in registry.records : r.kind = kind}
Known(kind, x) == \E r \in Recorded(kind) : r.path = x
FilesOf(s) == {e \in s.entities : e.kind = "file"}

TypeOK ==
    /\ tree \in [Files -> Content \union {None}]
    /\ locked \subseteq Files \union Planets /\ config \in Configs
    /\ \A r \in registry.records :
        r.kind \in Kinds /\ r.path \in Files \union Planets \union Systems /\ r.id[1] = r.kind
    /\ \A s \in {store, root} \ {Nothing} :
        /\ \A e \in s.entities \ Roots : \E up \in s.entities : up.id = e.parent
        /\ \A c \in s.edges : {c.from, c.to} \subseteq {e.id : e \in s.entities}
    /\ \A p \in Planets : folder[p] # Nothing => folder[p].children \subseteq Planets \ {p}
    /\ at.stage \in {"idle", "walked", "registered", "stored", "rooted"}
    /\ at.left \subseteq Planets /\ (at.left # {} => Stage("rooted"))
    /\ index.files \subseteq Files /\ (Idle => index = NoIndex)
    /\ spent.edits \in 0..MaxEdits /\ spent.faults \in 0..MaxFaults
    /\ kept \in [{"store", "root"} -> SUBSET Files] /\ steady \in BOOLEAN

\* Whatever is moved, copied, deleted and made again over any number of scans, two files,
\* directories or systems come to share an id in three ways only: both are new and are
\* what one that is gone was; one is new at a path whose hash another carries on; or the
\* registry has two of that id, which it never has of files.
SharedOnlyByReuse ==
    Stage("walked") => \A kind \in Kinds :
        LET id == Ids(index, kind)
            fresh(x) == ~Known(kind, x) /\ id[x] = StableId(kind, x)
        IN  \A x, y \in DOMAIN id : x # y /\ id[x] = id[y] =>
                \/ ~Known(kind, x) /\ ~Known(kind, y)
                   /\ Prints(index, kind)[x] = Prints(index, kind)[y]
                \/ fresh(x) \/ fresh(y)
                \/ /\ kind # "file"
                   /\ \E r, s \in Recorded(kind) : r # s /\ r.id = id[x] /\ s.id = id[x]

\* A file that every scan finds keeps in the store the id that it had there, though scans
\* die after the registry is written and the store is rebuilt from an older ATLAS.idx.
FoundKeepTheirIds ==
    store' # store /\ store # Nothing /\ store' # Nothing /\ Stage("registered") =>
        \A e \in FilesOf(store), n \in FilesOf(store') :
            e.path = n.path /\ e.path \in kept.store => e.id = n.id

\* A scan gives the id of the one file of a content that is gone to the new files of it.
MovedKeepTheirIds ==
    registry' # registry => \A r \in Recorded("file") :
        LET gone == {q \in Recorded("file") : q.print = r.print /\ q.path \notin index.files}
            new == {f \in index.files : ~Known("file", f) /\ index.print[f] = r.print}
        IN  gone = {r} => \A f \in new : index.file[f] = r.id

\* An id follows its file: by its path while it is found, by its content when it is moved.
IdentityFollows == [][FoundKeepTheirIds /\ MovedKeepTheirIds]_vars

\* A scan of files that keep still, whose directories can all be read, misses none that
\* fits and that it enters the directories of, unless it says so.  Nothing is said here of
\* files above max_file_bytes and in directories that are skipped: those are missing, and
\* the Atlas does not say so.
ShortIsMarked ==
    at.stage \in {"stored", "rooted"} /\ steady /\ locked = {} /\ ~store.doubt =>
        {e.path : e \in FilesOf(store)} =
            {f \in Files : Fits(f) /\ \E n \in DOMAIN Scopes : Enters(Scopes[n], PlanetOf[f])}

\* A pass that has come to its end leaves one snapshot everywhere: the registry has the
\* store's ids, a rebuild would restore the store, and every folder of the Atlas has an
\* ATLAS.idx of this snapshot, whose pointers lead to others of this snapshot.
PassAgrees ==
    Stage("rooted") /\ at.left = {} =>
        /\ registry.last = {store.id}
        /\ {<<r.path, r.id>> : r \in Recorded("file")} = {<<e.path, e.id>> : e \in FilesOf(store)}
        /\ root = [store EXCEPT !.doubt = FALSE]
        /\ \A p \in FoldersOf(store) :
            /\ folder[p] # Nothing /\ folder[p].id = store.id
            /\ \A q \in folder[p].children : folder[q] # Nothing /\ folder[q].id = store.id

\* The directories that scan-layered builds one at a time make, with the roots and the
\* imports, what a scan builds at once, if no two of them share an id.
SlicesMakeTheWhole ==
    Stage("walked") /\ (\A kind \in Kinds : IsInjective(Ids(index, kind))) =>
        LET slices == {Slice(index, p) : p \in DOMAIN index.planet}
        IN  /\ Built(index).entities = Roots \union UNION {s.entities : s \in slices}
            /\ Built(index).edges = {Holds(Universe, Galaxy)} \union ImportEdges(index)
                                    \union UNION {s.edges : s \in slices}

-----------------------------------------------------------------------------
(* What does not.                                                          *)

\* docs/architecture.md: "Stable UUID identities are canonical".
NoIdIsShared == \A kind \in Kinds : IsInjective(Ids(index, kind))

\* config.rs:7-8: a limit truncates and says so; max_file_bytes does not.  No run checks it,
\* TLC shows it violated.
EveryLimitIsMarked ==
    at.stage \in {"stored", "rooted"} /\ steady /\ locked = {} /\ ~store.doubt =>
        {e.path : e \in FilesOf(store)} =
            {f \in Files : tree[f] # None
                           /\ \E n \in DOMAIN Scopes : Enters(Scopes[n], PlanetOf[f])}
=============================================================================
