--------------------------- MODULE FileTreeProofs ---------------------------
(***************************************************************************)
(* Proofs about FileTree, for any tree, walk, configuration and number of  *)
(* edits and faults.  The invariant follows a scan from stage to stage:    *)
(* what its index says of the tree as long as the tree keeps still and of  *)
(* the registry until that is written, and what the registry, the store    *)
(* and the projections have of the index from then on; and between scans,  *)
(* that the registry has the ids of the files that were never missed.      *)
(***************************************************************************)
EXTENDS FileTree, FiniteSetTheorems, WellFoundedInduction, TLAPS

Stages == {"idle", "walked", "registered", "stored", "rooted"}

IdsOf(kind, ids) == \A x \in DOMAIN ids : ids[x][1] = kind

IndexShaped(i) ==
    /\ i.files \subseteq Files
    /\ DOMAIN i.print = i.files /\ DOMAIN i.file = i.files
    /\ DOMAIN i.planetPrint = PlanetsIn(i.files) /\ DOMAIN i.planet = PlanetsIn(i.files)
    /\ DOMAIN i.systemPrint = SystemsIn(i.files) /\ DOMAIN i.system = SystemsIn(i.files)
    /\ IdsOf("file", i.file) /\ IdsOf("planet", i.planet) /\ IdsOf("system", i.system)

IsRecord(r) ==
    r.kind \in Kinds /\ r.path \in Files \union Planets \union Systems /\ r.id[1] = r.kind

(* The tree, the scan and what a scan reads and writes. *)
Shape ==
    /\ tree \in [Files -> Content \union {None}]
    /\ locked \subseteq Files \union Planets /\ config \in Configs
    /\ at \in [stage : Stages, left : SUBSET Planets]
    /\ at.left # {} => Stage("rooted")
    /\ spent \in [edits : 0..MaxEdits, faults : 0..MaxFaults]
    /\ kept \in [{"store", "root"} -> SUBSET Files] /\ steady \in BOOLEAN
    /\ IndexShaped(index) /\ (Idle => index = NoIndex)
    /\ \A r \in registry.records : IsRecord(r)

(* An Atlas leads from every entity and edge to entities of it. *)
Closed(s) ==
    /\ \A e \in s.entities \ Roots : \E up \in s.entities : up.id = e.parent
    /\ \A c \in s.edges : {c.from, c.to} \subseteq {e.id : e \in s.entities}

Snapshots ==
    /\ store # Nothing => Closed(store)
    /\ root # Nothing => Closed(root)
    /\ DOMAIN folder = Planets
    /\ \A p \in Planets : folder[p] # Nothing => folder[p].children \subseteq Planets \ {p}

(* Until the registry is written, the ids of the index are what it gives. *)
Indexed ==
    Stage("walked") => \A kind \in Kinds : \A x \in DOMAIN Ids(index, kind) :
        Ids(index, kind)[x] = ReconcileId(registry.records, kind, x, Prints(index, kind)[x],
                                          DOMAIN Ids(index, kind))

(* As long as the tree keeps still, the index is of the tree. *)
Scanned ==
    ~Idle /\ steady =>
        /\ index.files = {FileAt(m) : m \in Taken}
        /\ index.truncated = Truncated(Taken)

RegistryKeeps ==
    /\ \A r, s \in registry.records : r.kind = s.kind /\ r.path = s.path => r = s
    /\ \A r, s \in Recorded("file") : r.id = s.id => r = s

(* What a scan has written is of its index. *)
Stored ==
    /\ at.stage \in {"registered", "stored", "rooted"} =>
          ~Duplicate(index) /\ registry = [records |-> RecordsOf(index), last |-> {index.print}]
    /\ at.stage \in {"stored", "rooted"} => store = Built(index)
    /\ Stage("rooted") =>
          /\ root = Portable(store)
          /\ \A p \in FoldersOf(store) \ at.left : folder[p] = FolderIdx(store, p)

(* The registry has the ids of the files that every scan has found. *)
KeptIn(files, s) ==
    s # Nothing => \A e \in FilesOf(s) : e.path \in files =>
        \E r \in Recorded("file") : r.path = e.path /\ r.id = e.id

KeptTrue == KeptIn(kept["store"], store) /\ KeptIn(kept["root"], root)

TreeInv ==
    Shape /\ Snapshots /\ Indexed /\ Scanned /\ RegistryKeeps /\ Stored /\ KeptTrue

-----------------------------------------------------------------------------
(* Identities.                                                             *)

\* An id is what the registry has at the path, what the one of its print that is gone had,
\* or the hash of the path.
LEMMA IdIsCarriedOrNew ==
    ASSUME NEW previous, NEW kind, NEW path, NEW print, NEW current, NEW id,
           id = ReconcileId(previous, kind, path, print, current)
    PROVE  \/ \E r \in previous : r.kind = kind /\ r.path = path /\ id = r.id
           \/ /\ \A r \in previous : ~(r.kind = kind /\ r.path = path)
              /\ \/ \E r \in previous :
                       r.kind = kind /\ r.print = print /\ r.path \notin current /\ id = r.id
                 \/ id = StableId(kind, path)
<1> DEFINE same == {r \in previous : r.kind = kind /\ r.path = path}
           moved == {r \in previous : r.kind = kind /\ r.print = print /\ r.path \notin current}
<1>1. id = IF same # {} THEN (CHOOSE r \in same : TRUE).id
           ELSE IF Cardinality(moved) = 1 THEN (CHOOSE r \in moved : TRUE).id
           ELSE StableId(kind, path)
  BY DEF ReconcileId
<1>2. CASE same # {}
  <2>1. (CHOOSE r \in same : TRUE) \in same /\ id = (CHOOSE r \in same : TRUE).id
    BY <1>1, <1>2
  <2> QED
    BY <2>1
<1>3. CASE same = {} /\ Cardinality(moved) = 1
  <2>1. moved # {}
    BY <1>3, FS_EmptySet
  <2>2. (CHOOSE r \in moved : TRUE) \in moved /\ id = (CHOOSE r \in moved : TRUE).id
    BY <1>1, <1>3, <2>1
  <2> QED
    BY <1>3, <2>2
<1>4. CASE same = {} /\ Cardinality(moved) # 1
  BY <1>1, <1>4
<1> QED
  BY <1>2, <1>3, <1>4

\* The registry says what the id at a path is that it has.
LEMMA KnownKeepsItsId ==
    ASSUME NEW previous, NEW r \in previous, NEW print, NEW current,
           \A s \in previous : s.kind = r.kind /\ s.path = r.path => s = r
    PROVE  ReconcileId(previous, r.kind, r.path, print, current) = r.id
<1> DEFINE same == {s \in previous : s.kind = r.kind /\ s.path = r.path}
<1>1. same = {r} /\ (CHOOSE s \in same : TRUE) = r
  OBVIOUS
<1> QED
  BY <1>1 DEF ReconcileId

\* The one of a print that is gone gives its id to what is new.
LEMMA MovedKeepsItsId ==
    ASSUME NEW previous, NEW kind, NEW path, NEW print, NEW current, NEW r,
           {s \in previous : s.kind = kind /\ s.path = path} = {},
           {s \in previous : s.kind = kind /\ s.print = print /\ s.path \notin current} = {r}
    PROVE  ReconcileId(previous, kind, path, print, current) = r.id
  BY FS_Singleton DEF ReconcileId

\* Every id has the kind that it was made for.
LEMMA IdHasKind ==
    ASSUME NEW previous, NEW kind, NEW path, NEW print, NEW current,
           \A r \in previous : r.id[1] = r.kind
    PROVE  ReconcileId(previous, kind, path, print, current)[1] = kind
<1> DEFINE id == ReconcileId(previous, kind, path, print, current)
<1>1. \/ \E r \in previous : r.kind = kind /\ id = r.id
      \/ id = StableId(kind, path)
  <2> HIDE DEF id
  <2> QED
    BY IdIsCarriedOrNew DEF id
<1> QED
  BY <1>1 DEF StableId

-----------------------------------------------------------------------------
(* The index and what is built of it.                                      *)

\* A scan indexes files that there are, under ids of their kinds.
LEMMA ScanIndexShaped ==
    ASSUME NEW taken \in SUBSET ((DOMAIN Scopes) \X (DOMAIN WalkOrder)),
           \A r \in registry.records : r.id[1] = r.kind
    PROVE  /\ IndexShaped(ScanIndex(taken))
           /\ ScanIndex(taken).files = {FileAt(m) : m \in taken}
           /\ ScanIndex(taken).truncated = Truncated(taken)
           /\ \A kind \in Kinds : \A x \in DOMAIN Ids(ScanIndex(taken), kind) :
                 Ids(ScanIndex(taken), kind)[x]
                   = ReconcileId(registry.records, kind, x, Prints(ScanIndex(taken), kind)[x],
                                 DOMAIN Ids(ScanIndex(taken), kind))
<1> DEFINE i == ScanIndex(taken)
           files == {FileAt(m) : m \in taken}
           fileId == [f \in files |-> ReconcileId(registry.records, "file", f, tree[f], files)]
           planetPrint == [p \in PlanetsIn(files) |->
                               {fileId[f] : f \in {g \in files : PlanetOf[g] = p}}]
           systemPrint == [s \in SystemsIn(files) |->
                               {fileId[f] : f \in {g \in files : SystemOf[PlanetOf[g]] = s}}]
           ids(kind, print) == [x \in DOMAIN print |->
               ReconcileId(registry.records, kind, x, print[x], DOMAIN print)]
           twice == \E k, m \in taken : k # m /\ FileAt(k) = FileAt(m)
           print == [f \in files |-> tree[f]]
           planet == ids("planet", planetPrint)
           system == ids("system", systemPrint)
<1>1. i = [files |-> files, twice |-> twice, print |-> print, file |-> fileId,
           planetPrint |-> planetPrint, planet |-> planet,
           systemPrint |-> systemPrint, system |-> system, truncated |-> Truncated(taken)]
  BY DEF ScanIndex
<1>2. files \subseteq Files
  BY FilesAssumption DEF FileAt, ToSet
<1>3. /\ DOMAIN print = files /\ DOMAIN fileId = files
      /\ DOMAIN planetPrint = PlanetsIn(files) /\ DOMAIN planet = PlanetsIn(files)
      /\ DOMAIN systemPrint = SystemsIn(files) /\ DOMAIN system = SystemsIn(files)
  OBVIOUS
<1>4. /\ \A x \in DOMAIN fileId :
            fileId[x] = ReconcileId(registry.records, "file", x, print[x], DOMAIN fileId)
      /\ \A x \in DOMAIN planet :
            planet[x] = ReconcileId(registry.records, "planet", x, planetPrint[x], DOMAIN planet)
      /\ \A x \in DOMAIN system :
            system[x] = ReconcileId(registry.records, "system", x, systemPrint[x], DOMAIN system)
  OBVIOUS
<1> HIDE DEF i, files, fileId, planetPrint, systemPrint, twice, print, planet, system
<1>5. IdsOf("file", fileId) /\ IdsOf("planet", planet) /\ IdsOf("system", system)
  BY <1>4, IdHasKind DEF IdsOf
<1>6. IndexShaped(i) /\ i.files = files /\ i.truncated = Truncated(taken)
  BY <1>1, <1>2, <1>3, <1>5 DEF IndexShaped
<1>7. \A kind \in Kinds : \A x \in DOMAIN Ids(i, kind) :
          Ids(i, kind)[x] = ReconcileId(registry.records, kind, x, Prints(i, kind)[x],
                                        DOMAIN Ids(i, kind))
  <2>1. /\ Ids(i, "file") = fileId /\ Prints(i, "file") = print
        /\ Ids(i, "planet") = planet /\ Prints(i, "planet") = planetPrint
        /\ Ids(i, "system") = system /\ Prints(i, "system") = systemPrint
    BY <1>1 DEF Ids, Prints
  <2> QED
    BY <1>4, <2>1 DEF Kinds
<1> QED
  BY <1>6, <1>7 DEF i, files

\* A set of natural numbers has a least one.
LEMMA LeastNatural ==
    ASSUME NEW S \in SUBSET Nat, S # {}
    PROVE  \E n \in S : \A m \in S : n <= m
<1> DEFINE Less == {p \in Nat \X Nat : p[1] < p[2]}
<1>1. IsWellFoundedOn(Less, Nat)
  BY NatLessThanWellFounded, Zenon DEF OpToRel
<1>2. PICK n \in S : \A m \in S : ~(<<m, n>> \in Less)
  <2> HIDE DEF Less
  <2> QED
    BY <1>1, WFMin
<1>3. ASSUME NEW m \in S
      PROVE  n <= m
  <2>1. ~(<<m, n>> \in Less) /\ m \in Nat /\ n \in Nat
    BY <1>2
  <2> QED
    BY <2>1
<1> QED
  BY <1>3

\* The groups made are groups of files of the index, and there is one of every id.
LEMMA GroupsMadeOfFiles ==
    ASSUME NEW i, NEW e \in GroupsMade(i)
    PROVE  \E f \in i.files : \/ e = SystemEntity(i, SystemOf[PlanetOf[f]])
                              \/ e = PlanetEntity(i, PlanetOf[f])
<1>1. PICK n \in DOMAIN WalkOrder, level \in {1, 2} :
          WalkOrder[n] \in i.files /\ e = GroupAt(i, <<n, level>>)
  BY DEF GroupsMade
<1> QED
  BY <1>1 DEF GroupAt

LEMMA GroupOfEveryId ==
    ASSUME NEW i, i.files \subseteq Files, NEW f \in i.files
    PROVE  /\ \E e \in GroupsMade(i) : e.id = i.system[SystemOf[PlanetOf[f]]]
           /\ \E e \in GroupsMade(i) : e.id = i.planet[PlanetOf[f]]
<1> DEFINE places == {n \in DOMAIN WalkOrder : WalkOrder[n] \in i.files} \X {1, 2}
           id(m) == GroupAt(i, m).id
           first(m) == \A k \in places : Precedes(k, m) => id(k) # id(m)
<1>1. GroupsMade(i) = {GroupAt(i, m) : m \in {k \in places : first(k)}}
  BY DEF GroupsMade
<1>2. ASSUME NEW m \in places
      PROVE  \E k \in places : first(k) /\ id(k) = id(m)
  <2> DEFINE S == {3 * k[1] + k[2] : k \in {q \in places : id(q) = id(m)}}
  <2>0. \A k \in places : k[1] \in Nat /\ k[2] \in {1, 2}
    BY FilesAssumption
  <2>1. S \in SUBSET Nat /\ S # {}
    BY <2>0
  <2>2. PICK n \in S : \A s \in S : n <= s
    <3> HIDE DEF S
    <3> QED
      BY <2>1, LeastNatural
  <2>3. PICK k \in places : id(k) = id(m) /\ n = 3 * k[1] + k[2]
    OBVIOUS
  <2>4. ASSUME NEW q \in places, Precedes(q, k)
        PROVE  id(q) # id(k)
    <3> DEFINE v == 3 * q[1] + q[2]
    <3>1. v < n /\ v \in Nat /\ n \in Nat
      BY <2>0, <2>3, <2>4 DEF Precedes
    <3>2. id(q) = id(m) => v \in S
      OBVIOUS
    <3> HIDE DEF v, S
    <3>3. v \notin S
      BY <2>2, <3>1
    <3> QED
      BY <2>3, <3>2, <3>3
  <2> QED
    BY <2>3, <2>4
<1>3. PICK n \in DOMAIN WalkOrder : WalkOrder[n] = f
  BY FilesAssumption DEF ToSet
<1>4. /\ <<n, 1>> \in places /\ id(<<n, 1>>) = i.system[SystemOf[PlanetOf[f]]]
      /\ <<n, 2>> \in places /\ id(<<n, 2>>) = i.planet[PlanetOf[f]]
  BY <1>3 DEF GroupAt, SystemEntity, PlanetEntity, Entity
<1> HIDE DEF places, id, first
<1>5. ASSUME NEW m \in places
      PROVE  \E e \in GroupsMade(i) : e.id = id(m)
  <2>1. PICK k \in places : first(k) /\ id(k) = id(m)
    BY <1>2, <1>5
  <2>2. GroupAt(i, k) \in GroupsMade(i)
    BY <1>1, <2>1
  <2> QED
    BY <2>1, <2>2 DEF id
<1> QED
  BY <1>4, <1>5

BuiltEntities(i) == Roots \union GroupsMade(i) \union {Moon(i, f) : f \in i.files}
BuiltEdges(i) ==
    {Holds(Universe, Galaxy)}
      \union {Holds(e.parent, e.id) : e \in GroupsMade(i)}
      \union {Holds(i.planet[PlanetOf[f]], i.file[f]) : f \in i.files}
      \union ImportEdges(i)

LEMMA BuiltIs ==
    ASSUME NEW i
    PROVE  Built(i) = [id |-> i.print, entities |-> BuiltEntities(i), edges |-> BuiltEdges(i),
                       doubt |-> i.truncated]
  BY DEF Built, BuiltEntities, BuiltEdges

LEMMA BuiltClosed ==
    ASSUME NEW i, IndexShaped(i)
    PROVE  Closed(Built(i)) /\ Closed(Portable(Built(i)))
<1> DEFINE ids == {e.id : e \in BuiltEntities(i)}
<1>1. i.files \subseteq Files
  BY DEF IndexShaped
<1>2. /\ \A e \in Roots : e \in BuiltEntities(i)
      /\ \A e \in GroupsMade(i) : e \in BuiltEntities(i)
      /\ \A f \in i.files : Moon(i, f) \in BuiltEntities(i)
  BY DEF BuiltEntities
<1>3. Universe \in ids /\ Galaxy \in ids
  BY <1>2 DEF Roots, Entity
<1>4. \A f \in i.files : /\ i.system[SystemOf[PlanetOf[f]]] \in ids
                         /\ i.planet[PlanetOf[f]] \in ids
                         /\ i.file[f] \in ids
  <2>1. \A f \in i.files : Moon(i, f).id = i.file[f]
    BY DEF Moon, Entity
  <2> QED
    BY <1>1, <1>2, <2>1, GroupOfEveryId
<1>5. ASSUME NEW e \in GroupsMade(i)
      PROVE  e.parent \in ids /\ e.id \in ids
  <2>1. PICK f \in i.files : \/ e = SystemEntity(i, SystemOf[PlanetOf[f]])
                             \/ e = PlanetEntity(i, PlanetOf[f])
    BY GroupsMadeOfFiles
  <2>2. e.parent \in ids
    BY <1>3, <1>4, <2>1 DEF SystemEntity, PlanetEntity, Entity
  <2> QED
    BY <1>2, <2>2
<1>6. \A f \in i.files : Moon(i, f).parent \in ids
  BY <1>4 DEF Moon, Entity
<1>7. \A e \in BuiltEntities(i) \ Roots : e.parent \in ids
  BY <1>5, <1>6 DEF BuiltEntities
<1>8. ASSUME NEW c \in BuiltEdges(i)
      PROVE  c.from \in ids /\ c.to \in ids
  <2>1. CASE c = Holds(Universe, Galaxy)
    BY <1>3, <2>1 DEF Holds
  <2>2. CASE c \in {Holds(e.parent, e.id) : e \in GroupsMade(i)}
    BY <1>5, <2>2 DEF Holds
  <2>3. CASE c \in {Holds(i.planet[PlanetOf[f]], i.file[f]) : f \in i.files}
    BY <1>4, <2>3 DEF Holds
  <2>4. CASE c \in ImportEdges(i)
    <3>1. PICK f \in i.files, g \in i.files : c = Import(i.file[f], i.file[g])
      BY <2>4 DEF ImportEdges
    <3> QED
      BY <1>4, <3>1 DEF Import
  <2> QED
    BY <2>1, <2>2, <2>3, <2>4 DEF BuiltEdges
<1> HIDE DEF ids
<1>9. /\ Built(i).entities = BuiltEntities(i) /\ Built(i).edges = BuiltEdges(i)
      /\ Portable(Built(i)).entities = BuiltEntities(i)
      /\ Portable(Built(i)).edges = BuiltEdges(i)
  BY BuiltIs DEF Portable
<1>10. /\ \A e \in BuiltEntities(i) \ Roots : \E up \in BuiltEntities(i) : up.id = e.parent
       /\ \A c \in BuiltEdges(i) : {c.from, c.to} \subseteq {e.id : e \in BuiltEntities(i)}
  BY <1>7, <1>8 DEF ids
<1> QED
  BY <1>9, <1>10 DEF Closed

\* The files of an Atlas are those of the index, and its folders are theirs.
LEMMA BuiltFiles ==
    ASSUME NEW i, IndexShaped(i)
    PROVE  /\ FilesOf(Built(i)) = {Moon(i, f) : f \in i.files}
           /\ FilesOf(Portable(Built(i))) = {Moon(i, f) : f \in i.files}
           /\ FoldersOf(Built(i)) \subseteq PlanetsIn(i.files)
           /\ Built(i) # Nothing /\ Portable(Built(i)) # Nothing
<1>1. /\ Built(i).entities = BuiltEntities(i)
      /\ Portable(Built(i)).entities = BuiltEntities(i)
      /\ Built(i) # Nothing /\ Portable(Built(i)) # Nothing
  BY BuiltIs DEF Portable, Nothing
<1>2. \A e \in GroupsMade(i) :
          \/ e.kind = "system"
          \/ e.kind = "planet" /\ e.path \in PlanetsIn(i.files)
  BY GroupsMadeOfFiles DEF SystemEntity, PlanetEntity, Entity, PlanetsIn
<1>3. /\ \A e \in Roots : e.kind \in {"universe", "galaxy"}
      /\ \A f \in i.files : Moon(i, f).kind = "file"
  BY DEF Roots, Moon, Entity
<1> QED
  BY <1>1, <1>2, <1>3 DEF FilesOf, FoldersOf, BuiltEntities

-----------------------------------------------------------------------------
\* Where no two groups share an id, every group is made.
LEMMA AllGroupsMade ==
    ASSUME NEW i, IndexShaped(i), IsInjective(i.system), IsInjective(i.planet)
    PROVE  GroupsMade(i) = {SystemEntity(i, SystemOf[p]) : p \in DOMAIN i.planet}
                           \union {PlanetEntity(i, p) : p \in DOMAIN i.planet}
<1>0. /\ i.files \subseteq Files /\ DOMAIN i.planet = {PlanetOf[f] : f \in i.files}
      /\ DOMAIN i.system = {SystemOf[PlanetOf[f]] : f \in i.files}
      /\ \A p \in DOMAIN i.planet : i.planet[p][1] = "planet"
      /\ \A s \in DOMAIN i.system : i.system[s][1] = "system"
  BY DEF IndexShaped, PlanetsIn, SystemsIn, IdsOf
<1>1. ASSUME NEW e \in GroupsMade(i)
      PROVE  \E p \in DOMAIN i.planet : e = SystemEntity(i, SystemOf[p]) \/ e = PlanetEntity(i, p)
  BY <1>0, GroupsMadeOfFiles
<1>2. ASSUME NEW p \in DOMAIN i.planet
      PROVE  SystemEntity(i, SystemOf[p]) \in GroupsMade(i) /\ PlanetEntity(i, p) \in GroupsMade(i)
  <2>1. PICK f \in i.files : PlanetOf[f] = p
    BY <1>0
  <2>2. PICK e \in GroupsMade(i) : e.id = i.system[SystemOf[p]]
    BY <1>0, <2>1, GroupOfEveryId
  <2>3. PICK d \in GroupsMade(i) : d.id = i.planet[p]
    BY <1>0, <2>1, GroupOfEveryId
  <2>4. \A q \in DOMAIN i.planet : /\ SystemEntity(i, SystemOf[q]).id = i.system[SystemOf[q]]
                                   /\ SystemOf[q] \in DOMAIN i.system
                                   /\ PlanetEntity(i, q).id = i.planet[q]
    BY <1>0 DEF SystemEntity, PlanetEntity, Entity
  <2>5. PICK q \in DOMAIN i.planet : e = SystemEntity(i, SystemOf[q]) \/ e = PlanetEntity(i, q)
    BY <1>1
  <2>6. e = SystemEntity(i, SystemOf[p])
    <3>1. i.system[SystemOf[p]][1] # i.planet[q][1]
      BY <1>0, <2>4
    <3>2. i.system[SystemOf[q]] = i.system[SystemOf[p]]
      BY <2>2, <2>4, <2>5, <3>1
    <3> QED
      BY <2>4, <2>5, <2>2, <3>1, <3>2 DEF IsInjective
  <2>7. PICK r \in DOMAIN i.planet : d = SystemEntity(i, SystemOf[r]) \/ d = PlanetEntity(i, r)
    BY <1>1
  <2>8. d = PlanetEntity(i, p)
    <3>1. i.system[SystemOf[r]][1] # i.planet[p][1]
      BY <1>0, <2>4
    <3>2. i.planet[r] = i.planet[p]
      BY <2>3, <2>4, <2>7, <3>1
    <3> QED
      BY <2>3, <2>4, <2>7, <3>1, <3>2 DEF IsInjective
  <2> QED
    BY <2>6, <2>8
<1> QED
  BY <1>1, <1>2

LEMMA SlicesOfTheIndex ==
    ASSUME NEW i, IndexShaped(i), \A kind \in Kinds : IsInjective(Ids(i, kind))
    PROVE  LET slices == {Slice(i, p) : p \in DOMAIN i.planet}
           IN  /\ Built(i).entities = Roots \union UNION {s.entities : s \in slices}
               /\ Built(i).edges = {Holds(Universe, Galaxy)} \union ImportEdges(i)
                                   \union UNION {s.edges : s \in slices}
<1> DEFINE planets == DOMAIN i.planet
           slices == {Slice(i, p) : p \in planets}
<1>1. IsInjective(i.system) /\ IsInjective(i.planet)
  BY DEF Kinds, Ids
<1>2. GroupsMade(i) = {SystemEntity(i, SystemOf[p]) : p \in planets}
                      \union {PlanetEntity(i, p) : p \in planets}
  BY <1>1, AllGroupsMade
<1>3. planets = {PlanetOf[f] : f \in i.files}
  BY DEF IndexShaped, PlanetsIn
<1>4. \A p \in planets :
          /\ Slice(i, p).entities = {SystemEntity(i, SystemOf[p]), PlanetEntity(i, p)}
                                    \union {Moon(i, f) : f \in FilesIn(i, p)}
          /\ Slice(i, p).edges = {Holds(Galaxy, i.system[SystemOf[p]]),
                                  Holds(i.system[SystemOf[p]], i.planet[p])}
                                 \union {Holds(i.planet[p], i.file[f]) : f \in FilesIn(i, p)}
  BY DEF Slice
<1> HIDE DEF planets
<1>5. \A f \in i.files : PlanetOf[f] \in planets /\ f \in FilesIn(i, PlanetOf[f])
  BY <1>3 DEF FilesIn
<1>6. \A p \in planets : \A f \in FilesIn(i, p) : f \in i.files /\ PlanetOf[f] = p
  BY DEF FilesIn
<1>7. UNION {s.entities : s \in slices} = GroupsMade(i) \union {Moon(i, f) : f \in i.files}
  <2>1. ASSUME NEW e \in UNION {s.entities : s \in slices}
        PROVE  e \in GroupsMade(i) \union {Moon(i, f) : f \in i.files}
    <3>1. PICK p \in planets : e \in Slice(i, p).entities
      OBVIOUS
    <3> QED
      BY <1>2, <1>4, <1>6, <3>1
  <2>2. ASSUME NEW e \in GroupsMade(i)
        PROVE  \E p \in planets : e \in Slice(i, p).entities
    BY <1>2, <1>4
  <2>3. ASSUME NEW f \in i.files
        PROVE  \E p \in planets : Moon(i, f) \in Slice(i, p).entities
    BY <1>4, <1>5
  <2> QED
    BY <2>1, <2>2, <2>3
<1>8. UNION {s.edges : s \in slices}
        = {Holds(e.parent, e.id) : e \in GroupsMade(i)}
          \union {Holds(i.planet[PlanetOf[f]], i.file[f]) : f \in i.files}
  <2>0. \A p \in planets :
            /\ SystemEntity(i, SystemOf[p]).parent = Galaxy
            /\ SystemEntity(i, SystemOf[p]).id = i.system[SystemOf[p]]
            /\ PlanetEntity(i, p).parent = i.system[SystemOf[p]]
            /\ PlanetEntity(i, p).id = i.planet[p]
    BY DEF SystemEntity, PlanetEntity, Entity
  <2>1. ASSUME NEW c \in UNION {s.edges : s \in slices}
        PROVE  c \in {Holds(e.parent, e.id) : e \in GroupsMade(i)}
                     \union {Holds(i.planet[PlanetOf[f]], i.file[f]) : f \in i.files}
    <3>1. PICK p \in planets : c \in Slice(i, p).edges
      OBVIOUS
    <3>2. SystemEntity(i, SystemOf[p]) \in GroupsMade(i) /\ PlanetEntity(i, p) \in GroupsMade(i)
      BY <1>2
    <3>3. CASE c = Holds(Galaxy, i.system[SystemOf[p]])
      BY <2>0, <3>2, <3>3
    <3>4. CASE c = Holds(i.system[SystemOf[p]], i.planet[p])
      BY <2>0, <3>2, <3>4
    <3>5. CASE c \in {Holds(i.planet[p], i.file[f]) : f \in FilesIn(i, p)}
      BY <1>6, <3>5
    <3> QED
      BY <1>4, <3>1, <3>3, <3>4, <3>5
  <2>2. ASSUME NEW e \in GroupsMade(i)
        PROVE  \E p \in planets : Holds(e.parent, e.id) \in Slice(i, p).edges
    BY <1>2, <1>4, <2>0
  <2>3. ASSUME NEW f \in i.files
        PROVE  \E p \in planets : Holds(i.planet[PlanetOf[f]], i.file[f]) \in Slice(i, p).edges
    BY <1>4, <1>5
  <2> QED
    BY <2>1, <2>2, <2>3
<1>9. Built(i).entities = BuiltEntities(i) /\ Built(i).edges = BuiltEdges(i)
  BY BuiltIs
<1>10. /\ Built(i).entities = Roots \union UNION {s.entities : s \in slices}
       /\ Built(i).edges = {Holds(Universe, Galaxy)} \union ImportEdges(i)
                           \union UNION {s.edges : s \in slices}
  BY <1>7, <1>8, <1>9 DEF BuiltEntities, BuiltEdges
<1> QED
  BY <1>10 DEF planets

-----------------------------------------------------------------------------
(* What the invariant says.                                                *)

LEMMA InvTypes == TreeInv => TypeOK
<1> SUFFICES ASSUME TreeInv
             PROVE  TypeOK
  OBVIOUS
<1>1. at.stage \in Stages /\ at.left \subseteq Planets
  BY DEF TreeInv, Shape
<1>2. \A r \in registry.records :
          r.kind \in Kinds /\ r.path \in Files \union Planets \union Systems /\ r.id[1] = r.kind
  BY DEF TreeInv, Shape, IsRecord
<1>3. \A s \in {store, root} \ {Nothing} :
          /\ \A e \in s.entities \ Roots : \E up \in s.entities : up.id = e.parent
          /\ \A c \in s.edges : {c.from, c.to} \subseteq {e.id : e \in s.entities}
  BY DEF TreeInv, Snapshots, Closed
<1>4. index.files \subseteq Files
  BY DEF TreeInv, Shape, IndexShaped
<1>5. spent.edits \in 0..MaxEdits /\ spent.faults \in 0..MaxFaults
  BY DEF TreeInv, Shape
<1> QED
  BY <1>1, <1>2, <1>3, <1>4, <1>5 DEF TypeOK, TreeInv, Shape, Snapshots, Stages

LEMMA InvShares == TreeInv => SharedOnlyByReuse
<1> SUFFICES ASSUME TreeInv, Stage("walked"), NEW kind \in Kinds,
                    NEW x \in DOMAIN Ids(index, kind), NEW y \in DOMAIN Ids(index, kind),
                    x # y, Ids(index, kind)[x] = Ids(index, kind)[y]
             PROVE  LET id == Ids(index, kind)
                        fresh(z) == ~Known(kind, z) /\ id[z] = StableId(kind, z)
                    IN  \/ ~Known(kind, x) /\ ~Known(kind, y)
                           /\ Prints(index, kind)[x] = Prints(index, kind)[y]
                        \/ fresh(x) \/ fresh(y)
                        \/ /\ kind # "file"
                           /\ \E r, s \in Recorded(kind) : r # s /\ r.id = id[x] /\ s.id = id[x]
  BY DEF SharedOnlyByReuse
<1> DEFINE id == Ids(index, kind)
           print == Prints(index, kind)
<1>1. ASSUME NEW z \in DOMAIN id
      PROVE  \/ \E r \in Recorded(kind) : r.path = z /\ id[z] = r.id
             \/ /\ ~Known(kind, z)
                /\ \/ \E r \in Recorded(kind) :
                         r.print = print[z] /\ r.path \notin DOMAIN id /\ id[z] = r.id
                   \/ id[z] = StableId(kind, z)
  <2>1. id[z] = ReconcileId(registry.records, kind, z, print[z], DOMAIN id)
    BY DEF TreeInv, Indexed
  <2> HIDE DEF id, print
  <2> QED
    BY <2>1, IdIsCarriedOrNew DEF Recorded, Known
<1> DEFINE Carried(r, z) ==
        /\ r \in Recorded(kind) /\ id[z] = r.id
        /\ \/ r.path = z
           \/ ~Known(kind, z) /\ r.print = print[z] /\ r.path \notin DOMAIN id
<1> DEFINE fresh(z) == ~Known(kind, z) /\ id[z] = StableId(kind, z)
<1>2. \A z \in DOMAIN id : fresh(z) \/ \E r : Carried(r, z)
  BY <1>1
<1>3. ASSUME NEW r, NEW s, Carried(r, x), Carried(s, y), r # s
      PROVE  kind # "file" /\ \E q, t \in Recorded(kind) : q # t /\ q.id = id[x] /\ t.id = id[x]
  <2>1. r \in Recorded(kind) /\ s \in Recorded(kind) /\ r.id = id[x] /\ s.id = id[x]
    BY <1>3
  <2>2. kind = "file" => r = s
    BY <2>1 DEF TreeInv, RegistryKeeps
  <2> QED
    BY <1>3, <2>1, <2>2
<1>4. ASSUME NEW r, Carried(r, x), Carried(r, y)
      PROVE  ~Known(kind, x) /\ ~Known(kind, y) /\ print[x] = print[y]
  BY <1>4
<1> QED
  BY <1>2, <1>3, <1>4

LEMMA InvMarks == TreeInv => ShortIsMarked
<1> DEFINE Sought == {f \in Files : Fits(f) /\ \E n \in DOMAIN Scopes : Enters(Scopes[n], PlanetOf[f])}
<1> SUFFICES ASSUME TreeInv, at.stage \in {"stored", "rooted"}, steady, locked = {}, ~store.doubt
             PROVE  {e.path : e \in FilesOf(store)} = Sought
  BY DEF ShortIsMarked
<1>1. store = Built(index) /\ IndexShaped(index)
  BY DEF TreeInv, Stored, Shape
<1>2. {e.path : e \in FilesOf(store)} = index.files
  <2>1. FilesOf(store) = {Moon(index, f) : f \in index.files}
    BY <1>1, BuiltFiles
  <2>2. \A f \in index.files : Moon(index, f).path = f
    BY DEF Moon, Entity
  <2> QED
    BY <2>1, <2>2
<1>3. ~Idle
  BY DEF Idle
<1>4. index.files = {FileAt(m) : m \in Taken} /\ index.truncated = Truncated(Taken)
  BY <1>3 DEF TreeInv, Scanned
<1>5. Taken = Offered
  <2>1. store.doubt = index.truncated
    BY <1>1, BuiltIs
  <2> QED
    BY <1>4, <2>1 DEF Truncated
<1>6. Offered = {m \in (DOMAIN Scopes) \X (DOMAIN WalkOrder) :
                    Enters(Scopes[m[1]], PlanetOf[FileAt(m)]) /\ Fits(FileAt(m))}
  BY DEF Offered, Reads
<1>7. \A f \in Files : \E n \in DOMAIN WalkOrder : WalkOrder[n] = f
  BY FilesAssumption DEF ToSet
<1>8. \A n \in DOMAIN WalkOrder : WalkOrder[n] \in Files
  BY FilesAssumption DEF ToSet
<1>9. ASSUME NEW f \in Sought
      PROVE  f \in index.files
  <2>1. PICK n \in DOMAIN Scopes : Enters(Scopes[n], PlanetOf[f])
    OBVIOUS
  <2>2. PICK k \in DOMAIN WalkOrder : WalkOrder[k] = f
    BY <1>7
  <2>3. <<n, k>> \in Offered /\ FileAt(<<n, k>>) = f
    BY <1>6, <2>1, <2>2 DEF FileAt
  <2> QED
    BY <1>4, <1>5, <2>3
<1>10. ASSUME NEW f \in index.files
       PROVE  f \in Sought
  <2>1. PICK m \in Offered : f = FileAt(m)
    BY <1>4, <1>5
  <2>2. f \in Files
    BY <1>6, <1>8, <2>1 DEF FileAt
  <2> QED
    BY <1>6, <2>1, <2>2
<1> QED
  BY <1>2, <1>9, <1>10

LEMMA InvAgrees == TreeInv => PassAgrees
<1> SUFFICES ASSUME TreeInv, Stage("rooted"), at.left = {}
             PROVE  /\ registry.last = {store.id}
                    /\ {<<r.path, r.id>> : r \in Recorded("file")}
                         = {<<e.path, e.id>> : e \in FilesOf(store)}
                    /\ root = [store EXCEPT !.doubt = FALSE]
                    /\ \A p \in FoldersOf(store) :
                          /\ folder[p] # Nothing /\ folder[p].id = store.id
                          /\ \A q \in folder[p].children :
                                folder[q] # Nothing /\ folder[q].id = store.id
  BY DEF PassAgrees
<1>1. /\ registry = [records |-> RecordsOf(index), last |-> {index.print}]
      /\ store = Built(index) /\ root = Portable(store)
      /\ \A p \in FoldersOf(store) : folder[p] = FolderIdx(store, p)
  BY DEF TreeInv, Stored, Stage
<1>2. registry.last = {store.id}
  BY <1>1, BuiltIs
<1>3. /\ FilesOf(store) = {Moon(index, f) : f \in index.files}
      /\ \A f \in index.files : Moon(index, f).path = f /\ Moon(index, f).id = index.file[f]
  BY <1>1, BuiltFiles DEF TreeInv, Shape, Moon, Entity
<1>4. /\ Recorded("file") = {Record("file", f, index.file[f], index.print[f]) : f \in index.files}
      /\ \A f \in index.files : LET r == Record("file", f, index.file[f], index.print[f])
                                IN  r.path = f /\ r.id = index.file[f]
  BY <1>1 DEF Recorded, RecordsOf, Record
<1>5. {<<r.path, r.id>> : r \in Recorded("file")} = {<<e.path, e.id>> : e \in FilesOf(store)}
  <2>1. \A r \in Recorded("file") : \E e \in FilesOf(store) : e.path = r.path /\ e.id = r.id
    BY <1>3, <1>4
  <2>2. \A e \in FilesOf(store) : \E r \in Recorded("file") : e.path = r.path /\ e.id = r.id
    BY <1>3, <1>4
  <2> QED
    BY <2>1, <2>2
<1>6. \A p \in FoldersOf(store) : /\ FolderIdx(store, p) # Nothing
                                  /\ FolderIdx(store, p).id = store.id
                                  /\ FolderIdx(store, p).children \subseteq FoldersOf(store)
  BY DEF FolderIdx, ChildrenOf, Nothing
<1> QED
  BY <1>1, <1>2, <1>5, <1>6 DEF Portable

LEMMA InvSlices == TreeInv => SlicesMakeTheWhole
  BY SlicesOfTheIndex DEF SlicesMakeTheWhole, TreeInv, Shape

-----------------------------------------------------------------------------
(* Each step keeps the invariant.                                          *)

\* What the walk takes is of the tree and of config.toml alone.
LEMMA SameWalk ==
    ASSUME UNCHANGED world
    PROVE  UNCHANGED <<Scopes, Offered, Taken>> /\ Truncated(Taken)' = Truncated(Taken)
<1>1. UNCHANGED <<Scopes, Offered>>
  BY DEF world, Scopes, Offered, Enters, Reads, Fits
<1>2. Lengths' = Lengths
  BY <1>1 DEF world, Lengths
<1>3. \A met : WithinLimits(met)' = WithinLimits(met)
  BY <1>2 DEF world, WithinLimits, Bytes
<1>4. \A m : UpTo(m)' = UpTo(m)
  BY <1>1 DEF UpTo
<1>5. Taken' = Taken
  BY <1>1, <1>3, <1>4 DEF Taken
<1> QED
  BY <1>1, <1>5 DEF Truncated

LEMMA TreeInvInit == Init => TreeInv
<1> SUFFICES ASSUME Init
             PROVE  TreeInv
  OBVIOUS
<1>1. IndexShaped(NoIndex)
  BY DEF IndexShaped, NoIndex, PlanetsIn, SystemsIn, IdsOf
<1>2. /\ at = [stage |-> "idle", left |-> {}] /\ index = NoIndex
      /\ registry = [records |-> {}, last |-> {}]
      /\ store = Nothing /\ root = Nothing /\ folder = [p \in Planets |-> Nothing]
      /\ kept = [t \in {"store", "root"} |-> {}] /\ steady = FALSE
  BY DEF Init
<1>3. Shape
  <2>1. /\ tree \in [Files -> Content \union {None}]
        /\ locked \subseteq Files \union Planets /\ config \in Configs
    BY ConfigsAssumption DEF Init
  <2>2. spent \in [edits : 0..MaxEdits, faults : 0..MaxFaults]
    BY BoundsAssumption DEF Init
  <2> QED
    BY <1>1, <1>2, <2>1, <2>2 DEF Shape, Stages, Idle, IsRecord
<1>4. Snapshots
  BY <1>2 DEF Snapshots
<1>5. Indexed /\ Scanned /\ RegistryKeeps /\ Stored /\ KeptTrue
  BY <1>2 DEF Indexed, Scanned, RegistryKeeps, Stored, KeptTrue, KeptIn, Stage, Idle, Recorded
<1> QED
  BY <1>3, <1>4, <1>5 DEF TreeInv

LEMMA WalkKeeps == TreeInv /\ Walk => TreeInv'
<1> SUFFICES ASSUME TreeInv, Walk
             PROVE  TreeInv'
  OBVIOUS
<1>1. /\ Idle /\ index' = ScanIndex(Taken) /\ at' = [stage |-> "walked", left |-> {}]
      /\ steady' = TRUE /\ UNCHANGED <<world, disk, spent, kept>>
  BY DEF Walk, Move
<1>2. /\ IndexShaped(index')
      /\ index'.files = {FileAt(m) : m \in Taken}
      /\ index'.truncated = Truncated(Taken)
      /\ \A kind \in Kinds : \A x \in DOMAIN Ids(index', kind) :
            Ids(index', kind)[x]
              = ReconcileId(registry.records, kind, x, Prints(index', kind)[x],
                            DOMAIN Ids(index', kind))
  <2>1. Taken \in SUBSET ((DOMAIN Scopes) \X (DOMAIN WalkOrder))
    BY DEF Taken, Offered
  <2>2. \A r \in registry.records : r.id[1] = r.kind
    BY DEF TreeInv, Shape, IsRecord
  <2> QED
    BY <1>1, <2>1, <2>2, ScanIndexShaped
<1>3. Shape'
  BY <1>1, <1>2 DEF TreeInv, Shape, Stages, Idle, Stage, world, disk
<1>4. Snapshots'
  BY <1>1 DEF TreeInv, Snapshots, disk
<1>5. Indexed'
  BY <1>1, <1>2 DEF Indexed, disk
<1>6. Scanned'
  BY <1>1, <1>2, SameWalk DEF Scanned, FileAt
<1>7. RegistryKeeps' /\ Stored' /\ KeptTrue'
  BY <1>1 DEF TreeInv, RegistryKeeps, Stored, KeptTrue, KeptIn, Stage, Recorded, disk
<1> QED
  BY <1>3, <1>4, <1>5, <1>6, <1>7 DEF TreeInv

\* A scan that ends, well or not, leaves everything as it is.
LEMMA EndKeeps ==
    ASSUME TreeInv, Move("idle", {}), index' = NoIndex,
           spent' \in [edits : 0..MaxEdits, faults : 0..MaxFaults],
           UNCHANGED <<world, disk, kept, steady>>
    PROVE  TreeInv'
<1>1. at' = [stage |-> "idle", left |-> {}]
  BY DEF Move
<1>2. IndexShaped(NoIndex)
  BY DEF IndexShaped, NoIndex, PlanetsIn, SystemsIn, IdsOf
<1>3. Shape'
  BY <1>1, <1>2 DEF TreeInv, Shape, Stages, Idle, Stage, world, disk
<1>4. Snapshots'
  BY DEF TreeInv, Snapshots, disk
<1>5. Indexed' /\ Scanned' /\ RegistryKeeps' /\ Stored' /\ KeptTrue'
  BY <1>1 DEF TreeInv, Indexed, Scanned, RegistryKeeps, Stored, KeptTrue, KeptIn, Stage, Idle,
              Recorded, disk
<1> QED
  BY <1>3, <1>4, <1>5 DEF TreeInv

LEMMA WriteRegistryKeeps == TreeInv /\ WriteRegistry => TreeInv'
<1> SUFFICES ASSUME TreeInv, WriteRegistry
             PROVE  TreeInv'
  OBVIOUS
<1>1. /\ at' = [stage |-> "registered", left |-> {}] /\ Stage("walked") /\ ~Duplicate(index)
      /\ registry' = [records |-> RecordsOf(index), last |-> {index.print}]
      /\ kept' = [t \in {"store", "root"} |-> kept[t] \intersect index.files]
      /\ UNCHANGED <<world, store, root, folder, index, spent, steady>>
  BY DEF WriteRegistry, Move
<1>2. IndexShaped(index)
  BY DEF TreeInv, Shape
<1>3. \A r \in RecordsOf(index) :
          \/ \E f \in index.files : r = Record("file", f, index.file[f], index.print[f])
          \/ \E p \in DOMAIN index.planet :
                r = Record("planet", p, index.planet[p], index.planetPrint[p])
          \/ \E s \in DOMAIN index.system :
                r = Record("system", s, index.system[s], index.systemPrint[s])
  BY DEF RecordsOf
<1>4. \A r \in RecordsOf(index) : IsRecord(r)
  BY <1>2, <1>3 DEF IsRecord, Record, Kinds, IndexShaped, IdsOf, PlanetsIn, SystemsIn, Planets,
                    Systems
<1>5. /\ \A r, s \in RecordsOf(index) : r.kind = s.kind /\ r.path = s.path => r = s
      /\ \A r, s \in RecordsOf(index) : r.kind = "file" /\ s.kind = "file" /\ r.id = s.id => r = s
  <2>1. ASSUME NEW r \in RecordsOf(index), NEW s \in RecordsOf(index),
               r.kind = s.kind, r.path = s.path
        PROVE  r = s
    BY <1>3, <2>1 DEF Record
  <2>2. ASSUME NEW r \in RecordsOf(index), NEW s \in RecordsOf(index),
               r.kind = "file", s.kind = "file", r.id = s.id
        PROVE  r = s
    BY <1>1, <1>3, <2>2 DEF Record, Duplicate
  <2> QED
    BY <2>1, <2>2
<1>6. Shape'
  BY <1>1, <1>4 DEF TreeInv, Shape, Stages, Idle, Stage, world
<1>7. Snapshots' /\ Indexed'
  BY <1>1 DEF TreeInv, Snapshots, Indexed, Stage
<1>8. Scanned'
  BY <1>1, SameWalk DEF TreeInv, Scanned, Stage, Idle, FileAt
<1>9. RegistryKeeps'
  BY <1>1, <1>5 DEF RegistryKeeps, Recorded
<1>10. Stored'
  BY <1>1 DEF Stored, Stage, Duplicate
<1>11. ASSUME NEW files, NEW s, KeptIn(files, s)
       PROVE  s # Nothing => \A e \in FilesOf(s) : e.path \in files \intersect index.files =>
                  \E r \in RecordsOf(index) :
                      r.kind = "file" /\ r.path = e.path /\ r.id = e.id
  <2> SUFFICES ASSUME s # Nothing, NEW e \in FilesOf(s), e.path \in files \intersect index.files
               PROVE  \E r \in RecordsOf(index) :
                          r.kind = "file" /\ r.path = e.path /\ r.id = e.id
    OBVIOUS
  <2>1. PICK r \in Recorded("file") : r.path = e.path /\ r.id = e.id
    BY <1>11 DEF KeptIn
  <2>2. \A q \in registry.records : q.kind = r.kind /\ q.path = r.path => q = r
    BY DEF TreeInv, RegistryKeeps, Recorded
  <2>3. r \in registry.records /\ r.kind = "file"
    BY DEF Recorded
  <2>4. index.file[e.path] = ReconcileId(registry.records, "file", e.path,
                                         index.print[e.path], DOMAIN index.file)
    BY <1>1, <1>2 DEF TreeInv, Indexed, Ids, Prints, Kinds, IndexShaped
  <2>5. index.file[e.path] = e.id
    <3>1. ReconcileId(registry.records, r.kind, r.path, index.print[e.path], DOMAIN index.file)
            = r.id
      BY <2>2, <2>3, KnownKeepsItsId
    <3> QED
      BY <2>1, <2>3, <2>4, <3>1
  <2>6. Record("file", e.path, index.file[e.path], index.print[e.path]) \in RecordsOf(index)
    BY DEF RecordsOf
  <2> QED
    BY <2>5, <2>6 DEF Record
<1>12. KeptTrue'
  <2>1. /\ kept'["store"] = kept["store"] \intersect index.files
        /\ kept'["root"] = kept["root"] \intersect index.files
        /\ Recorded("file")' = {r \in RecordsOf(index) : r.kind = "file"}
        /\ store' = store /\ root' = root
    BY <1>1 DEF Recorded
  <2>2. KeptIn(kept["store"], store) /\ KeptIn(kept["root"], root)
    BY DEF TreeInv, KeptTrue
  <2>3. /\ store # Nothing => \A e \in FilesOf(store) :
              e.path \in kept["store"] \intersect index.files =>
                  \E r \in RecordsOf(index) : r.kind = "file" /\ r.path = e.path /\ r.id = e.id
        /\ root # Nothing => \A e \in FilesOf(root) :
              e.path \in kept["root"] \intersect index.files =>
                  \E r \in RecordsOf(index) : r.kind = "file" /\ r.path = e.path /\ r.id = e.id
    BY <1>11, <2>2
  <2>4. KeptIn(kept["store"], store)'
    BY <2>1, <2>3 DEF KeptIn
  <2>5. KeptIn(kept["root"], root)'
    BY <2>1, <2>3 DEF KeptIn
  <2> QED
    BY <2>4, <2>5 DEF KeptTrue
<1> QED
  BY <1>6, <1>7, <1>8, <1>9, <1>10, <1>12 DEF TreeInv

LEMMA ReplaceSnapshotKeeps == TreeInv /\ ReplaceSnapshot => TreeInv'
<1> SUFFICES ASSUME TreeInv, ReplaceSnapshot
             PROVE  TreeInv'
  OBVIOUS
<1>1. /\ at' = [stage |-> "stored", left |-> {}] /\ Stage("registered")
      /\ store' = Built(index) /\ kept' = [kept EXCEPT !["store"] = index.files]
      /\ UNCHANGED <<world, registry, root, folder, index, spent, steady>>
  BY DEF ReplaceSnapshot, Move
<1>2. IndexShaped(index) /\ index.files \subseteq Files
  BY DEF TreeInv, Shape, IndexShaped
<1>3. /\ kept' \in [{"store", "root"} -> SUBSET Files]
      /\ kept'["store"] = index.files /\ kept'["root"] = kept["root"]
  BY <1>1, <1>2 DEF TreeInv, Shape
<1>4. Shape'
  BY <1>1, <1>3 DEF TreeInv, Shape, Stages, Idle, Stage, world
<1>5. Snapshots'
  BY <1>1, <1>2, BuiltClosed DEF TreeInv, Snapshots
<1>6. Indexed'
  BY <1>1 DEF Indexed, Stage
<1>7. Scanned'
  BY <1>1, SameWalk DEF TreeInv, Scanned, Stage, Idle, FileAt
<1>8. RegistryKeeps' /\ Stored'
  BY <1>1 DEF TreeInv, RegistryKeeps, Stored, Recorded, Stage, Duplicate
<1>9. KeptIn(kept["store"], store)'
  <2>1. \A e \in FilesOf(store') : \E r \in Recorded("file") : r.path = e.path /\ r.id = e.id
    <3>1. registry.records = RecordsOf(index)
      BY <1>1 DEF TreeInv, Stored, Stage
    <3>2. FilesOf(store') = {Moon(index, f) : f \in index.files}
      BY <1>1, <1>2, BuiltFiles
    <3>3. \A f \in index.files :
              /\ Moon(index, f).path = f /\ Moon(index, f).id = index.file[f]
              /\ Record("file", f, index.file[f], index.print[f]) \in Recorded("file")
      BY <3>1 DEF Moon, Entity, Recorded, RecordsOf, Record
    <3>4. \A f \in index.files : \E r \in Recorded("file") : r.path = f /\ r.id = index.file[f]
      BY <3>3 DEF Record
    <3> QED
      BY <3>2, <3>3, <3>4
  <2> QED
    BY <1>1, <2>1 DEF KeptIn, Recorded
<1>10. KeptIn(kept["root"], root)'
  BY <1>1, <1>3 DEF TreeInv, KeptTrue, KeptIn, Recorded
<1> QED
  BY <1>4, <1>5, <1>6, <1>7, <1>8, <1>9, <1>10 DEF TreeInv, KeptTrue

LEMMA WriteRootKeeps == TreeInv /\ WriteRoot => TreeInv'
<1> SUFFICES ASSUME TreeInv, WriteRoot
             PROVE  TreeInv'
  OBVIOUS
<1>1. /\ at' = [stage |-> "rooted", left |-> FoldersOf(store)] /\ Stage("stored")
      /\ root' = Portable(store) /\ kept' = [kept EXCEPT !["root"] = kept["store"]]
      /\ UNCHANGED <<world, registry, store, folder, index, spent, steady>>
  BY DEF WriteRoot, Move
<1>2. IndexShaped(index) /\ store = Built(index)
  BY <1>1 DEF TreeInv, Shape, Stored, Stage
<1>3. FoldersOf(store) \subseteq Planets
  BY <1>2, BuiltFiles DEF IndexShaped, PlanetsIn, Planets
<1>4. /\ kept' \in [{"store", "root"} -> SUBSET Files]
      /\ kept'["store"] = kept["store"] /\ kept'["root"] = kept["store"]
  BY <1>1 DEF TreeInv, Shape
<1>5. Shape'
  BY <1>1, <1>3, <1>4 DEF TreeInv, Shape, Stages, Idle, Stage, world
<1>6. Snapshots'
  BY <1>1, <1>2, BuiltClosed DEF TreeInv, Snapshots
<1>7. Indexed'
  BY <1>1 DEF Indexed, Stage
<1>8. Scanned'
  BY <1>1, SameWalk DEF TreeInv, Scanned, Stage, Idle, FileAt
<1>9. RegistryKeeps' /\ Stored'
  BY <1>1 DEF TreeInv, RegistryKeeps, Stored, Recorded, Stage, Duplicate
<1>10. KeptIn(kept["store"], store)'
  BY <1>1, <1>4 DEF TreeInv, KeptTrue, KeptIn, Recorded
<1>11. KeptIn(kept["root"], root)'
  <2>1. FilesOf(root') = FilesOf(store) /\ store # Nothing
    BY <1>1, <1>2, BuiltFiles
  <2> QED
    BY <1>1, <1>4, <2>1 DEF TreeInv, KeptTrue, KeptIn, Recorded
<1> QED
  BY <1>5, <1>6, <1>7, <1>8, <1>9, <1>10, <1>11 DEF TreeInv, KeptTrue

LEMMA WriteFolderKeeps == TreeInv /\ WriteFolder => TreeInv'
<1> SUFFICES ASSUME TreeInv, WriteFolder
             PROVE  TreeInv'
  OBVIOUS
<1>1. PICK p \in at.left :
          /\ folder' = [folder EXCEPT ![p] = FolderIdx(store, p)]
          /\ at' = [stage |-> "rooted", left |-> at.left \ {p}]
  BY DEF WriteFolder, Move
<1>2. Stage("rooted") /\ UNCHANGED <<world, registry, store, root, index, spent, kept, steady>>
  BY DEF WriteFolder
<1>3. IndexShaped(index) /\ store = Built(index) /\ at.left \subseteq Planets
  BY <1>2 DEF TreeInv, Shape, Stored, Stage
<1>4. FoldersOf(store) \subseteq Planets
  BY <1>3, BuiltFiles DEF IndexShaped, PlanetsIn, Planets
<1>5. Shape'
  BY <1>1, <1>2, <1>3 DEF TreeInv, Shape, Stages, Idle, Stage, world
<1>6. Snapshots'
  <2>1. DOMAIN folder' = Planets
    BY <1>1 DEF TreeInv, Snapshots
  <2>2. FolderIdx(store, p).children \subseteq Planets \ {p}
    BY <1>4 DEF FolderIdx, ChildrenOf
  <2>3. ASSUME NEW q \in Planets, folder'[q] # Nothing
        PROVE  folder'[q].children \subseteq Planets \ {q}
    BY <1>1, <2>2, <2>3 DEF TreeInv, Snapshots
  <2> QED
    BY <1>2, <2>1, <2>3 DEF TreeInv, Snapshots
<1>7. Indexed'
  BY <1>1 DEF Indexed, Stage
<1>8. Scanned'
  BY <1>1, <1>2, SameWalk DEF TreeInv, Scanned, Stage, Idle, FileAt
<1>9. RegistryKeeps' /\ KeptTrue'
  BY <1>2 DEF TreeInv, RegistryKeeps, KeptTrue, KeptIn, Recorded
<1>10. Stored'
  <2>1. /\ ~Duplicate(index) /\ registry = [records |-> RecordsOf(index), last |-> {index.print}]
        /\ root = Portable(store)
        /\ \A q \in FoldersOf(store) \ at.left : folder[q] = FolderIdx(store, q)
    BY <1>2 DEF TreeInv, Stored, Stage
  <2>2. ASSUME NEW q \in FoldersOf(store) \ (at.left \ {p})
        PROVE  folder'[q] = FolderIdx(store, q)
    BY <1>1, <1>4, <2>1 DEF TreeInv, Snapshots
  <2> QED
    BY <1>1, <1>2, <1>3, <2>1, <2>2 DEF Stored, Stage, Duplicate
<1> QED
  BY <1>5, <1>6, <1>7, <1>8, <1>9, <1>10 DEF TreeInv

LEMMA RebuildStepKeeps == TreeInv /\ Rebuild => TreeInv'
<1> SUFFICES ASSUME TreeInv, Rebuild
             PROVE  TreeInv'
  OBVIOUS
<1>1. /\ Idle /\ root # Nothing /\ store' = root
      /\ kept' = [kept EXCEPT !["store"] = kept["root"]]
      /\ UNCHANGED <<world, registry, root, folder, at, index, steady, spent>>
  BY DEF Rebuild
<1>2. at.stage = "idle"
  BY <1>1 DEF Idle
<1>3. /\ kept' \in [{"store", "root"} -> SUBSET Files]
      /\ kept'["store"] = kept["root"] /\ kept'["root"] = kept["root"]
  BY <1>1 DEF TreeInv, Shape
<1>4. Shape' /\ Snapshots'
  BY <1>1, <1>3 DEF TreeInv, Shape, Snapshots, Idle, Stage, world
<1>5. Indexed' /\ Scanned' /\ RegistryKeeps' /\ Stored'
  BY <1>1, <1>2 DEF TreeInv, Indexed, Scanned, RegistryKeeps, Recorded, Stored, Idle, Stage
<1>6. KeptIn(kept["store"], store)' /\ KeptIn(kept["root"], root)'
  BY <1>1, <1>3 DEF TreeInv, KeptTrue, KeptIn, Recorded
<1> QED
  BY <1>4, <1>5, <1>6 DEF TreeInv, KeptTrue

\* A fault is counted.
LEMMA FaultSpends ==
    ASSUME TreeInv, Fault
    PROVE  spent' \in [edits : 0..MaxEdits, faults : 0..MaxFaults]
<1>1. spent \in [edits : 0..MaxEdits, faults : 0..MaxFaults]
  BY DEF TreeInv, Shape
<1> QED
  BY <1>1, BoundsAssumption DEF Fault

LEMMA DeleteDatabaseKeeps == TreeInv /\ DeleteDatabase => TreeInv'
<1> SUFFICES ASSUME TreeInv, DeleteDatabase
             PROVE  TreeInv'
  OBVIOUS
<1>0. spent' \in [edits : 0..MaxEdits, faults : 0..MaxFaults]
  BY FaultSpends DEF DeleteDatabase
<1>1. /\ Idle /\ store' = Nothing /\ kept' = [kept EXCEPT !["store"] = {}]
      /\ UNCHANGED <<world, registry, root, folder, at, index, steady>>
  BY DEF DeleteDatabase
<1>2. at.stage = "idle"
  BY <1>1 DEF Idle
<1>3. /\ kept' \in [{"store", "root"} -> SUBSET Files]
      /\ kept'["root"] = kept["root"]
  BY <1>1 DEF TreeInv, Shape
<1>4. Shape' /\ Snapshots'
  BY <1>0, <1>1, <1>3 DEF TreeInv, Shape, Snapshots, Idle, Stage, world
<1>5. Indexed' /\ Scanned' /\ RegistryKeeps' /\ Stored'
  BY <1>1, <1>2 DEF TreeInv, Indexed, Scanned, RegistryKeeps, Recorded, Stored, Idle, Stage
<1>6. KeptIn(kept["store"], store)' /\ KeptIn(kept["root"], root)'
  BY <1>1, <1>3 DEF TreeInv, KeptTrue, KeptIn, Recorded
<1> QED
  BY <1>4, <1>5, <1>6 DEF TreeInv, KeptTrue

\* An edit is of the world alone, and the tree no longer keeps still.
LEMMA EditKeeps ==
    ASSUME TreeInv, Edited,
           tree' \in [Files -> Content \union {None}],
           locked' \subseteq Files \union Planets, config' \in Configs
    PROVE  TreeInv'
<1>1. /\ UNCHANGED <<registry, store, root, folder, at, index, kept>> /\ steady' = FALSE
      /\ spent' \in [edits : 0..MaxEdits, faults : 0..MaxFaults]
  BY BoundsAssumption DEF Edited, disk, TreeInv, Shape
<1>2. Shape' /\ Snapshots'
  BY <1>1 DEF TreeInv, Shape, Snapshots, Idle, Stage
<1>3. Indexed' /\ Scanned' /\ RegistryKeeps' /\ KeptTrue'
  BY <1>1 DEF TreeInv, Indexed, Scanned, RegistryKeeps, KeptTrue, KeptIn, Recorded, Stage
<1>4. Stored'
  BY <1>1 DEF TreeInv, Stored, Stage, Duplicate
<1> QED
  BY <1>2, <1>3, <1>4 DEF TreeInv

-----------------------------------------------------------------------------
\* What a scan has written, in the registry, the store, the root and the folders, is of
\* its index; and the registry has the ids of the files that no scan has missed.
THEOREM TreeInvariant == Spec => []TreeInv
<1>1. Init => TreeInv
  BY TreeInvInit
<1>2. TreeInv /\ [Next]_vars => TreeInv'
  <2> SUFFICES ASSUME TreeInv, [Next]_vars
               PROVE  TreeInv'
    OBVIOUS
  <2>1. CASE Walk
    BY <2>1, WalkKeeps
  <2>2. CASE Refuse \/ Finish
    <3>1. spent' \in [edits : 0..MaxEdits, faults : 0..MaxFaults]
      BY <2>2 DEF Refuse, Finish, TreeInv, Shape
    <3> QED
      BY <2>2, <3>1, EndKeeps DEF Refuse, Finish
  <2>3. CASE WriteRegistry
    BY <2>3, WriteRegistryKeeps
  <2>4. CASE ReplaceSnapshot
    BY <2>4, ReplaceSnapshotKeeps
  <2>5. CASE WriteRoot
    BY <2>5, WriteRootKeeps
  <2>6. CASE WriteFolder
    BY <2>6, WriteFolderKeeps
  <2>7. CASE Rebuild
    BY <2>7, RebuildStepKeeps
  <2>8. CASE Write \/ Rename \/ Delete \/ Lock \/ Configure
    <3>0. /\ tree \in [Files -> Content \union {None}]
          /\ locked \subseteq Files \union Planets /\ config \in Configs
      BY DEF TreeInv, Shape
    <3>1. Edited
      BY <2>8 DEF Write, Rename, Delete, Lock, Configure
    <3>2. tree' \in [Files -> Content \union {None}]
      <4>1. CASE Write
        BY <3>0, <4>1 DEF Write
      <4>2. CASE Rename
        BY <3>0, <4>2 DEF Rename
      <4>3. CASE Delete
        BY <3>0, <4>3 DEF Delete
      <4>4. CASE Lock \/ Configure
        BY <3>0, <4>4 DEF Lock, Configure
      <4> QED
        BY <2>8, <4>1, <4>2, <4>3, <4>4
    <3>3. locked' \subseteq Files \union Planets
      BY <2>8, <3>0 DEF Write, Rename, Delete, Lock, Configure
    <3>4. config' \in Configs
      BY <2>8, <3>0 DEF Write, Rename, Delete, Lock, Configure
    <3> QED
      BY <3>1, <3>2, <3>3, <3>4, EditKeeps
  <2>9. CASE Die
    BY <2>9, FaultSpends, EndKeeps DEF Die
  <2>10. CASE DeleteDatabase
    BY <2>10, DeleteDatabaseKeeps
  <2>11. CASE UNCHANGED vars
    <3>1. UNCHANGED <<tree, locked, config, registry, store, root, folder, at, index, spent,
                      kept, steady>>
      BY <2>11 DEF vars, world, disk
    <3>2. Shape' /\ Snapshots'
      BY <3>1 DEF TreeInv, Shape, Snapshots, Stage, Idle
    <3>3. Indexed' /\ RegistryKeeps' /\ KeptTrue'
      BY <3>1 DEF TreeInv, Indexed, RegistryKeeps, KeptTrue, KeptIn, Recorded, Stage
    <3>4. Scanned'
      BY <3>1, SameWalk DEF TreeInv, Scanned, Idle, FileAt, world
    <3>5. Stored'
      BY <3>1 DEF TreeInv, Stored, Stage, Duplicate
    <3> QED
      BY <3>2, <3>3, <3>4, <3>5 DEF TreeInv
  <2> QED
    BY <2>1, <2>2, <2>3, <2>4, <2>5, <2>6, <2>7, <2>8, <2>9, <2>10, <2>11 DEF Next
<1> QED
  BY <1>1, <1>2, PTL DEF Spec

\* Every entity and every edge of a snapshot leads to entities of it, through every scan,
\* fault and rebuild (build_snapshot, rebuild_repository_from_portable).
THEOREM TreeTypes == Spec => []TypeOK
  BY InvTypes, TreeInvariant, PTL

\* An id is shared in three ways only (reconcile_id).
THEOREM SharedOnlyByReuseAlways == Spec => []SharedOnlyByReuse
  BY InvShares, TreeInvariant, PTL

\* A scan that misses a file that fits, of a directory that it enters, says so
\* (collect_files).
THEOREM ShortIsMarkedAlways == Spec => []ShortIsMarked
  BY InvMarks, TreeInvariant, PTL

\* A pass that ends leaves one snapshot in the registry, the store and the projections
\* (build_snapshot, replace_snapshot, write_projections).
THEOREM PassAgreesAlways == Spec => []PassAgrees
  BY InvAgrees, TreeInvariant, PTL

\* The slices of scan-layered make the snapshot of scan (build_directory_entities).
THEOREM SlicesMakeTheWholeAlways == Spec => []SlicesMakeTheWhole
  BY InvSlices, TreeInvariant, PTL

-----------------------------------------------------------------------------
(* Ids over time.                                                          *)

LEMMA StepFound == TreeInv /\ [Next]_vars => FoundKeepTheirIds
<1> SUFFICES ASSUME TreeInv, [Next]_vars,
                    store' # store, store # Nothing, store' # Nothing, Stage("registered"),
                    NEW e \in FilesOf(store), NEW n \in FilesOf(store'),
                    e.path = n.path, e.path \in kept.store
             PROVE  e.id = n.id
  BY DEF FoundKeepTheirIds
<1>1. ReplaceSnapshot
  BY DEF Next, Walk, Refuse, WriteRegistry, WriteRoot, WriteFolder, Finish, Rebuild, Write,
         Rename, Delete, Lock, Configure, Die, DeleteDatabase, Edited, Idle, Stage, vars, disk
<1>2. PICK r \in Recorded("file") : r.path = e.path /\ r.id = e.id
  BY DEF TreeInv, KeptTrue, KeptIn
<1>3. IndexShaped(index) /\ registry.records = RecordsOf(index) /\ store' = Built(index)
  BY <1>1 DEF TreeInv, Shape, Stored, Stage, ReplaceSnapshot
<1>4. PICK f \in index.files : n = Moon(index, f)
  BY <1>3, BuiltFiles
<1>5. n.path = f /\ n.id = index.file[f]
  BY <1>4 DEF Moon, Entity
<1>6. PICK g \in index.files : r = Record("file", g, index.file[g], index.print[g])
  BY <1>3 DEF Recorded, RecordsOf, Record
<1> QED
  BY <1>2, <1>5, <1>6 DEF Record

LEMMA StepMoved == TreeInv /\ [Next]_vars => MovedKeepTheirIds
<1> SUFFICES ASSUME TreeInv, [Next]_vars, registry' # registry,
                    NEW r \in Recorded("file"),
                    {q \in Recorded("file") : q.print = r.print /\ q.path \notin index.files}
                      = {r},
                    NEW f \in index.files, ~Known("file", f), index.print[f] = r.print
             PROVE  index.file[f] = r.id
  BY DEF MovedKeepTheirIds
<1>1. Stage("walked")
  BY DEF Next, Walk, Refuse, WriteRegistry, ReplaceSnapshot, WriteRoot, WriteFolder, Finish,
         Rebuild, Write, Rename, Delete, Lock, Configure, Die, DeleteDatabase, Edited, vars, disk
<1>2. DOMAIN index.file = index.files
  BY DEF TreeInv, Shape, IndexShaped
<1>3. index.file[f] = ReconcileId(registry.records, "file", f, index.print[f], index.files)
  BY <1>1, <1>2 DEF TreeInv, Indexed, Ids, Prints, Kinds
<1>4. {s \in registry.records : s.kind = "file" /\ s.path = f} = {}
  BY DEF Known, Recorded
<1>5. {s \in registry.records :
          s.kind = "file" /\ s.print = index.print[f] /\ s.path \notin index.files} = {r}
  BY DEF Recorded
<1>6. ReconcileId(registry.records, "file", f, index.print[f], index.files) = r.id
  BY <1>4, <1>5, MovedKeepsItsId
<1> QED
  BY <1>3, <1>6

\* A file that every scan finds keeps its id in the store, and one that is moved takes its
\* id along (reconcile_id), whatever dies and is rebuilt in between.
THEOREM IdentityFollowsAlways == Spec => IdentityFollows
<1>1. Spec => [][FoundKeepTheirIds /\ MovedKeepTheirIds]_vars
  <2>1. TreeInv /\ [Next]_vars => [FoundKeepTheirIds /\ MovedKeepTheirIds]_vars
    BY StepFound, StepMoved
  <2> QED
    BY <2>1, TreeInvariant, PTL DEF Spec
<1> QED
  BY <1>1 DEF IdentityFollows
=============================================================================
