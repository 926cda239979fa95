-------------------------- MODULE LayeredScanProofs --------------------------
(***************************************************************************)
(* Proofs about LayeredScan, for any number of directories, any trees and  *)
(* any requirements between them: its types, and that a layered scan that  *)
(* nobody disturbs makes the store exact, keeps the identities and the     *)
(* summaries of a whole store in files of kind File, and doubles none of   *)
(* their declarations.                                                     *)
(***************************************************************************)
EXTENDS LayeredScan, TLAPS

Running == phase \in {"build", "persist", "stitch", "finalize"}

\* The scan has stored d; has read d; has stitched d.
Stored(d) == \/ phase \in {"stitch", "finalize"}
             \/ phase \in {"build", "persist"} /\ d < at
Harvested(d) == Stored(d) \/ (phase = "persist" /\ d = at)
Stitched(d) == phase = "finalize" \/ (phase = "stitch" /\ d < at)

\* The declarations of d under the stamp of the tree.
Ours(d) == {s \in Rows(d) : symbols[s].stamp = tree}
FileIsOurs(d) == d \in DOMAIN files /\ files[d].stamp = tree

\* What the store says of a directory that a scan of a whole store has not reached.
Kept(d) ==
    \/ current = {} /\ d \notin DOMAIN files /\ Rows(d) = {}
    \/ \E t \in current : Described(t, d)

Linked(d) == IF Stitched(d) THEN Met(tree, d) ELSE Needs[d] = d /\ Declares(tree, d)

\* The loop starts at the first directory with nothing harvested.
LoopIsAtItsStart ==
    /\ phase \in {"idle", "open"} => at = 1 /\ parsed = {} /\ provides = {}
    /\ phase = "persist" => at \in DOMAIN index

\* In a file of another kind than File, an id has the line that its declaration is on.
RowsAreMinted ==
    /\ \A s \in DOMAIN symbols : s.dir \in OfKindFile \/ symbols[s].line = s.line
    /\ \A s \in DOMAIN sub : s.dir \in OfKindFile \/ sub[s].line = s.line

\* An undisturbed scan is of the tree, over the snapshot that is current.
ScanIsOfTheTree == calm => phase # "idle" /\ index = tree /\ (Running => prev = current)

\* It has harvested what the directories that it has read hold.
HarvestIsTrue ==
    calm /\ Running => \A d \in Dir :
        /\ d \in parsed <=> d \in DOMAIN tree /\ Harvested(d)
        /\ d \in provides <=> Declares(tree, d) /\ Harvested(d)

\* What it is about to store is what the tree and the snapshot before say.
SubIsTrue ==
    calm /\ phase = "persist" =>
        IF Declares(tree, at)
        THEN \E s \in Reconciled(at, tree[at], Earlier(at)) :
                sub = [x \in {s} |-> Row(tree, at, s \in Earlier(at) /\ symbols[s].summary)]
        ELSE sub = Empty

\* What it has stored is there.
StoredIsTrue ==
    calm /\ Running => \A d \in Dir : Stored(d) =>
        /\ d \in DOMAIN tree =>
              d \in DOMAIN files /\ files[d] = [stamp |-> tree, linked |-> Linked(d)]
        /\ Declares(tree, d) => \E s \in Ours(d) : symbols[s].line = tree[d]

\* Nothing else is there under the stamp of the tree ...
OursAlone ==
    calm /\ Running => \A d \in Dir : Stored(d) /\ (whole \/ d \notin leftover) =>
        /\ d \notin DOMAIN tree => ~FileIsOurs(d)
        /\ ~Declares(tree, d) => Ours(d) = {}
        /\ \A r, s \in Ours(d) : r = s

\* ... nor in a directory that it has not reached.
NothingOursAhead ==
    calm /\ (Running \/ phase = "open") => \A d \in Dir \ leftover : ~Stored(d) =>
        ~FileIsOurs(d) /\ Ours(d) = {}

\* In a whole store, such a directory is as it was.
AheadIsKept ==
    calm /\ whole /\ (Running \/ phase = "open") => \A d \in Dir : ~Stored(d) => Kept(d)

Inv ==
    /\ TypeOK
    /\ LoopIsAtItsStart
    /\ RowsAreMinted
    /\ ScanIsOfTheTree
    /\ HarvestIsTrue
    /\ SubIsTrue
    /\ StoredIsTrue
    /\ OursAlone
    /\ NothingOursAhead
    /\ AheadIsKept
    /\ NothingIsDoubled
    /\ ExactButForLeftovers

-----------------------------------------------------------------------------
(* Types.                                                                  *)

LEMMA TreeType == ASSUME NEW t \in Trees
                  PROVE  /\ DOMAIN t \subseteq Dir
                         /\ \A d \in DOMAIN t : t[d] \in Line \union {NoDecl}
<1>1. PICK S \in SUBSET Dir : t \in [S -> Line \union {NoDecl}]
    BY TreesAssumption DEF Partial
<1> QED
    BY <1>1

\* A table of rows is as well typed as its rows.
LEMMA RowsAre ==
    ASSUME NEW f, NEW D, NEW R
    PROVE  RowsOf(f, D, R) <=> /\ DOMAIN f \subseteq D /\ f = [x \in DOMAIN f |-> f[x]]
                               /\ \A x \in DOMAIN f : f[x] \in R
BY DEF RowsOf

LEMMA EmptyIsRows == ASSUME NEW D, NEW R
                     PROVE  RowsOf(Empty, D, R) /\ DOMAIN Empty = {}
BY DEF RowsOf, Empty

LEMMA UpsertIsRows ==
    ASSUME NEW D, NEW R, NEW old, NEW new, RowsOf(old, D, R), RowsOf(new, D, R)
    PROVE  RowsOf(Upsert(old, new), D, R)
BY DEF RowsOf, Upsert

LEMMA StampedIsRows ==
    ASSUME NEW D, NEW R, NEW rows, NEW t, RowsOf(rows, D, R)
    PROVE  RowsOf(Stamped(rows, t), D, R)
BY DEF RowsOf, Stamped

LEMMA DeclaresType ==
    ASSUME NEW t \in Trees, NEW d, Declares(t, d)
    PROVE  d \in Dir /\ t[d] \in Line
<1>1. d \in DOMAIN t /\ t[d] # NoDecl
    BY DEF Declares
<1> QED
    BY <1>1, TreeType

LEMMA EarlierAre == ASSUME NEW d PROVE Earlier(d) \subseteq Rows(d)
BY DEF Earlier, Subtree

LEMMA ReconciledType ==
    ASSUME NEW d \in Dir, NEW line \in Line, NEW earlier \in SUBSET SymbolId,
           \A s \in earlier : s.dir = d, NEW s \in Reconciled(d, line, earlier)
    PROVE  s \in SymbolId /\ s.dir = d
BY DEF Reconciled, Fresh, SymbolId

LEMMA RowType ==
    ASSUME tree \in Trees, NEW t \in Trees, NEW d, Declares(tree, d),
           NEW summary \in BOOLEAN
    PROVE  Row(t, d, summary) \in SymbolRow
BY DeclaresType DEF Row, SymbolRow

LEMMA MetType == ASSUME NEW t, NEW d PROVE Met(t, d) \in BOOLEAN
BY DEF Met, Declares

LEMMA NextDirType ==
    ASSUME at \in Dir, NEW next \in {"build", "stitch"}, NextDir(next)
    PROVE  at' \in Dir /\ phase' \in {"build", "stitch", "finalize"}
BY BoundsAssumption DEF NextDir, Dir

LEMMA InitType == ASSUME Init PROVE TypeOK
<1>1. /\ RowsOf(files, Dir, FileRow) /\ RowsOf(symbols, SymbolId, SymbolRow)
      /\ RowsOf(sub, SymbolId, SymbolRow)
    BY EmptyIsRows DEF Init
<1>2. at \in Dir
    BY BoundsAssumption DEF Init, Dir
<1> QED
    BY <1>1, <1>2 DEF Init, TypeOK

LEMMA BuildType == ASSUME TypeOK, Build PROVE TypeOK'
<1>1. /\ at \in DOMAIN index /\ at \in Dir /\ phase' = "persist"
      /\ UNCHANGED <<tree, current, files, symbols, index, prev, at, calm, begun, alone>>
    BY DEF Build, TypeOK, store
<1>2. parsed' \subseteq Dir /\ provides' \subseteq parsed'
    BY <1>1 DEF Build, TypeOK, Declares
<1>3. RowsOf(sub', SymbolId, SymbolRow)
    <2>1. CASE ~Declares(tree, at)
        BY <2>1, EmptyIsRows DEF Build
    <2>2. CASE Declares(tree, at)
        <3>1. PICK s \in Reconciled(at, tree[at], Earlier(at)) :
                 sub' = [x \in {s} |->
                            Row(index, at, s \in Earlier(at) /\ symbols[s].summary)]
            BY <2>2 DEF Build
        <3>2. Earlier(at) \subseteq SymbolId /\ \A x \in Earlier(at) : x.dir = at
            BY EarlierAre DEF Rows, TypeOK, RowsOf
        <3>3. tree[at] \in Line /\ tree \in Trees /\ index \in Trees
            BY <2>2, DeclaresType DEF TypeOK
        <3>4. s \in SymbolId
            BY <3>2, <3>3, <1>1, ReconciledType
        <3>5. (s \in Earlier(at) /\ symbols[s].summary) \in BOOLEAN
            <4>1. CASE s \in Earlier(at)
                <5>1. s \in DOMAIN symbols
                    BY <4>1, EarlierAre DEF Rows
                <5>2. symbols[s] \in SymbolRow
                    BY <5>1 DEF TypeOK, RowsOf
                <5> QED
                    BY <5>2 DEF SymbolRow
            <4>2. CASE s \notin Earlier(at)
                BY <4>2
            <4> QED
                BY <4>1, <4>2
        <3>6. Row(index, at, s \in Earlier(at) /\ symbols[s].summary) \in SymbolRow
            BY <2>2, <3>3, <3>5, RowType
        <3> QED
            BY <3>1, <3>4, <3>6 DEF RowsOf
    <2> QED
        BY <2>1, <2>2
<1> QED
    BY <1>1, <1>2, <1>3 DEF TypeOK, begun

LEMMA PersistType == ASSUME TypeOK, Persist PROVE TypeOK'
<1>1. /\ phase = "persist" /\ NextDir("build") /\ sub' = Empty /\ at \in Dir
      /\ UNCHANGED <<tree, current, index, prev, parsed, provides, calm, begun, alone>>
    BY DEF Persist, TypeOK
<1>2. RowsOf([d \in {at} |-> [stamp |-> index, linked |-> at \in provides /\ Needs[at] = at]],
             Dir, FileRow)
    BY DEF TypeOK, RowsOf, FileRow
<1>3. RowsOf(files', Dir, FileRow)
    BY <1>2, UpsertIsRows DEF Persist, TypeOK
<1>4. RowsOf(symbols', SymbolId, SymbolRow)
    BY UpsertIsRows DEF Persist, TypeOK
<1>5. at' \in Dir /\ phase' \in {"build", "stitch", "finalize"}
    BY <1>1, NextDirType
<1>6. RowsOf(sub', SymbolId, SymbolRow)
    BY <1>1, EmptyIsRows
<1> QED
    BY <1>1, <1>3, <1>4, <1>5, <1>6 DEF TypeOK, begun

LEMMA StitchType == ASSUME TypeOK, Stitch PROVE TypeOK'
<1>1. /\ NextDir("stitch") /\ at \in Dir
      /\ UNCHANGED <<tree, current, symbols, index, prev, sub, parsed, provides, calm,
                     begun, alone>>
    BY DEF Stitch, TypeOK
<1>2. RowsOf(files', Dir, FileRow)
    BY DEF Stitch, TypeOK, RowsOf, FileRow
<1>3. at' \in Dir /\ phase' \in {"build", "stitch", "finalize"}
    BY <1>1, NextDirType
<1> QED
    BY <1>1, <1>2, <1>3 DEF TypeOK, begun

LEMMA ReplaceType == ASSUME TypeOK, Replace PROVE TypeOK'
<1>1. /\ current' = {tree} /\ calm' = FALSE /\ alone' \in BOOLEAN
      /\ files' = [d \in DOMAIN tree |-> [stamp |-> tree, linked |-> Met(tree, d)]]
      /\ UNCHANGED <<tree, phase, index, prev, at, sub, parsed, provides, whole, leftover>>
    BY DEF Replace, scan, begun
<1>2. tree \in Trees /\ DOMAIN tree \subseteq Dir
    BY TreeType DEF TypeOK
<1>3. RowsOf(files', Dir, FileRow)
    BY <1>1, <1>2, MetType DEF RowsOf, FileRow
<1>4. RowsOf(symbols', SymbolId, SymbolRow)
    <2>1. PICK id \in [{d \in Dir : Declares(tree, d)} -> SymbolId] :
             /\ \A d \in DOMAIN id : id[d] \in Reconciled(d, tree[d], Known(d))
             /\ symbols' = [s \in Range(id) |->
                               Row(tree, s.dir, s \in Known(s.dir) /\ symbols[s].summary)]
        BY DEF Replace
    <2>2. ASSUME NEW s \in Range(id)
          PROVE  /\ s \in SymbolId
                 /\ Row(tree, s.dir, s \in Known(s.dir) /\ symbols[s].summary) \in SymbolRow
        <3>1. PICK d \in DOMAIN id : s = id[d]
            BY DEF Range
        <3>2. d \in Dir /\ Declares(tree, d) /\ s \in SymbolId
            BY <3>1
        <3>3. tree[d] \in Line
            BY <1>2, <3>2, DeclaresType
        <3>4. Known(d) \subseteq SymbolId /\ \A x \in Known(d) : x.dir = d
            BY DEF Known, Rows, TypeOK, RowsOf
        <3>5. s \in Reconciled(d, tree[d], Known(d))
            BY <2>1, <3>1
        <3>6. s.dir = d
            BY <3>2, <3>3, <3>4, <3>5, ReconciledType
        <3>7. (s \in Known(s.dir) /\ symbols[s].summary) \in BOOLEAN
            <4>1. CASE s \in Known(s.dir)
                <5>1. s \in DOMAIN symbols
                    BY <4>1 DEF Known, Rows
                <5>2. symbols[s] \in SymbolRow
                    BY <5>1 DEF TypeOK, RowsOf
                <5> QED
                    BY <5>2 DEF SymbolRow
            <4>2. CASE s \notin Known(s.dir)
                BY <4>2
            <4> QED
                BY <4>1, <4>2
        <3> QED
            BY <1>2, <3>2, <3>6, <3>7, RowType
    <2> QED
        BY <2>1, <2>2 DEF RowsOf
<1> QED
    BY <1>1, <1>2, <1>3, <1>4 DEF TypeOK

LEMMA StoreAgainType ==
    ASSUME TypeOK, NEW summarised, StoreAgain(summarised)
    PROVE  TypeOK'
<1>1. PICK t \in current :
         /\ files' = [d \in DOMAIN files |-> [files[d] EXCEPT !.stamp = t]]
         /\ symbols' = [s \in DOMAIN symbols |->
                           [symbols[s] EXCEPT !.stamp = t,
                                              !.summary = @ \/ s.dir \in summarised]]
    BY DEF StoreAgain
<1>2. /\ calm' = FALSE /\ alone' \in BOOLEAN
      /\ UNCHANGED <<tree, current, phase, index, prev, at, sub, parsed, provides, whole,
                     leftover>>
    BY DEF StoreAgain, scan, begun
<1>3. t \in Trees
    BY DEF TypeOK
<1>4. RowsOf(files', Dir, FileRow)
    BY <1>1, <1>3 DEF TypeOK, RowsOf, FileRow
<1>5. RowsOf(symbols', SymbolId, SymbolRow)
    <2>1. ASSUME NEW s \in DOMAIN symbols
          PROVE  [symbols[s] EXCEPT !.stamp = t,
                                    !.summary = @ \/ s.dir \in summarised] \in SymbolRow
        <3>1. symbols[s] \in SymbolRow
            BY DEF TypeOK, RowsOf
        <3> QED
            BY <3>1, <1>3 DEF SymbolRow
    <2> QED
        BY <1>1, <2>1 DEF TypeOK, RowsOf
<1> QED
    BY <1>2, <1>4, <1>5 DEF TypeOK

LEMMA NextType == TypeOK /\ [Next]_vars => TypeOK'
<1> SUFFICES ASSUME TypeOK, [Next]_vars PROVE TypeOK'
    OBVIOUS
<1>1. CASE Begin
    <2>1. DOMAIN Stamped(files, tree) \subseteq Dir
        BY DEF Stamped, TypeOK, RowsOf
    <2>2. \A s \in DOMAIN Stamped(symbols, tree) : s.dir \in Dir
        BY DEF Stamped, TypeOK, RowsOf, SymbolId
    <2>3. leftover' \subseteq Dir
        BY <1>1, <2>1, <2>2 DEF Begin
    <2>4. whole' \in BOOLEAN
        BY <1>1 DEF Begin, Whole
    <2> QED
        BY <1>1, <2>3, <2>4 DEF Begin, TypeOK, store
<1>2. CASE Open
    BY <1>2 DEF Open, TypeOK, store, begun
<1>3. CASE Build
    BY <1>3, BuildType
<1>4. CASE SkipDir
    BY <1>4, NextDirType DEF SkipDir, TypeOK, store, begun
<1>5. CASE Persist
    BY <1>5, PersistType
<1>6. CASE Stitch
    BY <1>6, StitchType
<1>7. CASE Finalize
    <2>1. /\ RowsOf(files', Dir, FileRow) /\ RowsOf(symbols', SymbolId, SymbolRow)
        BY <1>7, StampedIsRows DEF Finalize, TypeOK
    <2> QED
        BY <1>7, <2>1 DEF Finalize, TypeOK, begun
<1>8. CASE Ends
    <2>1. RowsOf(sub', SymbolId, SymbolRow) /\ at' \in Dir
        BY <1>8, EmptyIsRows, BoundsAssumption DEF Ends, Dir
    <2> QED
        BY <1>8, <2>1 DEF Ends, TypeOK, store
<1>9. CASE \E t \in Trees : Edit(t)
    BY <1>9 DEF Edit, Whole, TypeOK, store, scan, begun
<1>10. CASE Replace
    BY <1>10, ReplaceType
<1>11. CASE \E summarised \in {{}, Summarised} : StoreAgain(summarised)
    BY <1>11, StoreAgainType
<1>12. CASE UNCHANGED vars
    BY <1>12 DEF vars, TypeOK, store, scan, begun
<1> QED
    BY <1>1, <1>2, <1>3, <1>4, <1>5, <1>6, <1>7, <1>8, <1>9, <1>10, <1>11, <1>12 DEF Next

\* Every state of the layered scan and of the store under it is well typed.
THEOREM TypeCorrect == Spec => []TypeOK
<1>1. Init => TypeOK
    BY InitType
<1>2. TypeOK /\ [Next]_vars => TypeOK'
    BY NextType
<1> QED
    BY <1>1, <1>2, PTL DEF Spec

-----------------------------------------------------------------------------
(* What the store says, and what changes it.                               *)

LEMMA RowsType == ASSUME TypeOK, NEW d, NEW s \in Rows(d)
                  PROVE  s \in SymbolId /\ s \in DOMAIN symbols /\ d \in Dir
BY DEF Rows, TypeOK, RowsOf, SymbolId

LEMMA StoreUnchanged ==
    ASSUME UNCHANGED <<tree, current, files, symbols>>, NEW d
    PROVE  /\ Rows(d)' = Rows(d) /\ Ours(d)' = Ours(d)
           /\ FileIsOurs(d)' <=> FileIsOurs(d)
           /\ Kept(d)' <=> Kept(d)
BY DEF Rows, Ours, FileIsOurs, Kept, Described, FileDescribes, SymbolDescribes

\* A whole store doubles no declaration.
LEMMA WholeIsSingle ==
    ASSUME TypeOK, Whole, NEW r \in DOMAIN symbols, NEW s \in DOMAIN symbols, r.dir = s.dir
    PROVE  r = s
<1>1. r \in Rows(r.dir) /\ s \in Rows(r.dir) /\ r.dir \in Dir
    BY DEF Rows, TypeOK, RowsOf, SymbolId
<1>2. PICK t \in current : SymbolDescribes(t, r.dir)
    BY <1>1 DEF Whole, Described
<1> QED
    BY <1>1, <1>2 DEF SymbolDescribes

LEMMA WholeIsKept == ASSUME Whole, NEW d \in Dir PROVE Kept(d)
<1>1. CASE current = {} /\ DOMAIN files = {} /\ DOMAIN symbols = {}
    BY <1>1 DEF Kept, Rows
<1>2. CASE \E t \in current : \A e \in Dir : Described(t, e)
    BY <1>2 DEF Kept
<1> QED
    BY <1>1, <1>2 DEF Whole

\* A scan of a whole store finds the identities of a directory that it has not stored.
LEMMA EarlierIsAll ==
    ASSUME NEW d, Kept(d), prev = current
    PROVE  Earlier(d) = Rows(d)
<1>1. CASE Rows(d) = {}
    BY <1>1, EarlierAre
<1>2. CASE Rows(d) # {}
    <2>1. PICK t \in current : Described(t, d)
        BY <1>2 DEF Kept
    <2>2. Declares(t, d)
        BY <1>2, <2>1 DEF Described, SymbolDescribes
    <2>3. d \in DOMAIN files /\ files[d].stamp = t
        BY <2>1, <2>2 DEF Described, FileDescribes, Declares
    <2>4. \A s \in Rows(d) : symbols[s].stamp = t
        BY <2>1, <2>2 DEF Described, SymbolDescribes
    <2>5. Subtree(d, t) = Rows(d)
        BY <2>3, <2>4 DEF Subtree
    <2>6. Rows(d) \subseteq Earlier(d)
        BY <2>1, <2>5 DEF Earlier
    <2> QED
        BY <2>6, EarlierAre
<1> QED
    BY <1>1, <1>2

\* Ahead of an undisturbed scan, only what the tree holds is there under its stamp.
LEMMA AheadIsClean ==
    ASSUME Inv, calm, Running, NEW d \in Dir, ~Stored(d), whole \/ d \notin leftover
    PROVE  /\ d \notin DOMAIN tree => ~FileIsOurs(d)
           /\ ~Declares(tree, d) => Ours(d) = {}
           /\ \A r, s \in Ours(d) : r = s
<1>1. CASE d \notin leftover
    BY <1>1 DEF Inv, NothingOursAhead
<1>2. CASE whole
    <2>1. Kept(d)
        BY <1>2 DEF Inv, AheadIsKept
    <2>2. CASE d \notin DOMAIN files /\ Rows(d) = {}
        BY <2>2 DEF FileIsOurs, Ours
    <2>3. CASE \E t \in current : Described(t, d)
        <3>1. PICK t \in current : FileDescribes(t, d) /\ SymbolDescribes(t, d)
            BY <2>3 DEF Described
        <3>2. FileIsOurs(d) => d \in DOMAIN tree
            BY <3>1 DEF FileIsOurs, FileDescribes
        <3>3. ASSUME NEW s \in Ours(d) PROVE Declares(tree, d) /\ Rows(d) = {s}
            <4>1. s \in Rows(d) /\ symbols[s].stamp = tree
                BY DEF Ours
            <4>2. Declares(t, d)
                BY <3>1, <4>1 DEF SymbolDescribes
            <4> QED
                BY <3>1, <4>1, <4>2 DEF SymbolDescribes
        <3> QED
            BY <3>2, <3>3 DEF Ours
    <2> QED
        BY <2>1, <2>2, <2>3 DEF Kept
<1> QED
    BY <1>1, <1>2

-----------------------------------------------------------------------------
(* The steps of an undisturbed scan.                                       *)

\* Whatever disturbs a scan, or ends it, leaves nothing to prove of it.
LEMMA DisturbedInv ==
    ASSUME TypeOK', LoopIsAtItsStart', RowsAreMinted', calm' = FALSE
    PROVE  Inv'
BY DEF Inv, ScanIsOfTheTree, HarvestIsTrue, SubIsTrue, StoredIsTrue, OursAlone,
       NothingOursAhead, AheadIsKept, NothingIsDoubled, ExactButForLeftovers

LEMMA LoopStep ==
    ASSUME TypeOK, LoopIsAtItsStart, [Next]_vars
    PROVE  LoopIsAtItsStart'
<1>1. CASE Persist \/ SkipDir \/ Stitch
    <2>1. /\ phase \notin {"idle", "open"} /\ index' = index
          /\ phase' \in {"build", "stitch", "finalize"}
        BY <1>1, NextDirType DEF Persist, SkipDir, Stitch, TypeOK
    <2> QED
        BY <2>1 DEF LoopIsAtItsStart
<1>2. CASE Begin \/ Open \/ Build \/ Finalize \/ Ends
    BY <1>2 DEF Begin, Open, Build, Finalize, Ends, LoopIsAtItsStart
<1>3. CASE UNCHANGED scan
    BY <1>3 DEF scan, LoopIsAtItsStart
<1> QED
    BY <1>1, <1>2, <1>3 DEF Next, Edit, Replace, StoreAgain, vars

LEMMA MintedStep ==
    ASSUME TypeOK, RowsAreMinted, [Next]_vars
    PROVE  RowsAreMinted'
<1>1. CASE Build
    <2>1. CASE ~Declares(tree, at)
        BY <1>1, <2>1 DEF Build, RowsAreMinted, Empty, store
    <2>2. CASE Declares(tree, at)
        <3>1. PICK s \in Reconciled(at, tree[at], Earlier(at)) :
                 sub' = [x \in {s} |->
                            Row(index, at, s \in Earlier(at) /\ symbols[s].summary)]
            BY <1>1, <2>2 DEF Build
        <3>2. \A x \in Earlier(at) : x.dir = at
            BY EarlierAre DEF Rows
        <3>3. s.dir = at /\ (at \in OfKindFile \/ tree[at] = s.line)
            BY <3>1, <3>2 DEF Reconciled, Fresh
        <3>4. sub'[s].line = tree[at] /\ DOMAIN sub' = {s}
            BY <3>1 DEF Row
        <3> QED
            BY <1>1, <3>3, <3>4 DEF Build, RowsAreMinted, store
    <2> QED
        BY <2>1, <2>2
<1>2. CASE Persist
    BY <1>2 DEF Persist, RowsAreMinted, Upsert, Empty
<1>3. CASE Finalize
    BY <1>3 DEF Finalize, RowsAreMinted, Stamped
<1>4. CASE Ends
    BY <1>4 DEF Ends, RowsAreMinted, Empty, store
<1>5. CASE Replace
    <2>1. PICK id \in [{d \in Dir : Declares(tree, d)} -> SymbolId] :
             /\ \A d \in DOMAIN id : id[d] \in Reconciled(d, tree[d], Known(d))
             /\ symbols' = [s \in Range(id) |->
                               Row(tree, s.dir, s \in Known(s.dir) /\ symbols[s].summary)]
        BY <1>5 DEF Replace
    <2>2. ASSUME NEW s \in DOMAIN symbols'
          PROVE  s.dir \in OfKindFile \/ symbols'[s].line = s.line
        <3>1. PICK d \in DOMAIN id : s = id[d]
            BY <2>1, <2>2 DEF Range
        <3>2. \A x \in Known(d) : x.dir = d
            BY DEF Known, Rows
        <3>3. d \in Dir /\ s \in Reconciled(d, tree[d], Known(d))
            BY <2>1, <3>1
        <3>4. s.dir = d /\ (d \in OfKindFile \/ tree[d] = s.line)
            BY <3>2, <3>3 DEF Reconciled, Fresh
        <3>5. symbols'[s].line = tree[s.dir]
            BY <2>1, <2>2 DEF Row
        <3> QED
            BY <3>4, <3>5
    <2> QED
        BY <1>5, <2>2 DEF Replace, RowsAreMinted, scan
<1>6. ASSUME NEW summarised, StoreAgain(summarised)
      PROVE  RowsAreMinted'
    <2>1. PICK t \in current :
             symbols' = [s \in DOMAIN symbols |->
                           [symbols[s] EXCEPT !.stamp = t,
                                              !.summary = @ \/ s.dir \in summarised]]
        BY <1>6 DEF StoreAgain
    <2>2. \A s \in DOMAIN symbols : symbols[s] \in SymbolRow
        BY DEF TypeOK, RowsOf
    <2>3. \A s \in DOMAIN symbols : symbols'[s].line = symbols[s].line
        BY <2>1, <2>2 DEF SymbolRow
    <2>4. DOMAIN symbols' = DOMAIN symbols /\ sub' = sub
        BY <1>6, <2>1 DEF StoreAgain, scan
    <2> QED
        BY <2>3, <2>4 DEF RowsAreMinted
<1>7. CASE UNCHANGED <<symbols, sub>>
    BY <1>7 DEF RowsAreMinted
<1> QED
    BY <1>1, <1>2, <1>3, <1>4, <1>5, <1>6, <1>7
       DEF Next, Begin, Open, SkipDir, Stitch, Edit, vars, store, scan

\* The loop over the directories moves on by one.
LEMMA NextDirStored ==
    ASSUME at \in Dir, phase \in {"build", "persist"}, NextDir("build"), NEW d \in Dir
    PROVE  /\ phase' \in {"build", "stitch"}
           /\ ~Stored(at)
           /\ Stored(d)' <=> Stored(d) \/ d = at
           /\ Harvested(d)' <=> Stored(d)'
           /\ ~Stitched(d)
           /\ ~Stitched(d)'
BY BoundsAssumption DEF NextDir, Dir, Stored, Harvested, Stitched

LEMMA BeginInv == ASSUME TypeOK, Begin, TypeOK', LoopIsAtItsStart', RowsAreMinted' PROVE Inv'
<1>1. /\ phase' = "open" /\ index' = tree /\ tree' = tree /\ whole' = Whole
      /\ UNCHANGED <<tree, current, files, symbols>>
      /\ leftover' = DOMAIN Stamped(files, tree)
                       \union {s.dir : s \in DOMAIN Stamped(symbols, tree)}
    BY DEF Begin, store
<1>2. ~Running'
    BY <1>1 DEF Running
<1>3. NothingOursAhead'
    <2>1. ASSUME NEW d \in Dir, d \notin leftover' PROVE ~FileIsOurs(d) /\ Ours(d) = {}
        <3>1. ~FileIsOurs(d)
            BY <1>1, <2>1 DEF FileIsOurs, Stamped
        <3>2. ASSUME NEW s \in Ours(d) PROVE FALSE
            <4>1. s \in DOMAIN Stamped(symbols, tree) /\ s.dir = d
                BY DEF Ours, Rows, Stamped
            <4> QED
                BY <1>1, <2>1, <4>1
        <3> QED
            BY <3>1, <3>2
    <2> QED
        BY <1>1, <2>1, StoreUnchanged DEF NothingOursAhead
<1>4. AheadIsKept'
    BY <1>1, WholeIsKept, StoreUnchanged DEF AheadIsKept
<1>5. NothingIsDoubled'
    BY <1>1, WholeIsSingle DEF NothingIsDoubled
<1> QED
    BY <1>1, <1>2, <1>3, <1>4, <1>5 DEF Inv, ScanIsOfTheTree, HarvestIsTrue, SubIsTrue,
        StoredIsTrue, OursAlone, ExactButForLeftovers

LEMMA OpenInv == ASSUME Inv, calm, Open, TypeOK', LoopIsAtItsStart', RowsAreMinted' PROVE Inv'
<1>1. /\ phase = "open" /\ phase' = "build" /\ prev' = current
      /\ UNCHANGED <<tree, current, files, symbols, index, at, parsed, provides, calm,
                     whole, leftover>>
      /\ at = 1 /\ parsed = {} /\ provides = {} /\ index = tree
    BY DEF Open, Inv, LoopIsAtItsStart, ScanIsOfTheTree, store, begun
<1>2. \A d \in Dir : ~Stored(d) /\ ~Stored(d)' /\ ~Harvested(d)'
    BY <1>1 DEF Stored, Harvested, Dir
<1>3. ScanIsOfTheTree' /\ HarvestIsTrue' /\ SubIsTrue' /\ StoredIsTrue' /\ OursAlone'
    BY <1>1, <1>2 DEF ScanIsOfTheTree, HarvestIsTrue, SubIsTrue, StoredIsTrue, OursAlone
<1>4. NothingOursAhead'
    BY <1>1, <1>2, StoreUnchanged DEF Inv, NothingOursAhead
<1>5. AheadIsKept'
    BY <1>1, <1>2, StoreUnchanged DEF Inv, AheadIsKept
<1>6. NothingIsDoubled' /\ ExactButForLeftovers'
    BY <1>1 DEF Inv, NothingIsDoubled, ExactButForLeftovers
<1> QED
    BY <1>3, <1>4, <1>5, <1>6 DEF Inv

LEMMA BuildInv == ASSUME Inv, calm, Build, TypeOK', LoopIsAtItsStart', RowsAreMinted' PROVE Inv'
<1>1. /\ phase = "build" /\ phase' = "persist" /\ at \in DOMAIN tree /\ at \in Dir
      /\ UNCHANGED <<tree, current, files, symbols, index, prev, at, calm, whole, leftover>>
      /\ index = tree /\ prev = current /\ Running /\ Running'
    BY DEF Build, Inv, TypeOK, ScanIsOfTheTree, Running, store, begun
<1>2. \A d \in Dir : /\ Stored(d)' <=> Stored(d)
                     /\ Harvested(d)' <=> Harvested(d) \/ d = at
                     /\ ~Stitched(d) /\ ~Stitched(d)'
    BY <1>1 DEF Stored, Harvested, Stitched
<1>3. ScanIsOfTheTree'
    BY <1>1 DEF ScanIsOfTheTree
<1>4. HarvestIsTrue'
    <2>1. /\ parsed' = parsed \union {at}
          /\ provides' = IF Declares(tree, at) THEN provides \union {at} ELSE provides
        BY <1>1 DEF Build
    <2>2. \A d \in Dir : Declares(tree, d)' <=> Declares(tree, d)
        BY <1>1 DEF Declares
    <2> QED
        BY <1>1, <1>2, <2>1, <2>2 DEF Inv, HarvestIsTrue
<1>5. SubIsTrue'
    <2>1. Earlier(at)' = Earlier(at)
        BY <1>1 DEF Earlier, Subtree, Rows
    <2>2. CASE Declares(tree, at)
        <3>1. PICK s \in Reconciled(at, tree[at], Earlier(at)) :
                 sub' = [x \in {s} |->
                            Row(index, at, s \in Earlier(at) /\ symbols[s].summary)]
            BY <2>2 DEF Build
        <3> QED
            BY <1>1, <2>1, <2>2, <3>1 DEF SubIsTrue, Row, Declares
    <2>3. CASE ~Declares(tree, at)
        BY <1>1, <2>3 DEF Build, SubIsTrue, Declares
    <2> QED
        BY <2>2, <2>3
<1>6. StoredIsTrue'
    BY <1>1, <1>2, StoreUnchanged DEF Inv, StoredIsTrue, Linked, Declares
<1>7. OursAlone'
    BY <1>1, <1>2, StoreUnchanged DEF Inv, OursAlone, Declares
<1>8. NothingOursAhead'
    BY <1>1, <1>2, StoreUnchanged DEF Inv, NothingOursAhead
<1>9. AheadIsKept'
    BY <1>1, <1>2, StoreUnchanged DEF Inv, AheadIsKept
<1>10. NothingIsDoubled' /\ ExactButForLeftovers'
    BY <1>1 DEF Inv, NothingIsDoubled, ExactButForLeftovers
<1> QED
    BY <1>3, <1>4, <1>5, <1>6, <1>7, <1>8, <1>9, <1>10 DEF Inv

LEMMA SkipDirInv == ASSUME Inv, calm, SkipDir, TypeOK', LoopIsAtItsStart', RowsAreMinted' PROVE Inv'
<1>1. /\ phase = "build" /\ NextDir("build") /\ at \in Dir /\ at \notin DOMAIN tree
      /\ UNCHANGED <<tree, current, files, symbols, index, prev, parsed, provides, calm,
                     whole, leftover>>
      /\ index = tree /\ prev = current /\ Running
    BY DEF SkipDir, Inv, ScanIsOfTheTree, Running, store, begun
<1>2. /\ phase' \in {"build", "stitch"} /\ ~Stored(at)
      /\ \A d \in Dir : /\ Stored(d)' <=> Stored(d) \/ d = at
                        /\ Harvested(d)' <=> Stored(d)'
                        /\ ~Stitched(d) /\ ~Stitched(d)'
    BY <1>1, NextDirStored
<1>3. ~Declares(tree, at)
    BY <1>1 DEF Declares
<1>4. \A d \in Dir : Harvested(d) <=> Stored(d)
    BY <1>1 DEF Harvested
<1>5. Running'
    BY <1>2 DEF Running
<1>6. ScanIsOfTheTree' /\ SubIsTrue'
    BY <1>1, <1>2 DEF ScanIsOfTheTree, SubIsTrue
<1>7. HarvestIsTrue'
    BY <1>1, <1>2, <1>3, <1>4 DEF Inv, HarvestIsTrue, Declares
<1>8. StoredIsTrue'
    BY <1>1, <1>2, StoreUnchanged DEF Inv, StoredIsTrue, Linked, Declares
<1>9. OursAlone'
    BY <1>1, <1>2, StoreUnchanged, AheadIsClean DEF Inv, OursAlone, Declares
<1>10. NothingOursAhead'
    BY <1>1, <1>2, StoreUnchanged DEF Inv, NothingOursAhead
<1>11. AheadIsKept'
    BY <1>1, <1>2, StoreUnchanged DEF Inv, AheadIsKept
<1>12. NothingIsDoubled' /\ ExactButForLeftovers'
    BY <1>1, <1>2 DEF Inv, NothingIsDoubled, ExactButForLeftovers
<1> QED
    BY <1>6, <1>7, <1>8, <1>9, <1>10, <1>11, <1>12 DEF Inv

\* What Persist does to the rows of the other directories, and to its own.
LEMMA PersistRows ==
    ASSUME Inv, calm, Persist
    PROVE  /\ \A d \in Dir \ {at} : /\ Rows(d)' = Rows(d) /\ Ours(d)' = Ours(d)
                                    /\ FileIsOurs(d)' <=> FileIsOurs(d)
                                    /\ d \in DOMAIN files <=> d \in DOMAIN files'
                                    /\ d \in DOMAIN files => files'[d] = files[d]
                                    /\ \A s \in Rows(d) : symbols'[s] = symbols[s]
           /\ ~Declares(tree, at) => symbols' = symbols
           /\ Declares(tree, at) =>
                 \E s \in Reconciled(at, tree[at], Earlier(at)) :
                    /\ s.dir = at
                    /\ DOMAIN symbols' = DOMAIN symbols \union {s}
                    /\ symbols'[s].stamp = tree /\ symbols'[s].line = tree[at]
                    /\ \A r \in DOMAIN symbols : r # s => symbols'[r] = symbols[r]
<1>1. /\ phase = "persist" /\ at \in Dir /\ tree' = tree
      /\ files' = Upsert(files, [d \in {at} |->
                                    [stamp |-> index,
                                     linked |-> at \in provides /\ Needs[at] = at]])
      /\ symbols' = Upsert(symbols, sub)
    BY DEF Persist, Inv, TypeOK
<1>2. ASSUME NEW d \in Dir \ {at}
      PROVE  /\ FileIsOurs(d)' <=> FileIsOurs(d)
             /\ d \in DOMAIN files <=> d \in DOMAIN files'
             /\ d \in DOMAIN files => files'[d] = files[d]
    BY <1>1 DEF Upsert, FileIsOurs
<1>3. CASE ~Declares(tree, at)
    <2>1. sub = Empty /\ DOMAIN sub = {}
        BY <1>1, <1>3 DEF Inv, SubIsTrue, Empty
    <2>2. symbols = [x \in DOMAIN symbols |-> symbols[x]]
        BY DEF Inv, TypeOK, RowsOf
    <2>3. symbols' = symbols
        BY <1>1, <2>1, <2>2 DEF Upsert
    <2> QED
        BY <1>1, <1>3, <1>2, <2>3 DEF Rows, Ours
<1>4. CASE Declares(tree, at)
    <2>1. PICK s \in Reconciled(at, tree[at], Earlier(at)) :
             sub = [x \in {s} |-> Row(tree, at, s \in Earlier(at) /\ symbols[s].summary)]
        BY <1>1, <1>4 DEF Inv, SubIsTrue
    <2>2. Earlier(at) \subseteq SymbolId /\ \A x \in Earlier(at) : x.dir = at
        BY EarlierAre DEF Rows, Inv, TypeOK, RowsOf
    <2>3. s.dir = at
        BY <1>1, <1>4, <2>2, DeclaresType, ReconciledType DEF Inv, TypeOK
    <2>4. DOMAIN sub = {s} /\ sub[s].stamp = tree /\ sub[s].line = tree[at]
        BY <2>1 DEF Row
    <2>5. /\ DOMAIN symbols' = DOMAIN symbols \union {s}
          /\ symbols'[s].stamp = tree /\ symbols'[s].line = tree[at]
          /\ \A r \in DOMAIN symbols : r # s => symbols'[r] = symbols[r]
        BY <1>1, <2>4 DEF Upsert
    <2>6. ASSUME NEW d \in Dir \ {at}
          PROVE  /\ Rows(d)' = Rows(d) /\ Ours(d)' = Ours(d)
                 /\ \A r \in Rows(d) : symbols'[r] = symbols[r]
        BY <1>1, <2>3, <2>5 DEF Rows, Ours
    <2> QED
        BY <1>4, <1>2, <2>3, <2>5, <2>6
<1> QED
    BY <1>3, <1>4

LEMMA PersistSingle ==
    ASSUME Inv, calm, whole, Persist, TypeOK'
    PROVE  NothingIsDoubled'
<1>1. /\ phase = "persist" /\ at \in Dir /\ prev = current /\ ~Stored(at) /\ Running
    BY DEF Persist, Inv, TypeOK, ScanIsOfTheTree, Stored, Running, Dir
<1>2. \A r, s \in DOMAIN symbols : r.dir = s.dir /\ r.dir \in OfKindFile => r = s
    BY DEF Inv, NothingIsDoubled
<1>3. CASE ~Declares(tree, at)
    BY <1>2, <1>3, PersistRows DEF NothingIsDoubled
<1>4. CASE Declares(tree, at)
    <2>1. PICK s \in Reconciled(at, tree[at], Earlier(at)) :
             s.dir = at /\ DOMAIN symbols' = DOMAIN symbols \union {s}
        BY <1>4, PersistRows
    <2>2. Earlier(at) = Rows(at)
        BY <1>1, EarlierIsAll DEF Inv, AheadIsKept
    <2>3. \A r \in DOMAIN symbols : r.dir = at /\ at \in OfKindFile => r = s
        <3>1. CASE Rows(at) = {}
            BY <3>1 DEF Rows
        <3>2. CASE Rows(at) # {} /\ at \in OfKindFile
            <4>1. s \in DOMAIN symbols
                BY <2>1, <2>2, <3>2 DEF Reconciled, Rows
            <4> QED
                BY <1>2, <2>1, <3>2, <4>1
        <3> QED
            BY <3>1, <3>2
    <2> QED
        BY <1>2, <2>1, <2>3 DEF NothingIsDoubled
<1> QED
    BY <1>3, <1>4

LEMMA PersistInv == ASSUME Inv, calm, Persist, TypeOK', LoopIsAtItsStart', RowsAreMinted' PROVE Inv'
<1>1. /\ phase = "persist" /\ NextDir("build") /\ at \in Dir /\ at \in DOMAIN tree
      /\ UNCHANGED <<tree, current, index, prev, parsed, provides, calm, whole, leftover>>
      /\ index = tree /\ prev = current /\ Running
    BY DEF Persist, Inv, TypeOK, ScanIsOfTheTree, LoopIsAtItsStart, Running, begun
<1>2. /\ phase' \in {"build", "stitch"} /\ ~Stored(at)
      /\ \A d \in Dir : Stored(d)' <=> Stored(d) \/ d = at
      /\ \A d \in Dir : Harvested(d)' <=> Stored(d)'
      /\ \A d \in Dir : ~Stitched(d) /\ ~Stitched(d)'
    BY <1>1, NextDirStored
<1>3. /\ \A d \in Dir : Harvested(d) <=> Stored(d) \/ d = at
      /\ \A d \in Dir : Declares(tree, d)' <=> Declares(tree, d)
      /\ \A d \in Dir : Linked(d)' = (Needs[d] = d /\ Declares(tree, d))
      /\ \A d \in Dir : Linked(d) = (Needs[d] = d /\ Declares(tree, d))
    BY <1>1, <1>2 DEF Harvested, Declares, Linked
<1>4. /\ at \in DOMAIN files'
      /\ files'[at] = [stamp |-> tree, linked |-> Needs[at] = at /\ Declares(tree, at)]
    <2>1. at \in provides <=> Declares(tree, at)
        BY <1>1, <1>3 DEF Inv, HarvestIsTrue
    <2> QED
        BY <1>1, <2>1 DEF Persist, Upsert
<1>5. Running' /\ ScanIsOfTheTree' /\ SubIsTrue'
    BY <1>1, <1>2 DEF ScanIsOfTheTree, SubIsTrue, Running
<1>6. HarvestIsTrue'
    BY <1>1, <1>2, <1>3 DEF Inv, HarvestIsTrue
<1>7. StoredIsTrue'
    <2>1. ASSUME NEW d \in Dir \ {at}, Stored(d)'
          PROVE  /\ d \in DOMAIN tree =>
                       /\ d \in DOMAIN files'
                       /\ files'[d] = [stamp |-> tree, linked |-> Linked(d)]
                 /\ Declares(tree, d) => \E s \in Ours(d)' : symbols'[s].line = tree[d]
        <3>1. Stored(d)
            BY <1>2, <2>1
        <3>2. /\ d \in DOMAIN tree =>
                    d \in DOMAIN files /\ files[d] = [stamp |-> tree, linked |-> Linked(d)]
              /\ Declares(tree, d) => \E s \in Ours(d) : symbols[s].line = tree[d]
            BY <1>1, <3>1 DEF Inv, StoredIsTrue
        <3>3. Ours(d) \subseteq Rows(d)
            BY DEF Ours
        <3> QED
            BY <3>2, <3>3, PersistRows
    <2>2. ASSUME NEW d \in Dir, d = at, Declares(tree, d)
          PROVE  \E s \in Ours(d)' : symbols'[s].line = tree[d]
        <3>1. PICK s : /\ s.dir = d /\ s \in DOMAIN symbols'
                       /\ symbols'[s].stamp = tree /\ symbols'[s].line = tree[d]
            BY <2>2, PersistRows
        <3> QED
            BY <1>1, <3>1 DEF Ours, Rows
    <2>3. \A d \in Dir : d \in DOMAIN tree /\ Stored(d)' =>
             d \in DOMAIN files' /\ files'[d] = [stamp |-> tree, linked |-> Linked(d)']
        BY <1>3, <1>4, <2>1
    <2> QED
        BY <1>1, <1>3, <2>1, <2>2, <2>3 DEF StoredIsTrue
<1>8. whole => NothingIsDoubled'
    BY PersistSingle
<1>9. OursAlone'
    <2>1. ASSUME NEW d \in Dir \ {at}, Stored(d)', whole \/ d \notin leftover
          PROVE  /\ d \notin DOMAIN tree => ~FileIsOurs(d)'
                 /\ ~Declares(tree, d) => Ours(d)' = {}
                 /\ \A r, s \in Ours(d)' : r = s
        <3>1. Stored(d)
            BY <1>2, <2>1
        <3> QED
            BY <1>1, <2>1, <3>1, PersistRows DEF Inv, OursAlone
    <2>2. ASSUME NEW d \in Dir, d = at, whole \/ d \notin leftover
          PROVE  /\ ~Declares(tree, d) => Ours(d)' = {}
                 /\ \A r, s \in Ours(d)' : r = s
        <3>1. CASE ~Declares(tree, d)
            <4>1. Ours(d)' = Ours(d)
                BY <1>1, <2>2, <3>1, PersistRows DEF Ours, Rows
            <4>2. Ours(d) = {}
                BY <1>1, <1>2, <2>2, <3>1, AheadIsClean
            <4> QED
                BY <4>1, <4>2
        <3>2. CASE Declares(tree, d) /\ whole /\ d \in OfKindFile
            BY <1>1, <1>8, <3>2 DEF NothingIsDoubled, Ours, Rows
        <3>4. CASE Declares(tree, d) /\ whole /\ d \notin OfKindFile
            <4>1. PICK s \in Reconciled(d, tree[d], Earlier(d)) :
                     /\ DOMAIN symbols' = DOMAIN symbols \union {s}
                     /\ \A r \in DOMAIN symbols : r # s => symbols'[r] = symbols[r]
                BY <2>2, <3>4, PersistRows
            <4>2. s = Fresh(d, tree[d])
                BY <3>4, <4>1 DEF Reconciled
            <4>3. Kept(d)
                BY <1>1, <1>2, <2>2, <3>4 DEF Inv, AheadIsKept
            <4>4. ASSUME NEW r \in Ours(d) PROVE r = s
                <5>1. r \in Rows(d) /\ symbols[r].stamp = tree
                    BY DEF Ours
                <5>2. PICK t \in current : SymbolDescribes(t, d)
                    BY <4>3, <5>1 DEF Kept, Described
                <5>3. symbols[r].stamp = t /\ symbols[r].line = t[d]
                    BY <5>1, <5>2 DEF SymbolDescribes
                <5>4. r.dir = d /\ r \in SymbolId /\ r \in DOMAIN symbols
                    BY <5>1, RowsType DEF Rows, Inv
                <5>5. r.line = tree[d]
                    BY <3>4, <5>1, <5>3, <5>4 DEF Inv, RowsAreMinted
                <5> QED
                    BY <4>2, <5>4, <5>5 DEF Fresh, SymbolId
            <4>5. Ours(d)' \subseteq {s}
                BY <1>1, <4>1, <4>4 DEF Ours, Rows
            <4> QED
                BY <3>4, <4>5
        <3>3. CASE Declares(tree, d) /\ d \notin leftover
            <4>1. PICK s : /\ DOMAIN symbols' = DOMAIN symbols \union {s}
                           /\ \A r \in DOMAIN symbols : r # s => symbols'[r] = symbols[r]
                BY <2>2, <3>3, PersistRows
            <4>2. Ours(d) = {}
                BY <1>1, <1>2, <2>2, <3>3 DEF Inv, NothingOursAhead
            <4>3. Ours(d)' \subseteq {s}
                BY <1>1, <4>1, <4>2 DEF Ours, Rows
            <4> QED
                BY <3>3, <4>3
        <3> QED
            BY <2>2, <3>1, <3>2, <3>3, <3>4
    <2> QED
        BY <1>1, <1>3, <2>1, <2>2 DEF OursAlone
<1>10. NothingOursAhead'
    BY <1>1, <1>2, PersistRows DEF Inv, NothingOursAhead
<1>11. AheadIsKept'
    <2>1. ASSUME NEW d \in Dir, whole, ~Stored(d)' PROVE Kept(d)'
        <3>1. d # at /\ ~Stored(d)
            BY <1>2, <2>1
        <3>2. Kept(d)
            BY <1>1, <2>1, <3>1 DEF Inv, AheadIsKept
        <3>3. /\ Rows(d)' = Rows(d) /\ \A s \in Rows(d) : symbols'[s] = symbols[s]
              /\ d \in DOMAIN files <=> d \in DOMAIN files'
              /\ d \in DOMAIN files => files'[d] = files[d]
            BY <3>1, PersistRows
        <3>4. ASSUME NEW t, Described(t, d) PROVE Described(t, d)'
            <4>1. FileDescribes(t, d)'
                BY <3>3, <3>4 DEF Described, FileDescribes, Met, Declares
            <4>2. SymbolDescribes(t, d)'
                BY <3>3, <3>4 DEF Described, SymbolDescribes, Declares
            <4> QED
                BY <4>1, <4>2 DEF Described
        <3> QED
            BY <1>1, <3>2, <3>3, <3>4 DEF Kept
    <2> QED
        BY <1>1, <2>1 DEF AheadIsKept
<1>12. NothingIsDoubled' /\ ExactButForLeftovers'
    BY <1>1, <1>2, <1>8 DEF NothingIsDoubled, ExactButForLeftovers
<1> QED
    BY <1>5, <1>6, <1>7, <1>9, <1>10, <1>11, <1>12 DEF Inv

LEMMA StitchInv == ASSUME Inv, calm, Stitch, TypeOK', LoopIsAtItsStart', RowsAreMinted' PROVE Inv'
<1>1. /\ phase = "stitch" /\ at \in Dir /\ phase' \in {"stitch", "finalize"}
      /\ UNCHANGED <<tree, current, symbols, index, prev, parsed, provides, calm, whole,
                     leftover>>
      /\ index = tree /\ prev = current /\ Running /\ Running'
    BY DEF Stitch, NextDir, Inv, TypeOK, ScanIsOfTheTree, Running, begun
<1>2. \A d \in Dir : Stored(d) /\ Stored(d)' /\ Harvested(d) /\ Harvested(d)'
    BY <1>1 DEF Stored, Harvested
<1>3. \A d \in Dir : Stitched(d)' <=> Stitched(d) \/ d = at
    BY <1>1, BoundsAssumption DEF Stitch, NextDir, Stitched, Dir
<1>4. ~Stitched(at)
    BY <1>1 DEF Stitched, Dir
<1>5. /\ DOMAIN files' = DOMAIN files
      /\ \A d \in DOMAIN files : files'[d].stamp = files[d].stamp
      /\ \A d \in DOMAIN files : d # at => files'[d] = files[d]
    <2>1. \A d \in DOMAIN files : files[d] \in FileRow
        BY DEF Inv, TypeOK, RowsOf
    <2> QED
        BY <2>1 DEF Stitch, FileRow
<1>6. \A d \in Dir : /\ Rows(d)' = Rows(d) /\ Ours(d)' = Ours(d)
                     /\ FileIsOurs(d)' <=> FileIsOurs(d)
                     /\ Declares(tree, d)' <=> Declares(tree, d)
    BY <1>1, <1>5 DEF Rows, Ours, FileIsOurs, Declares
<1>7. ASSUME at \in DOMAIN tree
      PROVE  at \in DOMAIN files /\ files'[at] = [stamp |-> tree, linked |-> Met(tree, at)]
    <2>1. /\ at \in DOMAIN files
          /\ files[at] = [stamp |-> tree, linked |-> Needs[at] = at /\ Declares(tree, at)]
        BY <1>1, <1>2, <1>4, <1>7 DEF Inv, StoredIsTrue, Linked
    <2>2. Needs[at] \in Dir
        BY <1>1, NeedsAssumption
    <2>3. Affected(at) <=> Declares(tree, Needs[at]) /\ Needs[at] # at
        BY <1>1, <1>2, <1>7, <2>2 DEF Affected, Inv, HarvestIsTrue
    <2>4. CASE Affected(at)
        <3>1. files' = [files EXCEPT ![at].linked = TRUE]
            BY <1>1, <2>1, <2>4 DEF Stitch
        <3>2. files[at] \in FileRow /\ files[at].stamp = tree
            BY <2>1 DEF Inv, TypeOK, RowsOf
        <3>3. files'[at] = [stamp |-> tree, linked |-> TRUE]
            BY <2>1, <3>1, <3>2 DEF FileRow
        <3>4. Met(tree, at) = TRUE
            BY <2>3, <2>4 DEF Met
        <3> QED
            BY <2>1, <3>3, <3>4
    <2>5. CASE ~Affected(at)
        <3>1. files' = files
            BY <2>5 DEF Stitch
        <3>2. Met(tree, at) <=> Needs[at] = at /\ Declares(tree, at)
            BY <2>3, <2>5 DEF Met
        <3> QED
            BY <2>1, <3>1, <3>2, MetType
    <2> QED
        BY <2>4, <2>5
<1>8. ScanIsOfTheTree' /\ HarvestIsTrue' /\ SubIsTrue'
    BY <1>1, <1>2, <1>6 DEF Inv, ScanIsOfTheTree, HarvestIsTrue, SubIsTrue
<1>9. StoredIsTrue'
    <2>1. ASSUME NEW d \in Dir, d \in DOMAIN tree
          PROVE  d \in DOMAIN files' /\ files'[d] = [stamp |-> tree, linked |-> Linked(d)']
        <3>1. CASE d = at
            <4>1. Linked(d)' = Met(tree, d)
                BY <1>1, <1>3, <3>1 DEF Linked, Met, Declares
            <4> QED
                BY <1>5, <1>7, <2>1, <3>1, <4>1
        <3>2. CASE d # at
            <4>1. Linked(d)' = Linked(d)
                BY <1>1, <1>3, <3>2 DEF Linked, Met, Declares
            <4>2. d \in DOMAIN files /\ files[d] = [stamp |-> tree, linked |-> Linked(d)]
                BY <1>1, <1>2, <2>1 DEF Inv, StoredIsTrue
            <4> QED
                BY <1>5, <3>2, <4>1, <4>2
        <3> QED
            BY <3>1, <3>2
    <2>2. \A d \in Dir : Declares(tree, d) => \E s \in Ours(d) : symbols[s].line = tree[d]
        BY <1>1, <1>2 DEF Inv, StoredIsTrue
    <2> QED
        BY <1>1, <1>6, <2>1, <2>2 DEF StoredIsTrue
<1>10. OursAlone'
    BY <1>1, <1>2, <1>6 DEF Inv, OursAlone
<1>11. NothingOursAhead' /\ AheadIsKept'
    BY <1>1, <1>2 DEF NothingOursAhead, AheadIsKept
<1>12. NothingIsDoubled' /\ ExactButForLeftovers'
    BY <1>1 DEF Inv, NothingIsDoubled, ExactButForLeftovers
<1> QED
    BY <1>8, <1>9, <1>10, <1>11, <1>12 DEF Inv

LEMMA FinalizeInv == ASSUME Inv, calm, Finalize, TypeOK', LoopIsAtItsStart', RowsAreMinted' PROVE Inv'
<1>1. /\ phase = "finalize" /\ phase' = "done" /\ current' = {tree} /\ index = tree
      /\ UNCHANGED <<tree, index, calm, whole, leftover>>
      /\ files' = Stamped(files, tree) /\ symbols' = Stamped(symbols, tree)
      /\ Running /\ ~Running'
    BY DEF Finalize, Inv, ScanIsOfTheTree, Running, begun
<1>2. \A d \in Dir : Stored(d) /\ Stitched(d)
    BY <1>1 DEF Stored, Stitched
<1>3. \A d \in Dir : /\ d \in DOMAIN files' <=> FileIsOurs(d)
                     /\ FileIsOurs(d) => files'[d] = files[d]
                     /\ Rows(d)' = Ours(d)
                     /\ \A s \in Ours(d) : symbols'[s] = symbols[s]
    BY <1>1 DEF Stamped, FileIsOurs, Rows, Ours
<1>4. ASSUME NEW d \in Dir, whole \/ d \notin leftover
      PROVE  Described(tree, d)'
    <2>1. FileDescribes(tree, d)'
        <3>1. CASE d \in DOMAIN tree
            <4>1. /\ d \in DOMAIN files
                  /\ files[d] = [stamp |-> tree, linked |-> Met(tree, d)]
                BY <1>1, <1>2, <3>1 DEF Inv, StoredIsTrue, Linked
            <4>2. FileIsOurs(d)
                BY <4>1 DEF FileIsOurs
            <4> QED
                BY <1>1, <1>3, <3>1, <4>1, <4>2 DEF FileDescribes, Met, Declares
        <3>2. CASE d \notin DOMAIN tree
            <4>1. ~FileIsOurs(d)
                BY <1>1, <1>2, <1>4, <3>2 DEF Inv, OursAlone
            <4> QED
                BY <1>1, <1>3, <3>2, <4>1 DEF FileDescribes
        <3> QED
            BY <3>1, <3>2
    <2>2. SymbolDescribes(tree, d)'
        <3>1. CASE Declares(tree, d)
            <4>1. PICK s \in Ours(d) : symbols[s].line = tree[d]
                BY <1>1, <1>2, <3>1 DEF Inv, StoredIsTrue
            <4>2. Ours(d) = {s}
                BY <1>1, <1>2, <1>4, <4>1 DEF Inv, OursAlone
            <4>3. s \in SymbolId /\ symbols[s].stamp = tree
                BY <4>1, RowsType DEF Ours, Inv
            <4> QED
                BY <1>1, <1>3, <3>1, <4>1, <4>2, <4>3 DEF SymbolDescribes, Declares
        <3>2. CASE ~Declares(tree, d)
            <4>1. Ours(d) = {}
                BY <1>1, <1>2, <1>4, <3>2 DEF Inv, OursAlone
            <4> QED
                BY <1>1, <1>3, <3>2, <4>1 DEF SymbolDescribes, Declares
        <3> QED
            BY <3>1, <3>2
    <2> QED
        BY <2>1, <2>2 DEF Described
<1>5. ExactButForLeftovers'
    BY <1>1, <1>4 DEF ExactButForLeftovers
<1>6. NothingIsDoubled'
    BY <1>1 DEF Inv, NothingIsDoubled, Stamped
<1>7. ScanIsOfTheTree'
    BY <1>1 DEF ScanIsOfTheTree
<1> QED
    BY <1>1, <1>5, <1>6, <1>7 DEF Inv, HarvestIsTrue, SubIsTrue, StoredIsTrue, OursAlone,
        NothingOursAhead, AheadIsKept

-----------------------------------------------------------------------------
(* The theorems.                                                           *)

LEMMA InitInv == ASSUME Init PROVE Inv
<1>1. TypeOK
    BY InitType
<1>2. /\ calm = FALSE /\ phase = "idle" /\ at = 1 /\ parsed = {} /\ provides = {}
      /\ DOMAIN symbols = {} /\ DOMAIN sub = {}
    BY DEF Init, Empty
<1> QED
    BY <1>1, <1>2 DEF Inv, LoopIsAtItsStart, RowsAreMinted, ScanIsOfTheTree, HarvestIsTrue, SubIsTrue,
        StoredIsTrue, OursAlone, NothingOursAhead, AheadIsKept, NothingIsDoubled,
        ExactButForLeftovers

LEMMA NextInv == Inv /\ [Next]_vars => Inv'
<1> SUFFICES ASSUME Inv, [Next]_vars PROVE Inv'
    OBVIOUS
<1>1. TypeOK' /\ LoopIsAtItsStart' /\ RowsAreMinted'
    BY NextType, LoopStep, MintedStep DEF Inv
<1>2. CASE Begin
    BY <1>1, <1>2, BeginInv DEF Inv
<1>3. CASE calm /\ (Open \/ Build \/ SkipDir \/ Persist \/ Stitch \/ Finalize)
    BY <1>1, <1>3, OpenInv, BuildInv, SkipDirInv, PersistInv, StitchInv, FinalizeInv
<1>4. CASE ~calm /\ (Open \/ Build \/ SkipDir \/ Persist \/ Stitch \/ Finalize)
    <2>1. calm' = FALSE
        BY <1>4 DEF Open, Build, SkipDir, Persist, Stitch, Finalize, Inv, TypeOK
    <2> QED
        BY <1>1, <2>1, DisturbedInv
<1>5. CASE Ends \/ (\E t \in Trees : Edit(t)) \/ Replace
              \/ \E summarised \in {{}, Summarised} : StoreAgain(summarised)
    <2>1. calm' = FALSE
        BY <1>5 DEF Ends, Edit, Replace, StoreAgain
    <2> QED
        BY <1>1, <2>1, DisturbedInv
<1>6. CASE UNCHANGED vars
    <2>1. /\ UNCHANGED <<tree, current, files, symbols, phase, index, prev, at, sub,
                         parsed, provides, calm, whole, leftover>>
        BY <1>6 DEF vars, store, scan, begun
    <2>2. \A d \in Dir : /\ Stored(d)' <=> Stored(d)
                         /\ Harvested(d)' <=> Harvested(d)
                         /\ Linked(d)' = Linked(d)
        BY <2>1 DEF Stored, Harvested, Stitched, Linked, Met, Declares
    <2>3. ScanIsOfTheTree' /\ HarvestIsTrue' /\ NothingIsDoubled'
        BY <2>1, <2>2 DEF Inv, ScanIsOfTheTree, HarvestIsTrue, NothingIsDoubled, Running,
            Declares
    <2>4. SubIsTrue'
        <3>1. /\ Declares(tree, at)' <=> Declares(tree, at)
              /\ Earlier(at)' = Earlier(at)
            BY <2>1 DEF Earlier, Subtree, Rows, Declares
        <3>2. calm /\ phase = "persist" =>
                 IF Declares(tree, at)
                 THEN \E s \in Reconciled(at, tree[at], Earlier(at)) :
                         sub = [x \in {s} |-> Row(tree, at, s \in Earlier(at)
                                                            /\ symbols[s].summary)]
                 ELSE sub = Empty
            BY DEF Inv, SubIsTrue
        <3> QED
            BY <2>1, <3>1, <3>2 DEF SubIsTrue, Row
    <2>5. StoredIsTrue' /\ OursAlone' /\ NothingOursAhead' /\ AheadIsKept'
        BY <2>1, <2>2, StoreUnchanged DEF Inv, StoredIsTrue, OursAlone, NothingOursAhead,
            AheadIsKept, Running, Declares
    <2>6. ExactButForLeftovers'
        BY <2>1 DEF Inv, ExactButForLeftovers, Described, FileDescribes, SymbolDescribes,
            Rows, Met, Declares
    <2> QED
        BY <1>1, <2>3, <2>4, <2>5, <2>6 DEF Inv
<1> QED
    BY <1>2, <1>3, <1>4, <1>5, <1>6 DEF Next

\* The invariant that the other theorems rest on holds in every state.
THEOREM Invariance == Spec => []Inv
<1>1. Init => Inv
    BY InitInv
<1>2. Inv /\ [Next]_vars => Inv'
    BY NextInv
<1> QED
    BY <1>1, <1>2, PTL DEF Spec

\* A layered scan that nobody disturbs leaves exactly what the tree holds, whatever
\* the store held before, but for rows that carried its stamp in a broken store.
THEOREM UndisturbedScansAreExact == Spec => []ExactButForLeftovers
<1>1. Inv => ExactButForLeftovers
    BY DEF Inv
<1> QED
    BY <1>1, Invariance, PTL

\* While an undisturbed scan of a whole store runs, no declaration of a file of kind File
\* is there twice.
THEOREM NoDeclarationIsDoubled == Spec => []NothingIsDoubled
<1>1. Inv => NothingIsDoubled
    BY DEF Inv
<1> QED
    BY <1>1, Invariance, PTL

\* In a file of kind File, an undisturbed scan of a whole store takes over the identity
\* of the declaration with its summary.
THEOREM IdentityIsKept == Spec => []RescanKeepsIdentity
<1>1. Inv => RescanKeepsIdentity
    <2> SUFFICES ASSUME Inv, phase = "persist", calm, whole, at \in OfKindFile, NEW s \in Rows(at),
                        DOMAIN sub # {}
                 PROVE  DOMAIN sub = {s} /\ sub[s].summary = symbols[s].summary
        BY DEF RescanKeepsIdentity
    <2>1. Running /\ at \in Dir /\ ~Stored(at) /\ prev = current
        BY DEF Inv, TypeOK, ScanIsOfTheTree, Running, Stored, Dir
    <2>2. Earlier(at) = Rows(at)
        BY <2>1, EarlierIsAll DEF Inv, AheadIsKept
    <2>3. Rows(at) = {s}
        BY DEF Inv, NothingIsDoubled, Rows
    <2>4. Declares(tree, at)
        BY DEF Inv, SubIsTrue, Empty
    <2>5. PICK x \in Reconciled(at, tree[at], Earlier(at)) :
             sub = [y \in {x} |-> Row(tree, at, x \in Earlier(at) /\ symbols[x].summary)]
        BY <2>4 DEF Inv, SubIsTrue
    <2>6. x = s
        BY <2>2, <2>3, <2>5 DEF Reconciled
    <2>7. symbols[s].summary \in BOOLEAN
        <3>1. symbols[s] \in SymbolRow
            BY <2>3 DEF Rows, Inv, TypeOK, RowsOf
        <3> QED
            BY <3>1 DEF SymbolRow
    <2>8. (s \in Earlier(at) /\ symbols[s].summary) = symbols[s].summary
        BY <2>2, <2>3, <2>7
    <2> QED
        BY <2>5, <2>6, <2>8 DEF Row
<1> QED
    BY <1>1, Invariance, PTL
=============================================================================
