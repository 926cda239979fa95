------------------------ MODULE ResidentServiceProofs ------------------------
(***************************************************************************)
(* Proofs about ResidentService, for any number of projects, any set of    *)
(* files, any choice of the calls that may fail and any bounds: its types, *)
(* that a marker on disk is never ahead of the Atlas, that a batch is kept *)
(* until it is applied, and that the service implements EventLedger.       *)
(***************************************************************************)
EXTENDS ResidentService, TLAPS

Below(v, w) == \A f \in Files : v[f] <= w[f]

\* On disk, an id names one event, a marker names a journalled event, and
\* nothing describes a version that the tree has not reached.
DiskIsSound ==
    \A r \in Roots :
        /\ \A e \in journal[r] : e.id < issued /\ Below(e.seen, tree[r])
        /\ \A d, e \in journal[r] : d.id = e.id => d = e
        /\ \A id \in applied[r] : \E e \in journal[r] : e.id = id
        /\ Below(atlas[r], tree[r])

\* What waits in the channel is in the journal neither yet nor twice.
ChannelIsNew ==
    \A r \in Roots : \A i \in 1..Len(queue[r]) :
        /\ queue[r][i].id < issued
        /\ Below(queue[r][i].seen, tree[r])
        /\ \A j \in 1..Len(queue[r]) : queue[r][i].id = queue[r][j].id => i = j
        /\ \A e \in journal[r] : e.id # queue[r][i].id

\* What the process holds in memory is on disk.
MemoryOnDisk ==
    \A r \in Roots : pending[r] \subseteq journal[r] /\ known[r] \subseteq applied[r]

\* What the running scan has read is as new as the Atlas and the batch.
ScanIsFresh ==
    Reconciling =>
        /\ step # "scan" => unread = {}
        /\ \A f \in Files \ unread :
              /\ scan[f] <= tree[cur][f]
              /\ scan[f] >= atlas[cur][f]
              /\ \A e \in pending[cur] : scan[f] >= e.seen[f]
        /\ step = "project" => scan = atlas[cur]

\* A batch being marked is one the Atlas and its projection show.
BatchIsVisible ==
    phase = "mark" =>
        \A e \in pending[cur] : Covers(atlas[cur], e) /\ Covers(idx[cur], e)

Inv ==
    /\ TypeOK
    /\ DiskIsSound
    /\ ChannelIsNew
    /\ MemoryOnDisk
    /\ ScanIsFresh
    /\ BatchIsVisible
    /\ MarkedWorkIsVisible

-----------------------------------------------------------------------------
(* Types.                                                                  *)

LEMMA BlankType == Blank \in Version
  BY DEF Blank, Version

\* What the type invariant says of the single events and versions.
LEMMA Typed ==
  ASSUME TypeOK, NEW r \in Roots
  PROVE  /\ queue[r] \in Seq(Event) /\ Len(queue[r]) \in Nat
         /\ \A i \in 1..Len(queue[r]) :
               queue[r][i].id \in Nat /\ queue[r][i].seen \in Version
         /\ \A e \in journal[r] : e.id \in Nat /\ e.seen \in Version
         /\ \A f \in Files : /\ tree[r][f] \in Nat /\ atlas[r][f] \in Nat
                              /\ idx[r][f] \in Nat /\ scan[f] \in Nat
  <1>1. queue[r] \in Seq(Event) /\ journal[r] \in SUBSET Event
    BY DEF TypeOK
  <1>2. \A e \in Event : e.id \in Nat /\ e.seen \in Version
    BY DEF Event
  <1>3. \A i \in 1..Len(queue[r]) : queue[r][i] \in Event
    BY <1>1
  <1>4. Len(queue[r]) \in Nat
    BY <1>1
  <1>5. /\ tree[r] \in Version /\ atlas[r] \in Version
        /\ idx[r] \in Version /\ scan \in Version
    BY DEF TypeOK
  <1> QED
    BY <1>1, <1>2, <1>3, <1>4, <1>5 DEF Version

LEMMA InitType == Init => TypeOK
  <1> SUFFICES ASSUME Init PROVE TypeOK
    OBVIOUS
  <1>1. /\ tree \in [Roots -> Version]
        /\ atlas \in [Roots -> Version] /\ idx \in [Roots -> Version]
        /\ scan \in Version
    BY BlankType DEF Init
  <1>2. /\ phase \in Phases /\ cur \in Roots
        /\ step \in {"scan", "commit", "project"}
    BY NAssumption DEF Init, Phases, Halted, Roots
  <1>3. queue \in [Roots -> Seq(Event)]
    BY DEF Init
  <1> QED
    BY <1>1, <1>2, <1>3 DEF Init, TypeOK

LEMMA AdvanceType ==
  ASSUME TypeOK, NEW loop \in Phases, NEW after \in Phases, Advance(loop, after)
  PROVE  /\ cur' \in Roots /\ phase' \in Phases
         /\ step' = "scan" /\ scan' \in Version /\ unread' = Files
  BY NAssumption, BlankType DEF TypeOK, Advance, BeginScan, Roots

LEMMA ExitType ==
  ASSUME TypeOK, NEW how \in Halted, Exit(how), faults' \in Nat,
         journal' \in [Roots -> SUBSET Event], applied' \in [Roots -> SUBSET Nat]
  PROVE  TypeOK'
  <1>0. stop' \in BOOLEAN
    BY DEF Exit
  <1>1. /\ phase' \in Phases /\ cur' \in Roots
        /\ step' \in {"scan", "commit", "project"}
        /\ scan' \in Version /\ unread' \in SUBSET Files
    BY NAssumption, BlankType DEF Exit, BeginScan, Phases, Roots
  <1>2. /\ watched' \in SUBSET Roots
        /\ unseen' \in [Roots -> SUBSET (Files \union Outputs)]
        /\ missed' \in [Roots -> SUBSET Files]
        /\ queue' \in [Roots -> Seq(Event)]
        /\ pending' \in [Roots -> SUBSET Event]
        /\ known' \in [Roots -> SUBSET Nat]
    BY DEF Exit
  <1>3. UNCHANGED <<tree, issued, atlas, idx>>
    BY DEF Exit
  <1> QED
    BY <1>0, <1>1, <1>2, <1>3 DEF TypeOK

LEMMA SendType ==
  ASSUME TypeOK, NEW r \in Roots, Send(r),
         unseen' \in [Roots -> SUBSET (Files \union Outputs)]
  PROVE  TypeOK'
  <1>1. FileEvent(r) \in Event
    BY DEF TypeOK, FileEvent, Event
  <1>2. queue' \in [Roots -> Seq(Event)]
    BY <1>1 DEF TypeOK, Send
  <1>3. issued' \in Nat /\ missed' \in [Roots -> SUBSET Files]
    BY DEF TypeOK, Send
  <1> QED
    BY <1>2, <1>3 DEF TypeOK, Send, disk, reading

LEMMA FaultType == ASSUME TypeOK, Fault PROVE faults' \in Nat
  BY DEF TypeOK, Fault

LEMMA AbortType ==
  ASSUME TypeOK, NEW site, Abort(site),
         journal' \in [Roots -> SUBSET Event], applied' \in [Roots -> SUBSET Nat]
  PROVE  TypeOK'
  BY FaultType, ExitType DEF Abort, Halted
LEMMA LoopType == TypeOK /\ Loop => TypeOK'
  <1> SUFFICES ASSUME TypeOK, Loop PROVE TypeOK'
    OBVIOUS
  <1>phases. {"open", "initial", "head", "drain", "reconcile", "mark"}
                \union Halted \subseteq Phases
    BY DEF Phases
  <1>1. CASE Open
    <2>1. known' \in [Roots -> SUBSET Nat] /\ watched' \in SUBSET Roots
      BY <1>1 DEF Open, TypeOK
    <2> QED
      BY <1>1, <1>phases, <2>1, AdvanceType DEF Open, TypeOK, world, disk
  <1>2. CASE LoopHead
    <2>1. CASE stop /\ Exit("stopped") /\ UNCHANGED <<faults, journal, applied>>
      BY <2>1, ExitType DEF TypeOK, Halted
    <2>2. CASE /\ phase' = "drain"
               /\ UNCHANGED <<world, disk, cur, memory, reading, stop>>
      BY <2>2, <1>phases DEF TypeOK, world, disk, memory, reading
    <2> QED
      BY <1>2, <2>1, <2>2 DEF LoopHead
  <1>3. CASE Drain
    <2>1. Head(queue[cur]) \in Event /\ queue' \in [Roots -> Seq(Event)]
      BY <1>3 DEF Drain, TypeOK
    <2>2. journal' \in [Roots -> SUBSET Event] /\ pending' \in [Roots -> SUBSET Event]
      BY <1>3, <2>1 DEF Drain, TypeOK
    <2> QED
      BY <1>3, <2>1, <2>2 DEF Drain, TypeOK, world, reading
  <1>4. CASE Settle
    <2>1. pending' \in [Roots -> SUBSET Event]
      BY <1>4 DEF Settle, Fresh, TypeOK
    <2>2. /\ cur' \in Roots /\ phase' \in Phases
          /\ step' = "scan" /\ scan' \in Version /\ unread' = Files
      BY <1>4, <1>phases, BlankType, AdvanceType
      DEF Settle, TypeOK, BeginScan
    <2> QED
      BY <1>4, <2>1, <2>2 DEF Settle, TypeOK, world, disk
  <1>5. ASSUME NEW f \in Files, ReadFile(f) PROVE TypeOK'
    <2>1. scan' \in Version
      BY <1>5 DEF ReadFile, TypeOK, Version
    <2>2. unread' \in SUBSET Files /\ step' \in {"scan", "commit", "project"}
      BY <1>5 DEF ReadFile, TypeOK
    <2> QED
      BY <1>5, <2>1, <2>2 DEF ReadFile, TypeOK, world, disk, memory
  <1>6. CASE Commit
    BY <1>6 DEF Commit, TypeOK, world, memory
  <1>7. CASE Project
    <2>1. /\ idx' \in [Roots -> Version]
          /\ unseen' \in [Roots -> SUBSET (Files \union Outputs)]
      BY <1>7 DEF Project, TypeOK, Echoes
    <2>2. /\ cur' \in Roots /\ phase' \in Phases
          /\ step' = "scan" /\ scan' \in Version /\ unread' = Files
      BY <1>7, <1>phases, BlankType, AdvanceType
      DEF Project, AfterReconcile, BeginScan, TypeOK
    <2> QED
      BY <1>7, <2>1, <2>2 DEF Project, TypeOK, memory
  <1>8. CASE Mark
    <2>1. PICK e \in Fresh(cur) :
            /\ applied' = [applied EXCEPT ![cur] = @ \union {e.id}]
            /\ known' = [known EXCEPT ![cur] = @ \union {e.id}]
      BY <1>8 DEF Mark
    <2>2. e.id \in Nat
      BY <2>1 DEF Fresh, TypeOK, Event
    <2>3. applied' \in [Roots -> SUBSET Nat] /\ known' \in [Roots -> SUBSET Nat]
      BY <2>1, <2>2 DEF TypeOK
    <2> QED
      BY <1>8, <2>3 DEF Mark, TypeOK, world, reading
  <1>9. CASE ClearPending
    <2>1. pending' \in [Roots -> SUBSET Event]
      BY <1>9 DEF ClearPending, TypeOK
    <2>2. /\ cur' \in Roots /\ phase' \in Phases
          /\ step' = "scan" /\ scan' \in Version /\ unread' = Files
      BY <1>9, <1>phases, AdvanceType DEF ClearPending
    <2> QED
      BY <1>9, <2>1, <2>2 DEF ClearPending, TypeOK, world, disk
  <1> QED
    BY <1>1, <1>2, <1>3, <1>4, <1>5, <1>6, <1>7, <1>8, <1>9 DEF Loop

LEMMA FailureType == TypeOK /\ Failure => TypeOK'
  <1> SUFFICES ASSUME TypeOK, Failure PROVE TypeOK'
    OBVIOUS
  <1>1. CASE OpenFails
    BY <1>1, AbortType DEF OpenFails, TypeOK
  <1>2. CASE AppendFails
    <2>1. Head(queue[cur]) \in Event
      BY <1>2 DEF AppendFails, TypeOK
    <2>2. journal' \in [Roots -> SUBSET Event]
      <3>1. CASE journal' = journal
        BY <3>1 DEF TypeOK
      <3>2. CASE journal' = [journal EXCEPT ![cur] = @ \union {Head(queue[cur])}]
        BY <3>2, <2>1 DEF TypeOK
      <3> QED
        BY <1>2, <3>1, <3>2 DEF AppendFails
    <2>3. applied' \in [Roots -> SUBSET Nat]
      BY <1>2 DEF AppendFails, TypeOK
    <2> QED
      BY <1>2, <2>2, <2>3, AbortType DEF AppendFails
  <1>3. CASE ReconcileFails
    <2>1. idx' \in [Roots -> Version]
      BY <1>3 DEF ReconcileFails, TypeOK
    <2>2. /\ cur' \in Roots /\ phase' \in Phases
          /\ step' = "scan" /\ scan' \in Version /\ unread' = Files
      BY <1>3, AdvanceType DEF ReconcileFails, AfterReconcile, Phases
    <2> QED
      BY <1>3, <2>1, <2>2, FaultType DEF ReconcileFails, TypeOK, memory
  <1>4. CASE MarkFails
    <2>1. PICK e \in Fresh(cur) :
            \/ applied' = applied
            \/ applied' = [applied EXCEPT ![cur] = @ \union {e.id}]
      BY <1>4 DEF MarkFails
    <2>2. e.id \in Nat
      BY <2>1 DEF Fresh, TypeOK, Event
    <2>3. applied' \in [Roots -> SUBSET Nat]
      <3>1. CASE applied' = applied
        BY <3>1 DEF TypeOK
      <3>2. CASE applied' = [applied EXCEPT ![cur] = @ \union {e.id}]
        BY <2>2, <3>2 DEF TypeOK
      <3> QED
        BY <2>1, <3>1, <3>2
    <2>4. journal' \in [Roots -> SUBSET Event]
      BY <1>4 DEF MarkFails, TypeOK
    <2> QED
      BY <1>4, <2>3, <2>4, AbortType DEF MarkFails
  <1> QED
    BY <1>1, <1>2, <1>3, <1>4 DEF Failure

LEMMA NextType == TypeOK /\ [Next]_vars => TypeOK'
  <1> SUFFICES ASSUME TypeOK, [Next]_vars PROVE TypeOK'
    OBVIOUS
  <1>1. ASSUME NEW r \in Roots, NEW f \in Files, Edit(r, f) PROVE TypeOK'
    <2>1. tree' \in [Roots -> Version]
      BY <1>1 DEF Edit, TypeOK, Version
    <2>2. unseen' \in [Roots -> SUBSET (Files \union Outputs)]
      BY <1>1 DEF Edit, TypeOK
    <2> QED
      BY <1>1, <2>1, <2>2 DEF Edit, TypeOK, disk, memory, reading
  <1>2. ASSUME NEW r \in Roots, Ingest(r) PROVE TypeOK'
    <2>1. [id |-> issued, kind |-> "external", seen |-> Blank] \in Event
      BY BlankType DEF TypeOK, Event
    <2>2. journal' \in [Roots -> SUBSET Event]
      BY <1>2, <2>1 DEF Ingest, TypeOK
    <2>3. issued' \in Nat
      BY <1>2 DEF Ingest, TypeOK
    <2> QED
      BY <1>2, <2>2, <2>3 DEF Ingest, TypeOK, memory, reading
  <1>3. ASSUME Notification PROVE TypeOK'
    <2>1. ASSUME NEW r \in Roots, NotifyError(r) PROVE TypeOK'
      BY <2>1, SendType DEF NotifyError, TypeOK
    <2>3. ASSUME NEW r \in Roots, Swallow(r) PROVE TypeOK'
      BY <2>3 DEF Swallow, TypeOK, disk, memory, reading
    <2>2. ASSUME NEW r \in Roots, NEW path \in unseen[r], Notify(r, path)
          PROVE TypeOK'
      BY <2>2, SendType DEF Notify, TypeOK
    <2> QED
      BY <1>3, <2>1, <2>2, <2>3 DEF Notification
  <1>4. CASE Loop
    BY <1>4, LoopType
  <1>5. CASE Failure
    BY <1>5, FailureType
  <1>6. CASE Restart \/ Start
    BY <1>6 DEF Restart, Start, Launch, TypeOK, Phases, world, disk, memory, reading
  <1>7. CASE Signal
    <2>1. stop' \in BOOLEAN
      BY <1>7 DEF Signal
    <2> QED
      BY <1>7, <2>1, FaultType DEF Signal, TypeOK, disk, memory, reading
  <1>8. CASE Crash
    BY <1>8, FaultType, ExitType DEF Crash, TypeOK, Halted
  <1>9. CASE UNCHANGED vars
    BY <1>9 DEF vars, TypeOK, world, disk, memory, reading
  <1> QED
    BY <1>1, <1>2, <1>3, <1>4, <1>5, <1>6, <1>7, <1>8, <1>9 DEF Next

\* Every variable of the service keeps its type.
THEOREM TypeCorrect == Spec => []TypeOK
  BY InitType, NextType, PTL DEF Spec

-----------------------------------------------------------------------------
(* The inductive invariant.                                                *)

LEMMA InitInv == Init => Inv
  <1> SUFFICES ASSUME Init PROVE Inv
    OBVIOUS
  <1>1. TypeOK
    BY InitType
  <1>2. DiskIsSound
    BY DEF Init, DiskIsSound, Below, Blank
  <1>3. ChannelIsNew
    BY DEF Init, ChannelIsNew
  <1>4. MemoryOnDisk /\ MarkedWorkIsVisible
    BY DEF Init, MemoryOnDisk, MarkedWorkIsVisible
  <1>5. ScanIsFresh /\ BatchIsVisible
    BY DEF Init, ScanIsFresh, BatchIsVisible, Reconciling
  <1> QED
    BY <1>1, <1>2, <1>3, <1>4, <1>5 DEF Inv

\* The head of the channel moves to the journal.
LEMMA JournalHead ==
  ASSUME Inv, queue[cur] # <<>>,
         journal' = [journal EXCEPT ![cur] = @ \union {Head(queue[cur])}],
         UNCHANGED <<tree, issued, applied, atlas, idx>>
  PROVE  DiskIsSound' /\ MarkedWorkIsVisible'
  <1> DEFINE h == Head(queue[cur])
  <1>1. /\ cur \in Roots /\ h = queue[cur][1] /\ 1 \in 1..Len(queue[cur])
        /\ journal \in [Roots -> SUBSET Event]
    BY DEF Inv, TypeOK
  <1>2. /\ h.id < issued /\ Below(h.seen, tree[cur])
        /\ \A e \in journal[cur] : e.id # h.id
    BY <1>1 DEF Inv, ChannelIsNew
  <1>3. h.id \notin applied[cur]
    BY <1>1, <1>2 DEF Inv, DiskIsSound
  <1>4. \A r \in Roots : journal'[r] = IF r = cur THEN journal[r] \union {h}
                                                  ELSE journal[r]
    BY <1>1
  <1>5. DiskIsSound'
    BY <1>1, <1>2, <1>4 DEF Inv, DiskIsSound, Below
  <1>6. MarkedWorkIsVisible'
    BY <1>3, <1>4 DEF Inv, MarkedWorkIsVisible, Covers
  <1> QED
    BY <1>5, <1>6

\* A marker is written for an event of a batch that the Atlas shows.
LEMMA MarkerWritten ==
  ASSUME Inv, phase = "mark", NEW e \in Fresh(cur),
         applied' = [applied EXCEPT ![cur] = @ \union {e.id}],
         UNCHANGED <<tree, issued, journal, atlas, idx>>
  PROVE  DiskIsSound' /\ MarkedWorkIsVisible'
  <1>1. cur \in Roots /\ applied \in [Roots -> SUBSET Nat]
    BY DEF Inv, TypeOK
  <1>2. e \in pending[cur] /\ e \in journal[cur]
    BY <1>1 DEF Fresh, Inv, MemoryOnDisk
  <1>3. Covers(atlas[cur], e) /\ Covers(idx[cur], e)
    BY <1>2 DEF Inv, BatchIsVisible
  <1>4. \A r \in Roots : applied'[r] = IF r = cur THEN applied[r] \union {e.id}
                                                  ELSE applied[r]
    BY <1>1
  <1>5. DiskIsSound'
    BY <1>2, <1>4 DEF Inv, DiskIsSound, Below
  <1>6. \A d \in journal[cur] : d.id = e.id => d = e
    BY <1>1, <1>2 DEF Inv, DiskIsSound
  <1>7. MarkedWorkIsVisible'
    BY <1>3, <1>4, <1>6 DEF Inv, MarkedWorkIsVisible, Covers
  <1> QED
    BY <1>5, <1>7

\* When the process ends, what the disk holds is all there is to check.
LEMMA ExitInv ==
  ASSUME NEW how \in Halted, Exit(how),
         TypeOK', DiskIsSound', MarkedWorkIsVisible'
  PROVE  Inv'
  <1>1. ChannelIsNew'
    BY DEF Exit, ChannelIsNew
  <1>2. MemoryOnDisk'
    BY DEF Exit, MemoryOnDisk
  <1>3. ScanIsFresh' /\ BatchIsVisible'
    BY DEF Exit, ScanIsFresh, BatchIsVisible, Reconciling, Halted
  <1> QED
    BY <1>1, <1>2, <1>3 DEF Inv

\* A scan that has only begun has read nothing that could be stale.
LEMMA BeginScanInv ==
  ASSUME BeginScan, phase' # "mark"
  PROVE  ScanIsFresh' /\ BatchIsVisible'
  BY DEF BeginScan, ScanIsFresh, BatchIsVisible

LEMMA AdvanceInv ==
  ASSUME NEW loop, NEW after, loop # "mark", after # "mark", Advance(loop, after)
  PROVE  ScanIsFresh' /\ BatchIsVisible'
  BY BeginScanInv DEF Advance

\* Nothing that the disk's part of the invariant speaks of has changed.
LEMMA SameDisk ==
  ASSUME Inv, UNCHANGED <<tree, issued, journal, applied, atlas, idx>>
  PROVE  DiskIsSound' /\ MarkedWorkIsVisible'
  BY DEF Inv, DiskIsSound, MarkedWorkIsVisible

LEMMA SameChannel ==
  ASSUME Inv, UNCHANGED <<tree, issued, journal, queue>>
  PROVE  ChannelIsNew'
  BY DEF Inv, ChannelIsNew

-----------------------------------------------------------------------------
(* Every step keeps the invariant.                                         *)

LEMMA EditInv ==
  ASSUME Inv, TypeOK', NEW r \in Roots, NEW f \in Files, Edit(r, f)
  PROVE  Inv'
  <1> USE DEF Inv
  <1>1. UNCHANGED <<issued, disk, phase, cur, memory, reading>>
    BY DEF Edit
  <1>2. \A q \in Roots, g \in Files :
          tree[q][g] \in Nat /\ tree'[q][g] \in Nat /\ tree[q][g] <= tree'[q][g]
    <2>1. tree \in [Roots -> [Files -> Nat]]
      BY DEF TypeOK, Version
    <2>2. tree' = [tree EXCEPT ![r] = [tree[r] EXCEPT ![f] = tree[r][f] + 1]]
      BY DEF Edit
    <2> QED
      BY <2>1, <2>2
  <1>3. ASSUME NEW v \in Version, NEW q \in Roots, Below(v, tree[q])
        PROVE  Below(v, tree'[q])
    BY <1>2, <1>3 DEF Below, Version
  <1>4. \A q \in Roots : atlas[q] \in Version
    BY DEF TypeOK
  <1>5. DiskIsSound'
    BY <1>1, <1>3, <1>4, Typed DEF DiskIsSound, disk
  <1>6. ChannelIsNew'
    BY <1>1, <1>3, Typed DEF ChannelIsNew, disk, memory
  <1>7. ScanIsFresh'
    <2>1. cur \in Roots
      BY DEF TypeOK
    <2>2. \A g \in Files : scan[g] \in Nat
      BY <2>1, Typed
    <2> QED
      BY <1>1, <1>2, <2>1, <2>2
      DEF ScanIsFresh, Reconciling, disk, memory, reading
  <1>8. MemoryOnDisk' /\ BatchIsVisible' /\ MarkedWorkIsVisible'
    BY <1>1 DEF MemoryOnDisk, BatchIsVisible, MarkedWorkIsVisible, disk, memory
  <1> QED
    BY <1>5, <1>6, <1>7, <1>8

LEMMA SendInv ==
  ASSUME Inv, TypeOK', NEW r \in Roots, Send(r)
  PROVE  Inv'
  <1> USE DEF Inv
  <1> DEFINE new == FileEvent(r)
  <1>1. /\ tree \in [Roots -> Version] /\ issued \in Nat
        /\ journal \in [Roots -> SUBSET Event] /\ queue \in [Roots -> Seq(Event)]
    BY DEF TypeOK
  <1>2. new \in Event /\ new.id = issued /\ new.seen = tree[r]
    BY <1>1 DEF FileEvent, Event
  <1>3. Below(new.seen, tree[r])
    BY <1>1, <1>2 DEF Below, Version
  <1>4. UNCHANGED <<tree, disk, phase, cur, watched, pending, known, reading>>
    BY DEF Send
  <1>5. \A d \in Nat : d < issued => d < issued'
    BY <1>1 DEF Send
  <1>6. DiskIsSound'
    BY <1>4, <1>5, Typed DEF DiskIsSound, disk
  <1>7. ChannelIsNew'
    <2>1. /\ queue'[r] = Append(queue[r], new)
          /\ \A q \in Roots \ {r} : queue'[q] = queue[q]
      BY <1>1 DEF Send
    <2>2. ASSUME NEW q \in Roots \ {r}
          PROVE  \A i \in 1..Len(queue'[q]) :
                   /\ queue'[q][i].id < issued'
                   /\ Below(queue'[q][i].seen, tree'[q])
                   /\ \A j \in 1..Len(queue'[q]) :
                        queue'[q][i].id = queue'[q][j].id => i = j
                   /\ \A e \in journal'[q] : e.id # queue'[q][i].id
      <3>1. queue'[q] = queue[q] /\ journal'[q] = journal[q] /\ tree'[q] = tree[q]
        BY <1>4, <2>1 DEF disk
      <3>2. \A i \in 1..Len(queue[q]) : queue[q][i].id < issued'
        BY <1>5, Typed DEF ChannelIsNew
      <3> QED
        BY <3>1, <3>2 DEF ChannelIsNew, Below
    <2>3. /\ Len(queue'[r]) = Len(queue[r]) + 1
          /\ \A i \in 1..Len(queue[r]) : queue'[r][i] = queue[r][i]
          /\ queue'[r][Len(queue[r]) + 1] = new
          /\ Len(queue[r]) \in Nat
      BY <1>1, <1>2, <2>1
    <2>4. \A i \in 1..Len(queue'[r]) : i \in 1..Len(queue[r]) \/ i = Len(queue[r]) + 1
      BY <2>3
    <2>5. \A i \in 1..Len(queue[r]) : queue[r][i].id \in Nat /\ queue[r][i].id < issued
      BY Typed DEF ChannelIsNew
    <2>6. \A e \in journal[r] : e.id \in Nat /\ e.id < issued
      BY Typed DEF DiskIsSound
    <2>7. issued' = issued + 1
      BY DEF Send
    <2>8. \A i \in 1..Len(queue'[r]) :
            /\ queue'[r][i].id < issued'
            /\ Below(queue'[r][i].seen, tree'[r])
      <3> TAKE i \in 1..Len(queue'[r])
      <3>1. CASE i \in 1..Len(queue[r])
        BY <1>4, <1>5, <2>3, <2>5, <3>1 DEF ChannelIsNew
      <3>2. CASE i = Len(queue[r]) + 1
        BY <1>1, <1>2, <1>3, <1>4, <2>3, <2>7, <3>2
      <3> QED
        BY <2>4, <3>1, <3>2
    <2>9. \A i, j \in 1..Len(queue'[r]) : queue'[r][i].id = queue'[r][j].id => i = j
      <3> TAKE i, j \in 1..Len(queue'[r])
      <3>1. CASE i \in 1..Len(queue[r]) /\ j \in 1..Len(queue[r])
        BY <2>3, <3>1 DEF ChannelIsNew
      <3>2. CASE i \in 1..Len(queue[r]) /\ j = Len(queue[r]) + 1
        BY <1>1, <1>2, <2>3, <2>5, <3>2
      <3>3. CASE i = Len(queue[r]) + 1 /\ j \in 1..Len(queue[r])
        BY <1>1, <1>2, <2>3, <2>5, <3>3
      <3> QED
        BY <2>4, <3>1, <3>2, <3>3
    <2>10. \A i \in 1..Len(queue'[r]) : \A e \in journal'[r] : e.id # queue'[r][i].id
      BY <1>1, <1>2, <1>4, <2>3, <2>4, <2>6 DEF ChannelIsNew, disk
    <2> QED
      BY <2>2, <2>8, <2>9, <2>10 DEF ChannelIsNew
  <1>8. /\ MemoryOnDisk' /\ ScanIsFresh'
        /\ BatchIsVisible' /\ MarkedWorkIsVisible'
    BY <1>4 DEF MemoryOnDisk, ScanIsFresh, BatchIsVisible, MarkedWorkIsVisible,
                Reconciling, disk, reading
  <1> QED
    BY <1>6, <1>7, <1>8

LEMMA SwallowInv ==
  ASSUME Inv, TypeOK', NEW r \in Roots, Swallow(r)
  PROVE  Inv'
  <1>1. UNCHANGED <<tree, issued, disk, phase, cur, memory, reading>>
    BY DEF Swallow
  <1> QED
    BY <1>1, SameDisk, SameChannel
    DEF disk, memory, reading, Inv, MemoryOnDisk, ScanIsFresh, BatchIsVisible, Reconciling

LEMMA IngestInv ==
  ASSUME Inv, TypeOK', NEW r \in Roots, Ingest(r)
  PROVE  Inv'
  <1> USE DEF Inv
  <1> DEFINE new == [id |-> issued, kind |-> "external", seen |-> Blank]
  <1>1. /\ tree \in [Roots -> Version] /\ issued \in Nat
        /\ journal \in [Roots -> SUBSET Event] /\ queue \in [Roots -> Seq(Event)]
    BY DEF TypeOK
  <1>2. new.id = issued /\ Below(new.seen, tree[r])
    BY <1>1 DEF Below, Blank, Version
  <1>3. \A q \in Roots : journal'[q] = IF q = r THEN journal[q] \union {new}
                                                ELSE journal[q]
    BY <1>1 DEF Ingest
  <1> HIDE DEF new
  <1>4. /\ issued' = issued + 1
        /\ UNCHANGED <<tree, applied, atlas, idx, phase, cur, memory, reading>>
    BY DEF Ingest
  <1>5. \A q \in Roots : \A e \in journal[q] : e.id \in Nat /\ e.id < issued
    BY Typed DEF DiskIsSound
  <1>6. DiskIsSound'
    <2>1. \A q \in Roots : \A e \in journal'[q] :
            e.id < issued' /\ Below(e.seen, tree'[q])
      <3> TAKE q \in Roots
      <3> TAKE e \in journal'[q]
      <3>1. CASE e \in journal[q]
        BY <1>1, <1>4, <1>5, <3>1 DEF DiskIsSound
      <3>2. CASE q = r /\ e = new
        BY <1>1, <1>2, <1>4, <3>2
      <3> QED
        BY <1>3, <3>1, <3>2
    <2>2. \A q \in Roots : \A d, e \in journal'[q] : d.id = e.id => d = e
      <3> TAKE q \in Roots
      <3>1. \A d, e \in journal[q] : d.id = e.id => d = e
        BY DEF DiskIsSound
      <3>2. \A d \in journal[q] : d.id # new.id
        BY <1>1, <1>2, <1>5
      <3> QED
        BY <1>3, <3>1, <3>2
    <2> QED
      BY <1>3, <1>4, <2>1, <2>2 DEF DiskIsSound
  <1>7. ChannelIsNew'
    <2>1. \A q \in Roots : \A i \in 1..Len(queue[q]) :
            queue[q][i].id \in Nat /\ queue[q][i].id < issued
      BY Typed DEF ChannelIsNew
    <2>2. UNCHANGED <<tree, queue>>
      BY <1>4 DEF memory
    <2>3. \A q \in Roots : \A i \in 1..Len(queue[q]) :
            queue[q][i].id < issued' /\ queue[q][i].id # new.id
      BY <1>1, <1>2, <1>4, <2>1
    <2>4. \A q \in Roots : \A i \in 1..Len(queue[q]) :
            \A e \in journal'[q] : e.id # queue[q][i].id
      <3> TAKE q \in Roots
      <3> TAKE i \in 1..Len(queue[q])
      <3>1. \A e \in journal[q] : e.id # queue[q][i].id
        BY DEF ChannelIsNew
      <3> QED
        BY <1>3, <2>3, <3>1
    <2> QED
      BY <2>2, <2>3, <2>4 DEF ChannelIsNew
  <1>8. issued \notin applied[r]
    BY <1>1, <1>5 DEF DiskIsSound
  <1>9. MarkedWorkIsVisible'
    BY <1>2, <1>3, <1>4, <1>8 DEF MarkedWorkIsVisible
  <1>10. MemoryOnDisk' /\ ScanIsFresh' /\ BatchIsVisible'
    BY <1>3, <1>4 DEF MemoryOnDisk, ScanIsFresh, BatchIsVisible,
                      Reconciling, memory, reading
  <1> QED
    BY <1>6, <1>7, <1>9, <1>10

LEMMA OpenInv ==
  ASSUME Inv, TypeOK', Open
  PROVE  Inv'
  <1> USE DEF Inv
  <1>1. /\ UNCHANGED <<tree, issued, journal, applied, atlas, idx, queue, pending>>
        /\ Advance("open", "initial")
        /\ known' = [known EXCEPT ![cur] = applied[cur]]
    BY DEF Open, world, disk
  <1>2. known \in [Roots -> SUBSET Nat]
    BY DEF TypeOK
  <1>3. MemoryOnDisk'
    BY <1>1, <1>2 DEF MemoryOnDisk
  <1> QED
    BY <1>1, <1>3, SameDisk, SameChannel, AdvanceInv

LEMMA LoopHeadInv ==
  ASSUME Inv, TypeOK', LoopHead
  PROVE  Inv'
  <1>1. CASE stop /\ Exit("stopped") /\ UNCHANGED <<faults, journal, applied>>
    <2>1. UNCHANGED <<tree, issued, journal, applied, atlas, idx>>
      BY <1>1 DEF Exit
    <2> QED
      BY <1>1, <2>1, SameDisk, ExitInv DEF Halted
  <1>2. CASE phase' = "drain" /\ UNCHANGED <<world, disk, cur, memory, reading, stop>>
    <2>1. UNCHANGED <<tree, issued, journal, applied, atlas, idx, queue, pending,
                      known>>
      BY <1>2 DEF world, disk, memory
    <2> QED
      BY <1>2, <2>1, SameDisk, SameChannel
      DEF Inv, MemoryOnDisk, ScanIsFresh, BatchIsVisible, Reconciling
  <1> QED
    BY <1>1, <1>2 DEF LoopHead

LEMMA DrainInv ==
  ASSUME Inv, TypeOK', Drain
  PROVE  Inv'
  <1> USE DEF Inv
  <1> DEFINE h == Head(queue[cur])
  <1>1. /\ cur \in Roots /\ queue[cur] # <<>> /\ queue[cur] \in Seq(Event)
        /\ queue \in [Roots -> Seq(Event)]
        /\ journal \in [Roots -> SUBSET Event] /\ pending \in [Roots -> SUBSET Event]
    BY DEF TypeOK, Drain
  <1>2. /\ journal' = [journal EXCEPT ![cur] = @ \union {h}]
        /\ pending' = [pending EXCEPT ![cur] = @ \union {h}]
        /\ queue' = [queue EXCEPT ![cur] = Tail(@)]
        /\ phase = "drain"
        /\ UNCHANGED <<tree, issued, applied, atlas, idx, phase, known>>
    BY DEF Drain, world
  <1>3. DiskIsSound' /\ MarkedWorkIsVisible'
    BY <1>1, <1>2, JournalHead
  <1>4. ChannelIsNew'
    <2>1. /\ h = queue[cur][1] /\ Len(queue[cur]) \in Nat
          /\ 1 \in 1..Len(queue[cur])
          /\ Len(queue'[cur]) = Len(queue[cur]) - 1
          /\ \A i \in 1..Len(queue'[cur]) :
               i + 1 \in 1..Len(queue[cur]) /\ queue'[cur][i] = queue[cur][i + 1]
      BY <1>1, <1>2
    <2>2. \A r \in Roots \ {cur} : queue'[r] = queue[r] /\ journal'[r] = journal[r]
      BY <1>1, <1>2
    <2>3. journal'[cur] = journal[cur] \union {h}
      BY <1>1, <1>2
    <2>4. ASSUME NEW i \in 1..Len(queue'[cur])
          PROVE  /\ queue'[cur][i].id < issued'
                 /\ Below(queue'[cur][i].seen, tree'[cur])
                 /\ \A j \in 1..Len(queue'[cur]) :
                      queue'[cur][i].id = queue'[cur][j].id => i = j
                 /\ \A e \in journal'[cur] : e.id # queue'[cur][i].id
      <3>1. i + 1 \in 1..Len(queue[cur]) /\ queue'[cur][i] = queue[cur][i + 1]
        BY <2>1
      <3>2. /\ queue'[cur][i].id < issued'
            /\ Below(queue'[cur][i].seen, tree'[cur])
        BY <1>1, <1>2, <3>1 DEF ChannelIsNew
      <3>3. \A j \in 1..Len(queue'[cur]) :
              queue'[cur][i].id = queue'[cur][j].id => i + 1 = j + 1
        BY <1>1, <2>1, <3>1 DEF ChannelIsNew
      <3>4. \A j \in 1..Len(queue'[cur]) : i + 1 = j + 1 => i = j
        BY <2>1
      <3>5. queue[cur][i + 1].id = h.id => i + 1 = 1
        BY <1>1, <2>1, <3>1 DEF ChannelIsNew
      <3>6. i + 1 # 1
        BY <2>1
      <3>7. \A e \in journal[cur] : e.id # queue[cur][i + 1].id
        BY <1>1, <3>1 DEF ChannelIsNew
      <3> QED
        BY <2>3, <3>1, <3>2, <3>3, <3>4, <3>5, <3>6, <3>7
    <2>5. UNCHANGED <<tree, issued>>
      BY <1>2
    <2> QED
      BY <2>2, <2>4, <2>5 DEF ChannelIsNew
  <1>5. MemoryOnDisk'
    BY <1>1, <1>2 DEF MemoryOnDisk
  <1>6. ScanIsFresh' /\ BatchIsVisible'
    BY <1>2 DEF ScanIsFresh, BatchIsVisible, Reconciling
  <1> QED
    BY <1>3, <1>4, <1>5, <1>6

LEMMA SettleInv ==
  ASSUME Inv, TypeOK', Settle
  PROVE  Inv'
  <1> USE DEF Inv
  <1>1. /\ UNCHANGED <<tree, issued, journal, applied, atlas, idx, queue, known>>
        /\ pending' = [pending EXCEPT ![cur] = Fresh(cur)]
    BY DEF Settle, world, disk
  <1>2. MemoryOnDisk'
    BY <1>1 DEF MemoryOnDisk, Fresh, TypeOK
  <1>3. ScanIsFresh' /\ BatchIsVisible'
    BY BeginScanInv, AdvanceInv DEF Settle
  <1> QED
    BY <1>1, <1>2, <1>3, SameDisk, SameChannel

LEMMA ReadFileInv ==
  ASSUME Inv, TypeOK', NEW f \in Files, ReadFile(f)
  PROVE  Inv'
  <1> USE DEF Inv
  <1>1. /\ UNCHANGED <<tree, issued, journal, applied, atlas, idx, queue, pending,
                       known, phase, cur>>
        /\ step = "scan" /\ f \in unread
        /\ scan' = [scan EXCEPT ![f] = tree[cur][f]]
        /\ unread' = unread \ {f}
        /\ step' \in {"scan", "commit"} /\ (step' # "scan" => unread' = {})
    BY DEF ReadFile, world, disk, memory
  <1>2. cur \in Roots /\ scan \in Version /\ pending[cur] \subseteq journal[cur]
    BY DEF TypeOK, MemoryOnDisk
  <1>3. /\ tree[cur][f] \in Nat
        /\ atlas[cur][f] <= tree[cur][f]
        /\ \A e \in pending[cur] : e.seen[f] <= tree[cur][f] /\ e.seen[f] \in Nat
    BY <1>2, Typed DEF DiskIsSound, Below, Version
  <1>4. \A g \in Files : scan'[g] = IF g = f THEN tree[cur][f] ELSE scan[g]
    BY <1>1, <1>2 DEF Version
  <1>5. Files \ unread' \subseteq (Files \ unread) \union {f}
    BY <1>1
  <1>6. ScanIsFresh'
    <2>1. Reconciling
      BY DEF ReadFile
    <2>2. ASSUME NEW g \in Files \ unread'
          PROVE  /\ scan'[g] <= tree'[cur'][g]
                 /\ scan'[g] >= atlas'[cur'][g]
                 /\ \A e \in pending'[cur'] : scan'[g] >= e.seen[g]
      <3>1. CASE g = f
        BY <1>1, <1>2, <1>3, <1>4, <3>1, Typed
      <3>2. CASE g # f
        BY <1>1, <1>4, <1>5, <2>1, <3>2 DEF ScanIsFresh
      <3> QED
        BY <3>1, <3>2
    <2> QED
      BY <1>1, <2>2 DEF ScanIsFresh
  <1>7. MemoryOnDisk' /\ BatchIsVisible'
    BY <1>1 DEF MemoryOnDisk, BatchIsVisible
  <1> QED
    BY <1>1, <1>6, <1>7, SameDisk, SameChannel

\* The snapshot being committed is as new as the one it replaces, and as the
\* batch, so markers that were true stay true.
LEMMA CommitInv ==
  ASSUME Inv, TypeOK', Commit
  PROVE  Inv'
  <1> USE DEF Inv
  <1>1. /\ UNCHANGED <<tree, issued, journal, applied, idx, queue, pending, known,
                       phase, cur, scan, unread>>
        /\ step = "commit" /\ step' = "project"
        /\ atlas' = [atlas EXCEPT ![cur] = scan]
        /\ Reconciling
    BY DEF Commit, world, memory
  <1>2. cur \in Roots /\ atlas \in [Roots -> Version] /\ scan \in Version
    BY DEF TypeOK
  <1>3. \A r \in Roots : atlas'[r] = IF r = cur THEN scan ELSE atlas[r]
    BY <1>1, <1>2
  <1>4. \A f \in Files : scan[f] <= tree[cur][f] /\ scan[f] >= atlas[cur][f]
    BY <1>1 DEF ScanIsFresh
  <1>5. DiskIsSound'
    BY <1>1, <1>3, <1>4 DEF DiskIsSound, Below
  <1>6. MarkedWorkIsVisible'
    <2>1. ASSUME NEW r \in Roots, NEW e \in journal[r], e.id \in applied[r]
          PROVE  Covers(atlas'[r], e) /\ Covers(idx[r], e)
      <3>1. /\ \A f \in Files : /\ atlas[r][f] >= e.seen[f]
                                /\ atlas[r][f] \in Nat /\ e.seen[f] \in Nat
            /\ Covers(idx[r], e)
        BY <2>1, Typed DEF MarkedWorkIsVisible, Covers, Version
      <3>2. \A f \in Files : scan[f] \in Nat
        BY <1>2 DEF Version
      <3> QED
        BY <1>3, <1>4, <3>1, <3>2 DEF Covers
    <2> QED
      BY <1>1, <2>1 DEF MarkedWorkIsVisible
  <1>7. ScanIsFresh'
    <2>1. \A f \in Files : scan[f] >= scan[f]
      BY <1>2 DEF Version
    <2> QED
      BY <1>1, <1>2, <1>3, <2>1 DEF ScanIsFresh
  <1>8. MemoryOnDisk' /\ BatchIsVisible'
    BY <1>1 DEF MemoryOnDisk, BatchIsVisible, Reconciling
  <1> QED
    BY <1>1, <1>5, <1>6, <1>7, <1>8, SameChannel

\* Replacing ATLAS.idx by what the snapshot shows keeps the markers true.
LEMMA ProjectionWritten ==
  ASSUME Inv, Reconciling, step = "project",
         idx' = [idx EXCEPT ![cur] = scan],
         UNCHANGED <<tree, issued, journal, applied, atlas>>
  PROVE  DiskIsSound' /\ MarkedWorkIsVisible'
  <1>1. /\ cur \in Roots /\ idx \in [Roots -> Version]
        /\ scan = atlas[cur]
    BY DEF Inv, TypeOK, ScanIsFresh
  <1>2. \A r \in Roots : idx'[r] = IF r = cur THEN atlas[cur] ELSE idx[r]
    BY <1>1
  <1> QED
    BY <1>2 DEF Inv, DiskIsSound, MarkedWorkIsVisible, Covers

LEMMA ProjectInv ==
  ASSUME Inv, TypeOK', Project
  PROVE  Inv'
  <1> USE DEF Inv
  <1>1. /\ UNCHANGED <<tree, issued, journal, applied, atlas, queue, pending, known>>
        /\ idx' = [idx EXCEPT ![cur] = scan]
        /\ Reconciling /\ step = "project"
    BY DEF Project, memory
  <1>2. DiskIsSound' /\ MarkedWorkIsVisible'
    BY <1>1, ProjectionWritten
  <1>3. MemoryOnDisk'
    BY <1>1 DEF MemoryOnDisk
  <1>4. ScanIsFresh' /\ BatchIsVisible'
    <2>1. CASE phase = "initial"
      BY <2>1, AdvanceInv DEF Project, AfterReconcile
    <2>2. CASE phase = "reconcile"
      <3>1. phase' = "mark" /\ cur' = cur
        BY <2>2 DEF Project, AfterReconcile
      <3>2. cur \in Roots /\ idx \in [Roots -> Version] /\ scan = atlas[cur]
        BY <1>1 DEF TypeOK, ScanIsFresh
      <3>3. unread = {}
        BY <1>1 DEF ScanIsFresh
      <3>4. \A e \in pending[cur] : Covers(atlas[cur], e) /\ Covers(scan, e)
        BY <1>1, <3>2, <3>3 DEF ScanIsFresh, Covers
      <3>5. idx'[cur] = scan
        BY <1>1, <3>2
      <3> QED
        BY <1>1, <3>1, <3>4, <3>5
        DEF BatchIsVisible, ScanIsFresh, Reconciling, Covers
    <2> QED
      BY <1>1, <2>1, <2>2 DEF Reconciling
  <1> QED
    BY <1>1, <1>2, <1>3, <1>4, SameChannel

LEMMA ReconcileFailsInv ==
  ASSUME Inv, TypeOK', ReconcileFails
  PROVE  Inv'
  <1> USE DEF Inv
  <1>1. /\ UNCHANGED <<tree, issued, journal, applied, atlas, queue, pending, known>>
        /\ Reconciling
        /\ idx' = idx \/ (step = "project" /\ idx' = [idx EXCEPT ![cur] = scan])
    BY DEF ReconcileFails, memory
  <1>2. DiskIsSound' /\ MarkedWorkIsVisible'
    BY <1>1, SameDisk, ProjectionWritten
  <1>3. MemoryOnDisk'
    BY <1>1 DEF MemoryOnDisk
  <1>4. ScanIsFresh' /\ BatchIsVisible'
    BY AdvanceInv DEF ReconcileFails, AfterReconcile
  <1> QED
    BY <1>1, <1>2, <1>3, <1>4, SameChannel

LEMMA MarkInv ==
  ASSUME Inv, TypeOK', Mark
  PROVE  Inv'
  <1> USE DEF Inv
  <1>1. /\ UNCHANGED <<tree, issued, journal, atlas, idx, queue, pending, phase,
                       cur, step, scan, unread>>
        /\ phase = "mark"
    BY DEF Mark, world, reading
  <1>2. PICK e \in Fresh(cur) :
          /\ applied' = [applied EXCEPT ![cur] = @ \union {e.id}]
          /\ known' = [known EXCEPT ![cur] = @ \union {e.id}]
    BY DEF Mark
  <1>3. DiskIsSound' /\ MarkedWorkIsVisible'
    BY <1>1, <1>2, MarkerWritten
  <1>4. MemoryOnDisk'
    BY <1>1, <1>2 DEF MemoryOnDisk, TypeOK
  <1>5. ScanIsFresh' /\ BatchIsVisible'
    BY <1>1 DEF ScanIsFresh, BatchIsVisible, Reconciling
  <1> QED
    BY <1>1, <1>3, <1>4, <1>5, SameChannel

LEMMA ClearPendingInv ==
  ASSUME Inv, TypeOK', ClearPending
  PROVE  Inv'
  <1> USE DEF Inv
  <1>1. /\ UNCHANGED <<tree, issued, journal, applied, atlas, idx, queue, known>>
        /\ pending' = [pending EXCEPT ![cur] = {}]
    BY DEF ClearPending, world, disk
  <1>2. MemoryOnDisk'
    BY <1>1 DEF MemoryOnDisk, TypeOK
  <1>3. ScanIsFresh' /\ BatchIsVisible'
    BY AdvanceInv DEF ClearPending
  <1> QED
    BY <1>1, <1>2, <1>3, SameDisk, SameChannel

LEMMA FailureInv ==
  ASSUME Inv, TypeOK', Failure
  PROVE  Inv'
  <1>1. CASE OpenFails
    <2>1. UNCHANGED <<tree, issued, journal, applied, atlas, idx>>
      BY <1>1 DEF OpenFails, Abort, Exit
    <2> QED
      BY <1>1, <2>1, SameDisk, ExitInv DEF OpenFails, Abort, Halted
  <1>2. CASE AppendFails
    <2>1. Exit("failed") /\ UNCHANGED <<tree, issued, applied, atlas, idx>>
      BY <1>2 DEF AppendFails, Abort, Exit
    <2>2. CASE journal' = journal
      BY <2>1, <2>2, SameDisk, ExitInv DEF Halted
    <2>3. CASE journal' = [journal EXCEPT ![cur] = @ \union {Head(queue[cur])}]
      <3>1. queue[cur] # <<>>
        BY <1>2 DEF AppendFails
      <3> QED
        BY <2>1, <2>3, <3>1, JournalHead, ExitInv DEF Halted
    <2> QED
      BY <1>2, <2>2, <2>3 DEF AppendFails
  <1>3. CASE ReconcileFails
    BY <1>3, ReconcileFailsInv
  <1>4. CASE MarkFails
    <2>1. /\ Exit("failed") /\ phase = "mark"
          /\ UNCHANGED <<tree, issued, journal, atlas, idx>>
      BY <1>4 DEF MarkFails, Abort, Exit
    <2>2. PICK e \in Fresh(cur) :
            \/ applied' = applied
            \/ applied' = [applied EXCEPT ![cur] = @ \union {e.id}]
      BY <1>4 DEF MarkFails
    <2>3. DiskIsSound' /\ MarkedWorkIsVisible'
      BY <2>1, <2>2, SameDisk, MarkerWritten
    <2> QED
      BY <2>1, <2>3, ExitInv DEF Halted
  <1> QED
    BY <1>1, <1>2, <1>3, <1>4 DEF Failure

LEMMA NextInv == Inv /\ [Next]_vars => Inv'
  <1> SUFFICES ASSUME Inv, [Next]_vars PROVE Inv'
    OBVIOUS
  <1>0. TypeOK'
    BY NextType DEF Inv
  <1>1. ASSUME NEW r \in Roots, NEW f \in Files, Edit(r, f) PROVE Inv'
    BY <1>0, <1>1, EditInv
  <1>2. ASSUME NEW r \in Roots, Ingest(r) PROVE Inv'
    BY <1>0, <1>2, IngestInv
  <1>3. CASE Notification
    BY <1>0, <1>3, SendInv, SwallowInv DEF Notification, Notify, NotifyError
  <1>4. CASE Loop
    BY <1>0, <1>4, OpenInv, LoopHeadInv, DrainInv, SettleInv, ReadFileInv,
       CommitInv, ProjectInv, MarkInv, ClearPendingInv DEF Loop
  <1>5. CASE Failure
    BY <1>0, <1>5, FailureInv
  <1>6. CASE Restart \/ Start
    <2>1. /\ UNCHANGED <<tree, issued, journal, applied, atlas, idx, queue,
                         pending, known>>
          /\ phase' = "open"
      BY <1>6 DEF Restart, Start, Launch, world, disk, memory
    <2> QED
      BY <1>0, <2>1, SameDisk, SameChannel
      DEF Inv, MemoryOnDisk, ScanIsFresh, BatchIsVisible, Reconciling
  <1>7. CASE Signal
    <2>1. UNCHANGED <<tree, issued, journal, applied, atlas, idx, queue, pending,
                      known, phase, cur, step, scan, unread>>
      BY <1>7 DEF Signal, disk, memory, reading
    <2> QED
      BY <1>0, <2>1, SameDisk, SameChannel
      DEF Inv, MemoryOnDisk, ScanIsFresh, BatchIsVisible, Reconciling
  <1>8. CASE Crash
    <2>1. UNCHANGED <<tree, issued, journal, applied, atlas, idx>>
      BY <1>8 DEF Crash, Exit
    <2> QED
      BY <1>0, <1>8, <2>1, SameDisk, ExitInv DEF Crash, Halted
  <1>9. CASE UNCHANGED vars
    BY <1>0, <1>9, SameDisk, SameChannel
    DEF vars, world, disk, memory, reading, Inv, MemoryOnDisk, ScanIsFresh,
        BatchIsVisible, Reconciling
  <1> QED
    BY <1>1, <1>2, <1>3, <1>4, <1>5, <1>6, <1>7, <1>8, <1>9 DEF Next

LEMMA Invariance == Spec => []Inv
  BY InitInv, NextInv, PTL DEF Spec

\* A marker on disk is never ahead of the stored snapshot or of ATLAS.idx,
\* whatever fails or crashes, for any number of projects and files.
THEOREM MarkersFollowTheAtlas == Spec => []MarkedWorkIsVisible
  <1>1. Inv => MarkedWorkIsVisible
    BY DEF Inv
  <1> QED
    BY <1>1, Invariance, PTL

-----------------------------------------------------------------------------
(* A batch is kept until it is applied.                                    *)

LEMMA BatchKept ==
  ASSUME Inv, [Next]_vars, NEW r \in Roots, NEW e \in pending[r] \ pending'[r]
  PROVE  e.id \in applied[r] \/ phase' \in Halted
  <1>1. pending \in [Roots -> SUBSET Event] /\ known[r] \subseteq applied[r]
    BY DEF Inv, TypeOK, MemoryOnDisk
  <1>2. pending' # pending
    OBVIOUS
  <1>3. CASE Drain
    BY <1>1, <1>3 DEF Drain
  <1>4. CASE Settle
    BY <1>1, <1>4 DEF Settle, Fresh
  <1>5. CASE ClearPending
    BY <1>1, <1>5 DEF ClearPending, Fresh
  <1>6. CASE Failure
    BY <1>2, <1>6 DEF Failure, OpenFails, AppendFails, ReconcileFails, MarkFails,
                      Abort, Exit, Halted, memory
  <1>7. CASE LoopHead
    BY <1>2, <1>7 DEF LoopHead, Exit, Halted, memory
  <1>8. CASE Crash
    BY <1>8 DEF Crash, Exit, Halted
  <1>9. ASSUME NEW f \in Files, ReadFile(f) PROVE FALSE
    BY <1>2, <1>9 DEF ReadFile, memory
  <1>10. CASE Open \/ Commit \/ Project \/ Mark
    BY <1>2, <1>10 DEF Open, Commit, Project, Mark, memory
  <1>11. CASE Restart \/ Start \/ Signal \/ UNCHANGED vars
    BY <1>2, <1>11 DEF Restart, Start, Launch, Signal, vars, memory
  <1>12. CASE Notification
    BY <1>2, <1>12 DEF Notification, Notify, NotifyError, Swallow, Send, memory
  <1>13. ASSUME NEW q \in Roots, NEW f \in Files, Edit(q, f) PROVE FALSE
    BY <1>2, <1>13 DEF Edit, memory
  <1>14. ASSUME NEW q \in Roots, Ingest(q) PROVE FALSE
    BY <1>2, <1>14 DEF Ingest, memory
  <1> QED
    BY <1>3, <1>4, <1>5, <1>6, <1>7, <1>8, <1>9, <1>10, <1>11, <1>12, <1>13, <1>14
    DEF Next, Loop

\* While the process lives, an event leaves the batch only with its marker on
\* disk: a failed reconciliation drops nothing that was observed.
THEOREM NoObservedChangeDropped == Spec => BatchKeptUntilApplied
  <1>1. Inv /\ [Next]_vars =>
          [\A r \in Roots : \A e \in pending[r] \ pending'[r] :
              e.id \in applied[r] \/ phase' \in Halted]_vars
    BY BatchKept
  <1> QED
    BY <1>1, Invariance, PTL DEF Spec, BatchKeptUntilApplied

-----------------------------------------------------------------------------
(* The service implements EventLedger.                                     *)

Settled(r) == {e \in journal[r] : e.id \in applied[r]}

LEMMA LedgerInit == Init => Ledger!Init
  BY DEF Init, Ledger!Init, Blank

\* One more event in the journal, unmarked, is an observation.
LEMMA JournalGrows ==
  ASSUME Inv, TypeOK', NEW r \in Roots, NEW e \in Event, e.id \notin applied[r],
         journal' = [journal EXCEPT ![r] = @ \union {e}],
         UNCHANGED <<applied, atlas>>
  PROVE  Ledger!Observe(r)
  <1>1. journal \in [Roots -> SUBSET Event] /\ journal' \in [Roots -> SUBSET Event]
    BY DEF Inv, TypeOK
  <1>2. \A q \in Roots : journal'[q] = IF q = r THEN journal[q] \union {e}
                                                ELSE journal[q]
    BY <1>1
  <1>3. \A q \in Roots : Settled(q)' = Settled(q)
    BY <1>2 DEF Settled
  <1>4. [q \in Roots |-> Settled(q)]' = [q \in Roots |-> Settled(q)]
    BY <1>3
  <1> QED
    BY <1>1, <1>2, <1>4 DEF Ledger!Observe, Ledger!Only, Settled

\* A marker is a settlement of an event that the Atlas shows.
LEMMA MarkerSettles ==
  ASSUME Inv, TypeOK', phase = "mark", NEW r \in Roots, r = cur,
         NEW e \in Fresh(r), applied' = [applied EXCEPT ![r] = @ \union {e.id}],
         UNCHANGED <<journal, atlas>>
  PROVE  Ledger!Settle(r)
  <1>1. /\ r \in Roots /\ applied \in [Roots -> SUBSET Nat]
        /\ journal \in [Roots -> SUBSET Event]
    BY DEF Inv, TypeOK
  <1>2. e \in pending[r] /\ e \in journal[r]
    BY <1>1 DEF Fresh, Inv, MemoryOnDisk
  <1>3. \A f \in Files : atlas[r][f] >= e.seen[f]
    BY <1>2 DEF Inv, BatchIsVisible, Covers
  <1>4. \A q \in Roots : applied'[q] = IF q = r THEN applied[q] \union {e.id}
                                                  ELSE applied[q]
    BY <1>1
  <1>5. \A d \in journal[r] : d.id = e.id => d = e
    BY <1>1, <1>2 DEF Inv, DiskIsSound
  <1>6. /\ \A q \in Roots \ {r} : Settled(q)' = Settled(q)
        /\ Settled(r)' = Settled(r) \union {e}
    <2>1. \A q \in Roots \ {r} : applied'[q] = applied[q] /\ journal'[q] = journal[q]
      BY <1>4
    <2>2. /\ applied'[r] = applied[r] \union {e.id}
          /\ journal'[r] = journal[r]
      BY <1>1, <1>4
    <2>3. \A d \in journal[r] :
            d.id \in applied'[r] <=> (d.id \in applied[r] \/ d = e)
      BY <1>5, <2>2
    <2>4. \A q \in Roots \ {r} : Settled(q)' = Settled(q)
      BY <2>1 DEF Settled
    <2>5. {d \in journal[r] : d.id \in applied'[r]}
            = {d \in journal[r] : d.id \in applied[r]} \union {e}
      BY <1>2, <2>3
    <2> QED
      BY <2>2, <2>4, <2>5 DEF Settled
  <1>7. [q \in Roots |-> Settled(q)]' \in [Roots -> SUBSET Event]
    BY <1>1 DEF Settled
  <1>8. Ledger!Covers(atlas[r], e)
    BY <1>3 DEF Ledger!Covers
  <1> DEFINE old == [q \in Roots |-> Settled(q)]
  <1>9. /\ old[r] \subseteq old'[r]
        /\ \A d \in old'[r] \ old[r] : d = e
        /\ \A q \in Roots : q # r => old'[q] = old[q]
    <2>1. \A q \in Roots : old[q] = Settled(q) /\ old'[q] = Settled(q)'
      OBVIOUS
    <2> HIDE DEF old
    <2> QED
      BY <1>1, <1>6, <2>1
  <1> QED
    BY <1>2, <1>7, <1>8, <1>9 DEF Ledger!Settle, Ledger!Only, Settled

LEMMA CommitIndexes ==
  ASSUME Inv, TypeOK', Commit
  PROVE  Ledger!Index(cur)
  <1>1. /\ cur \in Roots /\ atlas \in [Roots -> Version]
        /\ atlas' \in [Roots -> Version]
    BY DEF Inv, TypeOK
  <1>2. /\ atlas' = [atlas EXCEPT ![cur] = scan]
        /\ UNCHANGED <<journal, applied>>
    BY DEF Commit
  <1>3. \A f \in Files : atlas'[cur][f] >= atlas[cur][f]
    BY <1>1, <1>2 DEF Inv, ScanIsFresh, Commit
  <1> QED
    BY <1>1, <1>2, <1>3 DEF Ledger!Index, Ledger!Only, Version

LEMMA Stutter ==
  ASSUME UNCHANGED <<journal, applied, atlas>>
  PROVE  UNCHANGED Ledger!vars
  BY DEF Ledger!vars

LEMMA HeadIsNew ==
  ASSUME Inv, queue[cur] # <<>>
  PROVE  Head(queue[cur]) \in Event /\ Head(queue[cur]).id \notin applied[cur]
  <1>1. /\ cur \in Roots /\ Head(queue[cur]) = queue[cur][1]
        /\ 1 \in 1..Len(queue[cur]) /\ Head(queue[cur]) \in Event
    BY DEF Inv, TypeOK
  <1> QED
    BY <1>1 DEF Inv, ChannelIsNew, DiskIsSound

LEMMA LedgerStep == Inv /\ [Next]_vars => [Ledger!Next]_(Ledger!vars)
  <1> SUFFICES ASSUME Inv, [Next]_vars
               PROVE  Ledger!Next \/ UNCHANGED Ledger!vars
    OBVIOUS
  <1>0. TypeOK' /\ cur \in Roots
    BY NextType DEF Inv, TypeOK
  <1>1. ASSUME NEW r \in Roots, Ingest(r) PROVE Ledger!Next
    <2> DEFINE new == [id |-> issued, kind |-> "external", seen |-> Blank]
    <2>1. new \in Event /\ new.id = issued
      BY BlankType DEF Inv, TypeOK, Event
    <2>2. issued \notin applied[r]
      <3>1. \A e \in journal[r] : e.id \in Nat /\ e.id < issued
        BY Typed DEF Inv, DiskIsSound
      <3>2. \A id \in applied[r] : id < issued /\ id \in Nat
        BY <3>1 DEF Inv, DiskIsSound
      <3>3. issued \in Nat
        BY DEF Inv, TypeOK
      <3> QED
        BY <3>2, <3>3
    <2> QED
      BY <1>0, <1>1, <2>1, <2>2, JournalGrows DEF Ingest, Ledger!Next
  <1>2. CASE Drain
    BY <1>0, <1>2, HeadIsNew, JournalGrows DEF Drain, Ledger!Next
  <1>3. CASE AppendFails
    <2>1. queue[cur] # <<>> /\ UNCHANGED <<applied, atlas>>
      BY <1>3 DEF AppendFails, Abort, Exit
    <2>2. CASE journal' = journal
      BY <2>1, <2>2, Stutter
    <2>3. CASE journal' = [journal EXCEPT ![cur] = @ \union {Head(queue[cur])}]
      BY <1>0, <2>1, <2>3, HeadIsNew, JournalGrows DEF Ledger!Next
    <2> QED
      BY <1>3, <2>2, <2>3 DEF AppendFails
  <1>4. CASE Commit
    BY <1>0, <1>4, CommitIndexes DEF Ledger!Next
  <1>5. CASE Mark
    <2>1. phase = "mark" /\ UNCHANGED <<journal, atlas>>
      BY <1>5 DEF Mark
    <2>2. PICK r \in Roots : r = cur
      BY <1>0
    <2>3. PICK e \in Fresh(r) :
            applied' = [applied EXCEPT ![r] = @ \union {e.id}]
      BY <1>5, <2>2 DEF Mark
    <2>4. Ledger!Settle(r)
      BY <1>0, <2>1, <2>2, <2>3, MarkerSettles
    <2> QED
      BY <2>4 DEF Ledger!Next
  <1>6. CASE MarkFails
    <2>1. phase = "mark" /\ UNCHANGED <<journal, atlas>>
      BY <1>6 DEF MarkFails, Abort, Exit
    <2>2. PICK r \in Roots : r = cur
      BY <1>0
    <2>3. PICK e \in Fresh(r) :
            \/ applied' = applied
            \/ applied' = [applied EXCEPT ![r] = @ \union {e.id}]
      BY <1>6, <2>2 DEF MarkFails
    <2>4. CASE applied' = applied
      BY <2>1, <2>4, Stutter
    <2>5. CASE applied' = [applied EXCEPT ![r] = @ \union {e.id}]
      <3>1. Ledger!Settle(r)
        BY <1>0, <2>1, <2>2, <2>5, MarkerSettles
      <3> QED
        BY <3>1 DEF Ledger!Next
    <2> QED
      BY <2>3, <2>4, <2>5
  <1>7. CASE OpenFails \/ ReconcileFails \/ LoopHead \/ Crash
    BY <1>7, Stutter
    DEF OpenFails, ReconcileFails, LoopHead, Crash, Abort, Exit, disk
  <1>8. CASE Open \/ Settle \/ Project \/ ClearPending
    BY <1>8, Stutter DEF Open, Settle, Project, ClearPending, disk
  <1>9. CASE Restart \/ Start \/ Signal \/ UNCHANGED vars
    BY <1>9, Stutter DEF Restart, Start, Launch, Signal, vars, disk
  <1>10. ASSUME NEW f \in Files, ReadFile(f) PROVE UNCHANGED Ledger!vars
    BY <1>10, Stutter DEF ReadFile, disk
  <1>11. ASSUME NEW r \in Roots, NEW f \in Files, Edit(r, f)
         PROVE  UNCHANGED Ledger!vars
    BY <1>11, Stutter DEF Edit, disk
  <1>12. CASE Notification
    BY <1>12, Stutter DEF Notification, Notify, NotifyError, Swallow, Send, disk
  <1> QED
    BY <1>1, <1>2, <1>3, <1>4, <1>5, <1>6, <1>7, <1>8, <1>9, <1>10, <1>11, <1>12
    DEF Next, Loop, Failure

\* The loop, with its crashes, failures and retries, implements EventLedger: an
\* event is settled once, for good, and only by an Atlas that shows it, and no
\* reconciliation takes the Atlas back.
THEOREM ImplementsLedger == Spec => KeepsLedger
  BY LedgerInit, LedgerStep, Invariance, PTL DEF Spec, KeepsLedger, Ledger!Spec

=============================================================================
