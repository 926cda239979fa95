--------------------------- MODULE ResidentService ---------------------------
(***************************************************************************)
(* The resident service behind `creature-context run`: one loop over the   *)
(* projects named on the command line.  For each project it drains the     *)
(* watcher's channel, writing every event to the journal, and when the     *)
(* batch holds fresh work reconciles: scans the tree, replaces the stored  *)
(* snapshot, rewrites ATLAS.idx, and only then marks the batch applied.    *)
(*                                                                         *)
(* The loop runs against people editing files, the operating system's      *)
(* notifications, `creature-context ingest` appending to the same journal, *)
(* calls that fail, SIGTERM, crashes and the supervisor that restarts it.  *)
(*                                                                         *)
(* A project's tree is a version per file, and a snapshot is the version   *)
(* of every file that the scan read, each at its own moment.  The journal  *)
(* is a set of events here; its lines and bytes are in JsonlJournal.       *)
(***************************************************************************)
EXTENDS Naturals, Sequences, FiniteSets

CONSTANTS
    N,              \* projects 1..N, in command-line order
    Files,          \* source files of a project
    Fallible,       \* the calls that may fail: a subset of CallSites
    MaxVersion,     \* bound: the edits of a file
    MaxEvents,      \* bound: ids spent on echoes and ingested events
    MaxFaults       \* bound: failed calls, crashes and signals together

CallSites == {"open", "initial", "append", "reconcile", "mark"}

ASSUME NAssumption == N \in Nat \ {0}
ASSUME FilesAssumption == Files # {} /\ IsFiniteSet(Files)
ASSUME FallibleAssumption == Fallible \subseteq CallSites
ASSUME BoundsAssumption == {MaxVersion, MaxEvents, MaxFaults} \subseteq Nat

Roots == 1..N

\* What a reconciliation writes below the project root, and what the watcher
\* callback drops as the service's own output.
Outputs == {"ATLAS.idx", "ATLAS.png", ".creature"}
Excluded(path) == path \in {"ATLAS.idx", ".creature"}
Echoes == {path \in Outputs : ~Excluded(path)}

ASSUME PathsAssumption == Files \intersect Outputs = {}

Version == [Files -> Nat]
Blank == [f \in Files |-> 0]

\* An event announces that the tree had reached the versions "seen" when the
\* watcher called back.  An ingested event announces nothing about the tree.
Event == [id : Nat, kind : {"file", "external"}, seen : Version]

Covers(version, e) == \A f \in Files : version[f] >= e.seen[f]

VARIABLES
    tree,       \* tree[r][f]: the version of file f on disk
    unseen,     \* unseen[r]: paths whose change is not yet notified
    missed,     \* missed[r] (history): files whose change was swallowed, nothing notified since
    issued,     \* number of event ids handed out
    faults,     \* number of faults that have happened
    journal,    \* journal[r]: the events in .creature/journal.jsonl
    applied,    \* applied[r]: the ids in .creature/journal.applied
    atlas,      \* atlas[r]: the versions in the stored snapshot
    idx,        \* idx[r]: the versions in the ATLAS.idx projection
    phase,      \* where the loop is
    cur,        \* the project it works on
    watched,    \* projects whose watcher is running
    queue,      \* queue[r]: the watcher's channel
    pending,    \* pending[r]: Coordinator.pending
    known,      \* known[r]: Coordinator.applied
    step,       \* the stage of a reconciliation
    scan,       \* the versions it has read
    unread,     \* the files it has still to read
    stop        \* the shutdown flag

disk == <<journal, applied, atlas, idx>>
memory == <<watched, queue, pending, known>>
reading == <<step, scan, unread>>
world == <<tree, unseen, missed, issued, faults>>
vars == <<world, disk, phase, cur, memory, reading, stop>>

Halted == {"down", "failed", "stopped"}
Phases == Halted \union {"open", "initial", "head", "drain", "reconcile", "mark"}

TypeOK ==
    /\ tree \in [Roots -> Version]
    /\ unseen \in [Roots -> SUBSET (Files \union Outputs)]
    /\ missed \in [Roots -> SUBSET Files]
    /\ issued \in Nat /\ faults \in Nat
    /\ journal \in [Roots -> SUBSET Event]
    /\ applied \in [Roots -> SUBSET Nat]
    /\ atlas \in [Roots -> Version] /\ idx \in [Roots -> Version]
    /\ phase \in Phases /\ cur \in Roots
    /\ watched \in SUBSET Roots
    /\ queue \in [Roots -> Seq(Event)]
    /\ pending \in [Roots -> SUBSET Event]
    /\ known \in [Roots -> SUBSET Nat]
    /\ step \in {"scan", "commit", "project"}
    /\ scan \in Version /\ unread \in SUBSET Files
    /\ stop \in BOOLEAN

\* The supervisor starts the service when the machine comes up.
Init ==
    /\ tree = [r \in Roots |-> Blank]
    /\ unseen = [r \in Roots |-> {}] /\ missed = [r \in Roots |-> {}]
    /\ issued = 0 /\ faults = 0
    /\ journal = [r \in Roots |-> {}]
    /\ applied = [r \in Roots |-> {}]
    /\ atlas = [r \in Roots |-> Blank] /\ idx = [r \in Roots |-> Blank]
    /\ phase = "down" /\ cur = 1
    /\ watched = {}
    /\ queue = [r \in Roots |-> <<>>]
    /\ pending = [r \in Roots |-> {}]
    /\ known = [r \in Roots |-> {}]
    /\ step = "scan" /\ scan = Blank /\ unread = Files
    /\ stop = FALSE

-----------------------------------------------------------------------------
(* The world around the loop.                                              *)

\* Somebody changes a file.  The system notifies a running watcher later.
Edit(r, f) ==
    /\ tree[r][f] < MaxVersion
    /\ tree' = [tree EXCEPT ![r][f] = @ + 1]
    /\ unseen' = IF r \in watched
                 THEN [unseen EXCEPT ![r] = @ \union {f}]
                 ELSE unseen
    /\ UNCHANGED <<missed, issued, faults, disk, phase, cur, memory, reading, stop>>

FileEvent(r) == [id |-> issued, kind |-> "file", seen |-> tree[r]]

\* What is swallowed is made good by whatever is notified next: a pass reads every file.
Send(r) ==
    /\ queue' = [queue EXCEPT ![r] = Append(@, FileEvent(r))]
    /\ issued' = issued + 1
    /\ missed' = [missed EXCEPT ![r] = {}]
    /\ UNCHANGED <<tree, faults, disk, phase, cur, watched, pending, known,
                   reading, stop>>

\* Ids are spent on the service's own output only below the bound.
Affordable(paths) == paths \intersect Files # {} \/ issued < MaxEvents

\* The watcher's callback for a change it was told of.
Notify(r, path) ==
    /\ path \in unseen[r]
    /\ Affordable({path})
    /\ unseen' = [unseen EXCEPT ![r] = @ \ {path}]
    /\ Send(r)

\* A mutant: the callback ignores an error instead of sending Overflow.
IgnoreNotifyError(r) ==
    /\ unseen[r] # {}
    /\ unseen' = [unseen EXCEPT ![r] = {}]
    /\ UNCHANGED <<tree, missed, issued, faults, disk, phase, cur, memory, reading, stop>>

\* The backend fails, to read its stream or to watch a new directory, and tells the
\* callback so: an Overflow event stands for what it fails to report.
NotifyError(r) ==
    /\ \E lost \in SUBSET unseen[r] :
          /\ lost # {} /\ Affordable(lost)
          /\ unseen' = [unseen EXCEPT ![r] = @ \ lost]
    /\ Send(r)

\* The system's queue of notifications overflows.  The backend reports that as an
\* event of kind Other with a request to rescan, which the callback returns from.
Swallow(r) ==
    /\ unseen[r] # {}
    /\ unseen' = [unseen EXCEPT ![r] = {}]
    /\ missed' = [missed EXCEPT ![r] = @ \union (unseen[r] \intersect Files)]
    /\ UNCHANGED <<tree, issued, faults, disk, phase, cur, memory, reading, stop>>

\* `creature-context ingest`, another process, appends to the same journal.
Ingest(r) ==
    /\ issued < MaxEvents
    /\ journal' = [journal EXCEPT ![r] = @ \union
                     {[id |-> issued, kind |-> "external", seen |-> Blank]}]
    /\ issued' = issued + 1
    /\ UNCHANGED <<tree, unseen, missed, faults, applied, atlas, idx, phase, cur,
                   memory, reading, stop>>

-----------------------------------------------------------------------------
(* The loop.                                                               *)

BeginScan == step' = "scan" /\ scan' = Blank /\ unread' = Files

\* A mutant: the loop runs one project too far.
AdvancePastLast(loop, after) ==
    /\ IF cur <= N THEN cur' = cur + 1 /\ phase' = loop
                   ELSE cur' = 1 /\ phase' = after
    /\ BeginScan

\* Go on with the next project of this loop, or leave the loop after the last.
Advance(loop, after) ==
    /\ IF cur < N THEN cur' = cur + 1 /\ phase' = loop
                  ELSE cur' = 1 /\ phase' = after
    /\ BeginScan

\* Everything held in memory is gone, the watchers and what they were to be
\* told included.
Exit(how) ==
    /\ phase' = how /\ cur' = 1 /\ stop' = FALSE
    /\ watched' = {}
    /\ unseen' = [r \in Roots |-> {}] /\ missed' = [r \in Roots |-> {}]
    /\ queue' = [r \in Roots |-> <<>>]
    /\ pending' = [r \in Roots |-> {}]
    /\ known' = [r \in Roots |-> {}]
    /\ BeginScan
    /\ UNCHANGED <<tree, issued, atlas, idx>>

Fault == faults < MaxFaults /\ faults' = faults + 1

\* A fallible call fails and `?` carries the error out of run_service_multi.
Abort(site) ==
    /\ phase \notin Halted
    /\ site \in Fallible
    /\ Fault
    /\ Exit("failed")

Launch ==
    /\ phase' = "open"
    /\ UNCHANGED <<world, disk, cur, memory, reading, stop>>

\* launchd's KeepAlive, systemd's Restart=always: the supervisor relaunches.
Restart == phase \in {"down", "failed"} /\ Launch

\* After a clean stop it is for the user to start the service again.
Start == phase = "stopped" /\ Launch

\* WatchedRoot::open: the applied ids are read back, the watcher starts.
Open ==
    /\ phase = "open"
    /\ known' = [known EXCEPT ![cur] = applied[cur]]
    /\ watched' = watched \union {cur}
    /\ Advance("open", "initial")
    /\ UNCHANGED <<world, disk, queue, pending, stop>>

OpenFails == phase = "open" /\ Abort("open") /\ UNCHANGED <<journal, applied>>

\* The head of the loop is the only place that looks at the shutdown flag.
LoopHead ==
    /\ phase = "head"
    /\ \/ /\ stop
          /\ Exit("stopped")
          /\ UNCHANGED <<faults, journal, applied>>
       \/ /\ ~stop
          /\ phase' = "drain"
          /\ UNCHANGED <<world, disk, cur, memory, reading, stop>>

\* One event leaves the channel, is journalled, and joins the batch.
Drain ==
    /\ phase = "drain" /\ queue[cur] # <<>>
    /\ LET e == Head(queue[cur]) IN
          /\ journal' = [journal EXCEPT ![cur] = @ \union {e}]
          /\ pending' = [pending EXCEPT ![cur] = @ \union {e}]
    /\ queue' = [queue EXCEPT ![cur] = Tail(@)]
    /\ UNCHANGED <<world, applied, atlas, idx, phase, cur, watched, known,
                   reading, stop>>

\* The event is lost with the channel, unless only the sync failed.
AppendFails ==
    /\ phase = "drain" /\ queue[cur] # <<>>
    /\ \/ UNCHANGED journal
       \/ journal' = [journal EXCEPT ![cur] = @ \union {Head(queue[cur])}]
    /\ Abort("append")
    /\ UNCHANGED applied

\* Coordinator::settle drops what is already applied; anything left is work.
Fresh(r) == {e \in pending[r] : e.id \notin known[r]}

\* A mutant: a batch is marked applied as soon as it has settled.
SettleByMarking ==
    /\ phase = "drain" /\ queue[cur] = <<>>
    /\ pending' = [pending EXCEPT ![cur] = Fresh(cur)]
    /\ IF Fresh(cur) = {}
       THEN Advance("drain", "head")
       ELSE phase' = "mark" /\ cur' = cur /\ BeginScan
    /\ UNCHANGED <<world, disk, watched, queue, known, stop>>

Settle ==
    /\ phase = "drain" /\ queue[cur] = <<>>
    /\ pending' = [pending EXCEPT ![cur] = Fresh(cur)]
    /\ IF Fresh(cur) = {}
       THEN Advance("drain", "head")
       ELSE phase' = "reconcile" /\ cur' = cur /\ BeginScan
    /\ UNCHANGED <<world, disk, watched, queue, known, stop>>

Reconciling == phase \in {"initial", "reconcile"}

\* A mutant: the result of the reconciliation is not looked at.
AfterAnyReconcile(done) ==
    IF phase = "initial" THEN Advance("initial", "head")
    ELSE phase' = "mark" /\ cur' = cur /\ BeginScan

\* A mutant: a debounced pass never marks its batch.
AfterReconcileUnmarked(done) ==
    IF phase = "initial" THEN Advance("initial", "head")
    ELSE Advance("drain", "head")

\* The initial pass goes on to serve; a debounced pass marks its batch.
AfterReconcile(done) ==
    IF phase = "initial" THEN Advance("initial", "head")
    ELSE IF done THEN phase' = "mark" /\ cur' = cur /\ BeginScan
    ELSE Advance("drain", "head")

\* A mutant: the first file read ends the scan.
ReadOnlyFile(f) ==
    /\ Reconciling /\ step = "scan" /\ f \in unread
    /\ scan' = [scan EXCEPT ![f] = tree[cur][f]]
    /\ unread' = unread \ {f}
    /\ step' = "commit"
    /\ UNCHANGED <<world, disk, phase, cur, memory, stop>>

\* The scan reads one file at its current version.
ReadFile(f) ==
    /\ Reconciling /\ step = "scan" /\ f \in unread
    /\ scan' = [scan EXCEPT ![f] = tree[cur][f]]
    /\ unread' = unread \ {f}
    /\ step' = IF unread' = {} THEN "commit" ELSE step
    /\ UNCHANGED <<world, disk, phase, cur, memory, stop>>

\* replace_snapshot: one transaction.
Commit ==
    /\ Reconciling /\ step = "commit"
    /\ atlas' = [atlas EXCEPT ![cur] = scan]
    /\ step' = "project"
    /\ UNCHANGED <<world, journal, applied, idx, phase, cur, memory, scan,
                   unread, stop>>

\* write_projections, then ATLAS.png: what the watcher does not exclude of it
\* comes back as a notification.
Project ==
    /\ Reconciling /\ step = "project"
    /\ idx' = [idx EXCEPT ![cur] = scan]
    /\ unseen' = [unseen EXCEPT ![cur] = @ \union Echoes]
    /\ AfterReconcile(TRUE)
    /\ UNCHANGED <<tree, missed, issued, faults, journal, applied, atlas, memory, stop>>

\* A mutant: the batch is dropped with the reconciliation that failed.
ReconcileFailsForgetting ==
    /\ Reconciling /\ phase \in Fallible
    /\ Fault
    /\ AfterReconcile(FALSE)
    /\ pending' = [pending EXCEPT ![cur] = {}]
    /\ UNCHANGED <<tree, unseen, missed, issued, disk, watched, queue, known, stop>>

\* Any stage may fail.  The error is logged, and a debounced batch stays
\* pending.  A projection may fail before or after ATLAS.idx is replaced.
ReconcileFails ==
    /\ Reconciling /\ phase \in Fallible
    /\ Fault
    /\ \/ UNCHANGED idx
       \/ step = "project" /\ idx' = [idx EXCEPT ![cur] = scan]
    /\ AfterReconcile(FALSE)
    /\ UNCHANGED <<tree, unseen, missed, issued, journal, applied, atlas, memory, stop>>

\* One event of the batch is marked applied, on disk and then in memory.
Mark ==
    /\ phase = "mark"
    /\ \E e \in Fresh(cur) :
          /\ applied' = [applied EXCEPT ![cur] = @ \union {e.id}]
          /\ known' = [known EXCEPT ![cur] = @ \union {e.id}]
    /\ UNCHANGED <<world, journal, atlas, idx, phase, cur, watched, queue,
                   pending, reading, stop>>

MarkFails ==
    /\ phase = "mark"
    /\ \E e \in Fresh(cur) :
          \/ UNCHANGED applied
          \/ applied' = [applied EXCEPT ![cur] = @ \union {e.id}]
    /\ Abort("mark")
    /\ UNCHANGED journal

\* A mutant: the batch is cleared before all of it is marked.
ClearUnmarked ==
    /\ phase = "mark"
    /\ pending' = [pending EXCEPT ![cur] = {}]
    /\ Advance("drain", "head")
    /\ UNCHANGED <<world, disk, watched, queue, known, stop>>

ClearPending ==
    /\ phase = "mark" /\ Fresh(cur) = {}
    /\ pending' = [pending EXCEPT ![cur] = {}]
    /\ Advance("drain", "head")
    /\ UNCHANGED <<world, disk, watched, queue, known, stop>>

\* SIGTERM or SIGINT: the handler only sets the flag.
Signal ==
    /\ phase \notin Halted /\ ~stop /\ Fault
    /\ stop' = TRUE
    /\ UNCHANGED <<tree, unseen, missed, issued, disk, phase, cur, memory, reading>>

\* The process is killed; what it has written stays written.
Crash ==
    /\ phase \notin Halted /\ Fault
    /\ Exit("down")
    /\ UNCHANGED <<journal, applied>>

-----------------------------------------------------------------------------

Notification ==
    \E r \in Roots : \/ NotifyError(r) \/ Swallow(r)
                     \/ \E path \in unseen[r] : Notify(r, path)

Loop ==
    \/ Open \/ LoopHead \/ Drain \/ Settle
    \/ \E f \in Files : ReadFile(f)
    \/ Commit \/ Project \/ Mark \/ ClearPending

Failure == OpenFails \/ AppendFails \/ ReconcileFails \/ MarkFails

Next ==
    \/ \E r \in Roots, f \in Files : Edit(r, f)
    \/ \E r \in Roots : Ingest(r)
    \/ Notification \/ Loop \/ Failure
    \/ Restart \/ Start \/ Signal \/ Crash

\* The loop keeps running, the system delivers what it owes a running watcher,
\* and the supervisor brings a service that died back.
Fairness ==
    /\ WF_vars(Loop)
    /\ \A r \in Roots : \A f \in Files : WF_vars(Notify(r, f))
    /\ WF_vars(Restart)

Spec == Init /\ [][Next]_vars
FairSpec == Spec /\ Fairness

-----------------------------------------------------------------------------
(* What must hold.                                                         *)

\* An event marked applied is one whose change the stored snapshot and the
\* ATLAS.idx projection both show, whatever crashed in between: the marker is
\* written after the commit and after the projections.
MarkedWorkIsVisible ==
    \A r \in Roots : \A e \in journal[r] :
        e.id \in applied[r] => Covers(atlas[r], e) /\ Covers(idx[r], e)

\* A failed reconciliation drops no observed change: while the process lives, an
\* event leaves the batch only after its marker is on disk.
BatchKeptUntilApplied ==
    [][\A r \in Roots : \A e \in pending[r] \ pending'[r] :
          e.id \in applied[r] \/ phase' \in Halted]_vars

\* The service keeps the promises of EventLedger: the journal and the markers
\* only grow, no reconciliation takes the Atlas back, and every marker follows
\* an Atlas that shows the event.  Needs the ids to be unique.
Ledger == INSTANCE EventLedger WITH
    Root <- Roots,
    File <- Files,
    observed <- journal,
    settled <- [r \in Roots |-> {e \in journal[r] : e.id \in applied[r]}],
    indexed <- atlas
KeepsLedger == Ledger!Spec

\* Every edit reaches the Atlas, through watcher errors, failing reconciliations, and
\* exits that the supervisor repairs, unless the service is told to stop: of what an
\* overflow swallowed, with the next change that is notified or the next start.
EditIndexed ==
    \A r \in Roots, f \in Files, v \in 1..MaxVersion :
        tree[r][f] = v /\ f \notin missed[r]
            ~> (atlas[r][f] >= v \/ f \in missed[r] \/ phase = "stopped")

Ids == 0..(MaxEvents + N * Cardinality(Files) * MaxVersion)

Holds(events, id) == \E e \in events : e.id = id

\* A batch is marked in the end, however often its reconciliation fails first.
BatchApplied ==
    \A r \in Roots, id \in Ids :
        Holds(pending[r], id) ~> (id \in applied[r] \/ phase \in Halted)

-----------------------------------------------------------------------------
(* What the comments of the code promise and the code does not keep.        *)

\* "a crash mid-handling loses nothing that was observed", and "a transient
\* failure must not silently drop observed changes": a journalled change
\* reaches the Atlas even when the pass after the restart fails once.
ObservedSurvives ==
    \A r \in Roots, f \in Files, v \in 1..MaxVersion :
        (\E e \in journal[r] : e.seen[f] = v)
            ~> (atlas[r][f] >= v \/ phase = "stopped")

\* "A watcher error becomes an Overflow event rather than being swallowed: the stream may
\* have dropped notifications, so truth must be re-established by a rescan".
OverflowIsRescanned ==
    \A r \in Roots, f \in Files, v \in 1..MaxVersion :
        tree[r][f] = v ~> (atlas[r][f] >= v \/ phase = "stopped")
=============================================================================
