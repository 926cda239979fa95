---------------------------- MODULE AtlasWriters ----------------------------
(***************************************************************************)
(* The programs that read and write one project's Atlas at once: passes of *)
(* the resident service and `scan`, which do the same, the semantic lane,  *)
(* `evidence`, `compile` and `rebuild`.  Each is a process that walks a    *)
(* script of calls.  A commit is one transaction, but nothing holds from   *)
(* the load to the commit, load_snapshot takes three statements, and       *)
(* atomic_write has one temporary name for each file.                      *)
(* Files of the project change, a load fails, a process is killed between  *)
(* any two calls.                                                          *)
(*                                                                         *)
(* The project has one file with one declaration.  A tree stands for the   *)
(* hash of its contents, which names a snapshot.                           *)
(***************************************************************************)
EXTENDS Naturals, Sequences, FiniteSets

CONSTANTS
    Procs,          \* processes
    Trees,          \* bound: what the project may look like
    Says,           \* bound: outcomes of evidence
    Judged,         \* bound: sets of entities that evidence is given of
    Usable,         \* bound: the commands that are run
    MaxCommands,    \* bound: commands begun
    MaxEdits,       \* bound: changes of the project
    MaxFaults       \* bound: kills and failing loads

ASSUME ProcsAssumption == IsFiniteSet(Procs)
ASSUME JudgedAssumption == Judged \subseteq SUBSET {"file", "symbol"}
ASSUME BoundsAssumption == MaxCommands \in Nat /\ MaxEdits \in Nat /\ MaxFaults \in Nat

-----------------------------------------------------------------------------
(* What they write.                                                        *)

Entity == {"file", "symbol"}
Target == {"idx", "log"}        \* ATLAS.idx and evidence.json

\* RecordedEvidence: two records of one key do not stay together in the log.
Record == [at : Entity, by : {"person", "compiler"}, says : Says, id : Trees]
SameKey(r, s) == r.at = s.at /\ r.by = s.by /\ r.id = s.id

\* AtlasSnapshot: its id, the tree that its entities and its edges describe, the
\* evidence on entities, and whether the declaration has a summary.
Snapshot == [id : Trees, ents : Trees, edges : Trees, notes : SUBSET Record, told : BOOLEAN]

\* None has an id, so that it is comparable with a snapshot.
None == [id |-> "none"]
Blank == [id |-> "blank"]       \* a file cut short: a prefix of what was to be written
Garbled == [id |-> "garbled"]   \* a file of two writers
Log(records) == [id |-> "log", records |-> records]
Unreadable == {Blank, Garbled}

Content == Snapshot \union {None, Blank, Garbled} \union {Log(r) : r \in SUBSET Record}

VARIABLES
    tree,       \* the project's files
    store,      \* the SQLite store: a snapshot or None
    file,       \* for each target, its content and that of its temporary name
    todo,       \* for each process, the calls that it has yet to make
    work,       \* for each process, its command and what it has in memory
    grip,       \* for each process, what names the file that it has open
    spent,      \* commands, edits and faults so far
    \* history
    alone,      \* processes that nobody has disturbed since they began
    mark,       \* for each process that runs, what has happened around it
    suspect,    \* whether the store comes from a load that was straddled
    bad         \* targets whose content comes from a write that was overlapped

disk == <<tree, store, file>>
procs == <<todo, work, grip>>
history == <<alone, mark, suspect, bad>>
vars == <<disk, procs, spent, history>>

\* A commit has come into its load; it has read the entities of the store, and no commit
\* has come since; it has read the log, and no write of it has come since; its write of a
\* file has overlapped another's.  A rebuild reads no entities of the store, and a pass
\* whose load has failed has read none.
Mark == {"straddled", "fresh", "logFresh", "clashed"}
Marked(ps, m) == [q \in Procs |-> IF q \in ps THEN mark[q] \union {m} ELSE mark[q]]
Unmarked(ps, m) == [q \in Procs |-> IF q \in ps THEN mark[q] \ {m} ELSE mark[q]]

-----------------------------------------------------------------------------
(* The scripts.                                                            *)

\* A call, and what it is on.
On(what, calls) == [i \in DOMAIN calls |-> <<calls[i], what>>]

Load == On("store", <<"loadId", "loadEntities", "loadEdges">>)
Save(t) == On(t, <<"create", "fill", "rename">>)

Script == [
    scan     |-> Load \o <<<<"index", "tree">>, <<"replace", "store">>>> \o Save("idx"),
    lane     |-> Load \o <<<<"ask", "store">>>> \o Save("idx"),
    evidence |-> Load \o <<<<"readLog", "log">>>> \o Save("log")
                      \o <<<<"replace", "store">>>> \o Save("idx"),
    compile  |-> Load \o <<<<"build", "store">>>> \o Save("idx")
                      \o <<<<"readLog", "log">>>> \o Save("log"),
    rebuild  |-> <<<<"readIdx", "idx">>, <<"replace", "store">>>>]

Cmd == DOMAIN Script

ASSUME UsableAssumption == Usable \subseteq Cmd

Calls == UNION {{Script[c][i] : i \in DOMAIN Script[c]} : c \in Cmd}

Running(p) == todo[p] # <<>>
At(p, call) == Running(p) /\ Head(todo[p])[1] = call
AtFile(p, call, t) == Running(p) /\ Head(todo[p]) = <<call, t>>
Writing(p, t) == AtFile(p, "fill", t) \/ AtFile(p, "rename", t)
Loading(p) == At(p, "loadId") \/ At(p, "loadEntities") \/ At(p, "loadEdges")

\* Work in memory: the snapshot loaded or made, the records of this command, the log
\* to be written; ok until a call fails.
Idle == [cmd |-> "none", got |-> None, mine |-> {}, log |-> {}, ok |-> FALSE]
Passed == [Idle EXCEPT !.cmd = "scan", !.ok = TRUE]

TypeOK ==
    /\ tree \in Trees
    /\ store \in Snapshot \union {None}
    /\ file \in [Target -> [final : Content, temp : Content]]
    /\ \A p \in Procs : todo[p] \in Seq(Calls)
    /\ \A p \in Procs : work[p] = Idle \/ work[p].cmd \in Cmd
    /\ grip \in [Procs -> {"closed", "temp", "final", "gone"}]
    /\ \A p \in Procs : grip[p] # "closed" <=> At(p, "fill")
    /\ spent \in [commands : 0..MaxCommands, edits : 0..MaxEdits, faults : 0..MaxFaults]
    /\ alone \subseteq Procs /\ mark \in [Procs -> SUBSET Mark]
    /\ suspect \in BOOLEAN /\ bad \subseteq Target

\* A project that nobody has scanned, or one whose Atlas is up to date.
Init ==
    /\ tree \in Trees
    /\ store \in {None} \union
        {[id |-> tree, ents |-> tree, edges |-> tree, notes |-> {}, told |-> FALSE]}
    /\ file = [t \in Target |-> [final |-> IF t = "idx" THEN store ELSE None, temp |-> None]]
    /\ todo = [p \in Procs |-> <<>>]
    /\ work = [p \in Procs |-> Idle]
    /\ grip = [p \in Procs |-> "closed"]
    /\ spent = [commands |-> 0, edits |-> 0, faults |-> 0]
    /\ alone = {} /\ mark = [p \in Procs |-> {}]
    /\ suspect = FALSE /\ bad = {}

-----------------------------------------------------------------------------
(* How a process goes on.                                                  *)

\* Memory goes with the process; that a pass has ended well is kept.
Goto(p, calls, w, marks) ==
    LET ended == IF w.cmd = "scan" /\ w.ok THEN Passed ELSE Idle
    IN  /\ todo' = [todo EXCEPT ![p] = calls]
        /\ work' = [work EXCEPT ![p] = IF calls = <<>> THEN ended ELSE w]
        /\ mark' = [marks EXCEPT ![p] = IF calls = <<>> THEN {} ELSE @]

Go(p, w, marks) == Goto(p, Tail(todo[p]), w, marks)

\* An error leaves the command through `?`.
Fail(p) == Goto(p, <<>>, Idle, mark)

\* Every step of p disturbs the others.
Disturb(p) == alone' = alone \intersect {p}

Begin(p) ==
    /\ ~Running(p) /\ spent.commands < MaxCommands
    /\ \E c \in Usable : Goto(p, Script[c], [Idle EXCEPT !.cmd = c, !.ok = TRUE], mark)
    /\ spent' = [spent EXCEPT !.commands = @ + 1]
    /\ alone' = IF \E q \in Procs : Running(q) THEN {} ELSE {p}
    /\ UNCHANGED <<disk, grip, suspect, bad>>

\* A load that fails, or finds an empty store, is `.ok()` for a pass and an error for
\* any other command.
Unloaded(p) ==
    IF work[p].cmd = "scan"
    THEN Goto(p, SubSeq(Script["scan"], 4, Len(Script["scan"])),
              [work[p] EXCEPT !.got = None], [mark EXCEPT ![p] = {}])
    ELSE Fail(p)

LoadId(p) ==
    /\ At(p, "loadId") /\ Disturb(p)
    /\ IF store = None
       THEN Unloaded(p)
       ELSE Go(p, [work[p] EXCEPT !.got = store], mark)
    /\ UNCHANGED <<disk, grip, spent, suspect, bad>>

LoadEntities(p) ==
    /\ At(p, "loadEntities") /\ Disturb(p)
    /\ Go(p, [work[p] EXCEPT !.got.ents = store.ents, !.got.notes = store.notes,
                             !.got.told = store.told],
          Marked({p}, "fresh"))
    /\ UNCHANGED <<disk, grip, spent, suspect, bad>>

LoadEdges(p) ==
    /\ At(p, "loadEdges") /\ Disturb(p)
    /\ Go(p, [work[p] EXCEPT !.got.edges = store.edges], mark)
    /\ UNCHANGED <<disk, grip, spent, suspect, bad>>

LoadFails(p) ==
    /\ Loading(p)
    /\ spent.faults < MaxFaults /\ spent' = [spent EXCEPT !.faults = @ + 1]
    /\ Unloaded(p) /\ Disturb(p)
    /\ UNCHANGED <<disk, grip, suspect, bad>>

-----------------------------------------------------------------------------
(* What the commands make of what they loaded.                             *)

\* A mutant: evidence of any snapshot.
MergedOfAny(records, t) == {r \in records : r.at = "file"}

\* merge_recorded_evidence, before any declaration is parsed.
Merged(records, t) == {r \in records : r.id = t /\ r.at = "file"}

\* A mutant: they are not.
CarriedNever(before) == FALSE

\* Summaries are carried over from the snapshot before.
Carried(before) == before # None /\ before.told

Records == IF file["log"].final = None THEN {} ELSE file["log"].final.records

\* index_project: nothing that is read after the files depends on later changes of them.
Index(p) ==
    /\ At(p, "index") /\ Disturb(p)
    /\ IF file["log"].final \in Unreadable
       THEN Fail(p)
       ELSE Go(p, [work[p] EXCEPT !.got = [id |-> tree, ents |-> tree, edges |-> tree,
                                           notes |-> Merged(Records, tree),
                                           told |-> Carried(work[p].got)]],
               mark)
    /\ UNCHANGED <<disk, grip, spent, suspect, bad>>

\* A mutant: the edges of the snapshot before are not deleted.
ReplacedKeepingEdges(snapshot) ==
    IF store = None THEN snapshot ELSE [snapshot EXCEPT !.edges = store.edges]

\* replace_snapshot: one transaction, the whole store, every row under one id.
Replaced(snapshot) == snapshot

Commit(p, w) ==
    /\ store' = Replaced(w.got)
    /\ Go(p, w, [q \in Procs |->
            (mark[q] \ {"fresh"}) \union
            (IF At(q, "loadEntities") \/ At(q, "loadEdges") THEN {"straddled"} ELSE {})])
    /\ suspect' = (suspect \/ ("straddled" \in mark[p] /\ w.cmd # "scan"))
    /\ UNCHANGED <<tree, file, grip, spent, bad>>

Replace(p) == At(p, "replace") /\ Disturb(p) /\ Commit(p, work[p])

\* The lane has no work, or nothing is admitted, or the summary is.  Making a snapshot from
\* what is in memory is one step with its commit.
Ask(p) ==
    /\ At(p, "ask") /\ Disturb(p)
    /\ \/ Goto(p, <<>>, work[p], mark) /\ UNCHANGED <<disk, grip, spent, suspect, bad>>
       \/ ~work[p].got.told /\ Commit(p, [work[p] EXCEPT !.got.told = TRUE])

\* compile's record takes the place of what the compiler said of the file before; a
\* failed build says nothing of a file without errors.
Build(p) ==
    /\ At(p, "build") /\ Disturb(p)
    /\ \/ Commit(p, work[p])
       \/ \E s \in Says : LET r == [at |-> "file", by |-> "compiler", says |-> s, id |-> work[p].got.id]
          IN  Commit(p, [work[p] EXCEPT !.mine = {r},
                            !.got.notes = {n \in @ : n.by # "compiler"} \union {r}])

\* `evidence` names an entity, or with --recursive the file and what it contains.
Judge(p) ==
    {{[at |-> e, by |-> "person", says |-> s, id |-> work[p].got.id] : e \in es} :
        es \in Judged, s \in Says}

Logged(old, new) == {r \in old : \A n \in new : ~SameKey(r, n)} \union new

ReadLog(p) ==
    /\ At(p, "readLog") /\ Disturb(p)
    /\ \/ file["log"].final \in Unreadable /\ Fail(p)
       \/ /\ file["log"].final \notin Unreadable
          /\ \E mine \in IF work[p].cmd = "evidence" THEN Judge(p) ELSE {work[p].mine} :
                Go(p, [work[p] EXCEPT !.log = Logged(Records, mine),
                    !.got.notes = IF work[p].cmd = "evidence" THEN @ \union mine ELSE @],
                    Marked({p}, "logFresh"))
    /\ UNCHANGED <<disk, grip, spent, suspect, bad>>

\* rebuild_repository_from_portable, which refuses what it cannot decode.  The entities
\* that decode_atlas_idx makes have no summaries, whatever @summary lines there are.
ReadIdx(p) ==
    /\ At(p, "readIdx") /\ Disturb(p)
    /\ IF file["idx"].final = None \/ file["idx"].final \in Unreadable
       THEN Fail(p)
       ELSE Go(p, [work[p] EXCEPT !.got = [file["idx"].final EXCEPT !.told = FALSE]], mark)
    /\ UNCHANGED <<disk, grip, spent, suspect, bad>>

-----------------------------------------------------------------------------
(* atomic_write: create the temporary name, write and sync, rename.        *)

Output(p, t) == IF t = "idx" THEN work[p].got ELSE Log(work[p].log)

\* A mutant: the file is written in place.
CreateInPlace(p, t) ==
    LET others == {q \in Procs \ {p} : Writing(q, t)}
    IN  /\ AtFile(p, "create", t) /\ Disturb(p)
        /\ file' = [file EXCEPT ![t] = [final |-> Blank, temp |-> Blank]]
        /\ grip' = [grip EXCEPT ![p] = "temp"]
        /\ Go(p, work[p], IF others = {} THEN Unmarked({p}, "clashed")
                          ELSE Marked(others \union {p}, "clashed"))
        /\ UNCHANGED <<tree, store, spent, suspect, bad>>

\* File::create truncates a temporary that is there, under whoever has it open.
Create(p, t) ==
    LET others == {q \in Procs \ {p} : Writing(q, t)}
    IN  /\ AtFile(p, "create", t) /\ Disturb(p)
        /\ file' = [file EXCEPT ![t].temp = Blank]
        /\ grip' = [grip EXCEPT ![p] = "temp"]
        /\ Go(p, work[p], IF others = {} THEN Unmarked({p}, "clashed")
                          ELSE Marked(others \union {p}, "clashed"))
        /\ UNCHANGED <<tree, store, spent, suspect, bad>>

\* What is in a file after a write from its start: of two that differ, the shorter leaves
\* the end of the longer.
Over(old, new) == IF old \in {Blank, new} THEN {new} ELSE {new, Garbled}

LogMoved(t) == IF t = "log" THEN Unmarked(Procs, "logFresh") ELSE mark

Fill(p, t) ==
    /\ AtFile(p, "fill", t) /\ Disturb(p)
    /\ \/ /\ grip[p] = "temp"
          /\ \E c \in Over(file[t].temp, Output(p, t)) : file' = [file EXCEPT ![t].temp = c]
          /\ Go(p, work[p], mark)
       \/ /\ grip[p] = "final"
          /\ \E c \in Over(file[t].final, Output(p, t)) : file' = [file EXCEPT ![t].final = c]
          /\ Go(p, work[p], LogMoved(t))
       \/ grip[p] = "gone" /\ UNCHANGED file /\ Go(p, work[p], mark)
    /\ grip' = [grip EXCEPT ![p] = "closed"]
    /\ UNCHANGED <<tree, store, spent, suspect, bad>>

\* Whoever has the temporary open now has the file open, and the file before is gone.
Rename(p, t) ==
    /\ AtFile(p, "rename", t) /\ Disturb(p)
    /\ file[t].temp # None
    /\ file' = [file EXCEPT ![t] = [final |-> file[t].temp, temp |-> None]]
    /\ grip' = [q \in Procs |->
                    IF ~AtFile(q, "fill", t) THEN grip[q]
                    ELSE IF grip[q] = "temp" THEN "final" ELSE "gone"]
    /\ bad' = IF "clashed" \in mark[p] THEN bad \union {t} ELSE bad \ {t}
    /\ Go(p, work[p], LogMoved(t))
    /\ UNCHANGED <<tree, store, spent, suspect>>

\* Another process has renamed it already.
RenameFails(p, t) ==
    /\ AtFile(p, "rename", t) /\ Disturb(p)
    /\ file[t].temp = None
    /\ Fail(p)
    /\ UNCHANGED <<disk, grip, spent, suspect, bad>>

-----------------------------------------------------------------------------
(* The rest of the world.                                                  *)

Edit ==
    /\ spent.edits < MaxEdits /\ spent' = [spent EXCEPT !.edits = @ + 1]
    /\ tree' \in Trees \ {tree}
    /\ alone' = {}
    /\ UNCHANGED <<store, file, procs, mark, suspect, bad>>

Kill(p) ==
    /\ Running(p)
    /\ spent.faults < MaxFaults /\ spent' = [spent EXCEPT !.faults = @ + 1]
    /\ Fail(p)
    /\ grip' = [grip EXCEPT ![p] = "closed"]
    /\ Disturb(p)
    /\ UNCHANGED <<disk, suspect, bad>>

Next ==
    \/ Edit
    \/ \E p \in Procs :
        \/ Begin(p) \/ Kill(p)
        \/ LoadId(p) \/ LoadEntities(p) \/ LoadEdges(p) \/ LoadFails(p)
        \/ Index(p) \/ Ask(p) \/ Build(p) \/ ReadLog(p) \/ ReadIdx(p) \/ Replace(p)
        \/ \E t \in Target : Create(p, t) \/ Fill(p, t) \/ Rename(p, t) \/ RenameFails(p, t)

Spec == Init /\ [][Next]_vars

-----------------------------------------------------------------------------
(* What holds.                                                             *)

\* A pass of the service, or a scan, that nobody disturbs repairs whatever the others have
\* done before: the store is one snapshot of the files as they are, with the evidence on
\* record, and ATLAS.idx is the store, whatever temporaries were left behind.
UndisturbedPassRepairs ==
    \A p \in alone : ~Running(p) /\ work[p] = Passed =>
        /\ store = [id |-> tree, ents |-> tree, edges |-> tree,
                    notes |-> {r \in Records : r.at = "file" /\ r.id = tree},
                    told |-> store.told]
        /\ file["idx"] = [final |-> store, temp |-> None]

\* A file that atomic_write keeps is whole whenever a process is killed, and is other than
\* whole only after two processes wrote it at once.
FilesAreWhole == \A t \in Target : file[t].final \in Unreadable => t \in bad

\* The store mixes two snapshots only after a command stored what it had loaded while
\* another committed.
StoreIsOneSnapshot ==
    store # None /\ ~suspect => store.ents = store.id /\ store.edges = store.id

Commits(p) == Replace(p) \/ Ask(p) \/ Build(p)

\* Of what a command has read of the store or the log, it loses nothing unless another
\* process came in between: neither the summaries, when it commits, nor the records of other
\* keys, when it writes evidence.json.  It says nothing of a command that has read neither:
\* a rebuild, and a pass whose load has failed, lose all the summaries by themselves.
ReadersLoseNothing ==
    [][\A p \in Procs :
        /\ Commits(p) /\ "fresh" \in mark[p] /\ store.told => store'.told
        /\ Rename(p, "log") /\ "logFresh" \in mark[p] /\ "clashed" \notin mark[p] =>
            \A r \in Records : \E n \in file'["log"].final.records : SameKey(r, n)]_vars

\* rebuild.rs:4-5: the root ATLAS.idx is complete, so that a rebuild from the file of the
\* store's own snapshot gives the summaries back.  No run checks it, TLC shows it violated.
RebuildKeepsSummaries ==
    [][\A p \in Procs :
        Replace(p) /\ work[p].cmd = "rebuild" /\ store # None /\ store = file["idx"].final =>
            store'.told = store.told]_vars
=============================================================================
