# creature-context: models and proofs

creature-context keeps an *Atlas* of a project (its folders, files and
declarations, with stable identities, summaries and Green assessments) in a
SQLite store under `.creature/`, beside projections (`ATLAS.idx`, `ATLAS.png`)
and an event journal. A resident service keeps the Atlas current while people
edit; command-line runs read it, rebuild it, add evidence to it and append events.

This directory holds TLA+ modules of that system, TLC configurations that check
them on small instances, and TLAPS proofs of the properties for every instance.
Paths in this file are below `src/crates/` unless they say otherwise.

    tlc -workers 2 -config OneProject.cfg MCResidentService.tla   # a run
    tlapm ResidentServiceProofs.tla                               # proofs

`PROJECT.json` lists components, runs, the source lines behind each definition,
the hazards and what covers them, the findings and the theorems. For every
checked property it names a *mutant*, a definition of the module (marked
"A mutant" there) with a plausible bug, under which the property fails.

## 1. The system

| Component | State it keeps | Operations | Talks to |
|---|---|---|---|
| Resident service `context-runtime/src/service.rs`, `coordinator.rs`, `watcher.rs`, `events.rs` | per project: watcher, channel, pending batch, ids applied, parse cache | open, drain, settle, reconcile, mark applied, idle lane, shut down | files, store, journal, projections, supervisor, signals |
| Event journal `context-store/src/jsonl.rs` | `journal.jsonl`, `journal.applied` | open, append, mark_applied, read_all, applied_ids, pending | service, `ingest`, `scan`, `init` |
| Symbol identity `context-core/src/identity.rs` | none; old and new snapshot | match by name, match by shape, remap, carry summaries | enrichment, evaluation, semantic lane |
| Parsing and enrichment `context-parsers/src/*.rs` | ParseCache (service only) | hash lookup, parse, evict, mint ids, sockets | scan, identity |
| Tree scan and file identity `context-core/src/scan.rs` | `identity/registry`, recorded evidence | collect files, hash, limits, reconcile ids | file system, store |
| Atlas store `context-store/src/repository.rs` | SQLite: snapshot, entities, edges | load, replace, upsert subtree, finalize | all |
| Layered scan `context-cli/src/commands/scan_layered.rs` | rows of two snapshots while it runs | a directory at a time, stitch, roll up, finalize | store, service meanwhile |
| Semantic lane `context-runtime/src/semantic.rs`, `context-model/src/*.rs`, `context-core/src/context/admission.rs` | none | load, propose, admit, replace | store, a model |
| Green evaluation `context-core/src/green/*.rs`, `sockets.rs` | none | roll-up, incremental, coherence | enrichment |
| Permissions `context-store/src/permissions.rs`, `context-core/src/authority/*.rs` | ledger of rules | add, supersede, evaluate | command line |
| Projections and rebuild `context-store/src/projections.rs`, `rebuild.rs`, `idx/*.rs` | `ATLAS.idx` files | write, prune, rebuild the store | store |
| Project files `context-core/src/project.rs` | the `.creature/` tree | init, atomic_write | all writers |
| Supervision `context-runtime/src/daemon/*.rs` | unit files | install, restart | service |
| Orbit compiler `context-core/src/orbit/*.rs` | none | start, expand, select, trim to a budget | `context` command |
| Others: router, calibration, universe registry, texture, activity journal, bindings | see `PROJECT.json` | pure functions or rendering | |

What is hard here, and what makes each part correct:

* **Service.** Three parties act at once: editors, watcher threads and the loop;
  any call may fail, and the process may die between any two of its writes.
  Correct: a marker never runs ahead of the Atlas, a batch is not dropped when a
  reconciliation fails, every edit is indexed in the end, one project's failure
  does not hurt another.
* **Journal.** Three programs append to one file, one of them in pieces; writes
  are cut short. Correct: a restart misses and repeats nothing, and damage is
  reported and not skipped.
* **Identity.** Sequences of scans over edits. Correct: identities are neither
  merged, lost nor swapped, and no text makes scans fail.
* **Parse cache.** A file is read twice, for its hash and for its parse, and may
  change in between. Correct: the same result as without the cache.
* **Store and its writers.** The daemon, its semantic lane, `scan`,
  `scan-layered` and `evidence` each load, work and write back, in transactions
  that cover the writes alone. Correct: no lost update, readers see one snapshot,
  an interrupted scan resumes with the same identities.
* **Algorithms** (Green roll-up and its incremental form, file identity,
  permission evaluation, pattern matcher, budgets). Correct: the incremental
  result is the full one, a denial wins, budgets hold.

## 2. The modules

| Module | Models | Checked by | Proved in |
|---|---|---|---|
| `EventLedger` | what the service promises, abstractly | refinement in `one_project` | `ResidentServiceProofs` |
| `ResidentService` | `run_service_multi` and its surroundings | `one_project`, `two_projects` | `ResidentServiceProofs` |
| `JsonlJournal` | the journal and its sidecar, line by line | `journal_torn` | `JsonlJournalProofs` |
| `SymbolIdentity` | scans of one file and `reconcile_identity` | `identity` | `SymbolIdentityProofs` |
| `ParseCache` | the service's pass over the files, with its cache | `parse_cache` | `ParseCacheProofs` |
| `LayeredScan` | `scan-layered` over a store that others write | `layered`, `layered_resumed` | `LayeredScanProofs` |
| `AtlasWriters` | `scan`, passes, the lane, `evidence`, `compile`, `rebuild` at once over store, `ATLAS.idx` and `evidence.json` | `writers` | `AtlasWritersProofs` |
| `FileTree` | the walk, file identity, the registry, what a scan writes and in which order | `tree`, `path_reused` | `FileTreeProofs` |
| `Green` | the roll-up of `evaluate_snapshot`, the work-list of `reconverge` | `command_line` | `CommandLineProofs` |
| `IdxCodec` | the lines of `ATLAS.idx`, what a rebuild makes of them | `command_line`, `rebuild_forgets` | `CommandLineProofs` |
| `Permissions` | the ledger of rules and their evaluation | `command_line` | `CommandLineProofs` |
| `Orbit` | selection and the trimming of a packet | `command_line` | `CommandLineProofs` |
| `Supervision` | install, uninstall and upgrade under launchd, systemd and the Task Scheduler | `command_line` | `CommandLineProofs` |
| `SemanticLane` | the lane beside the deterministic lane | `command_line` | `CommandLineProofs` |

`MC*` modules give the constants of the runs their values. `MCCommandLine` puts six
parts that share no state side by side: a session of its behaviours uses one of them
and the others rest, so that one run asks each its question. Their proofs share
`CommandLineProofs` in the same way, a section each.

**ResidentService.** A project's tree is a version per file; a snapshot is the
version of each file that the scan read, each at its own moment. An event holds
the versions the tree had reached when the watcher's callback made it. A backend that
fails tells the callback, which sends an `Overflow` event (`NotifyError`); a queue of
the system that overflows is an event of kind `Other`, from which the callback returns
(`Swallow`), and `missed` has the files of which only that was said. `phase`
and `cur` say where the loop is and on which project, and one action is one call
of the loop: `Open` (one project), `LoopHead` (the shutdown test), `Drain`
(one `try_recv` with its append), `Settle`, `ReadFile`, `Commit`
(`replace_snapshot`), `Project` (`ATLAS.idx`, then `ATLAS.png`, which the watcher
does not exclude and so echoes), `Mark` (one event), `ClearPending`. Every call
has its failing twin. A failed reconciliation is logged and its batch stays;
a failed open, append or mark leaves the loop through `?` and ends the process
for every project (`Abort`). `Restart` is the supervisor, `Start` the user,
`Signal` SIGTERM, `Crash` a kill. The semantic lane's turn, the probe for a model
and the sleep are left out: they change none of this state.

**JsonlJournal.** A file is a sequence of lines and a line a sequence of halves
of records: fine enough to cut a write short and to glue two lines. A first half may end
inside a character (`CutCharacter`), after which the file is no text and `lines()` fails
as a whole (`IsText`). `write_all`
of one line to a file opened for append is one step; `append_journal` of `scan`
formats straight into the file and is several. `open` looks for the file and then
creates it in two steps, and `init_project` looks and then renames. An event of the
model is appended once; marks are of events in the batch.

**SymbolIdentity.** One file and one scan at a time, as the code matches within
a file. An id is the (name, line, occurrence) that the code hashes; `rank` is the
order the hashes sort in, any injection, for the store hands entities back in it.
Phase 1 and phase 2 of `reconcile_identity` are one action per declaration. `fileKind`
is what `file_kind` makes of the file's name: a file such as `foo_test.rs` is parsed, but
`symbols` has no declaration of it, so nothing is matched (`Reconciled`).

**ParseCache.** A fingerprint is the content it is the hash of. `ReadFile` is the
scan's read and hash, in any order; `ParseFile` is `parse_cached`, which on a miss
reads the file again; `Write` and `Remove` come between any two steps.
`quiet`, `raced` and `seen` are history: whether a file changed since the pass
began, and which contents have lost the cache's guarantee.

**LayeredScan.** The store is two tables of rows stamped with a snapshot: files,
and declarations by the id they first got. A tree stands for the hash of its files, so
a re-run over the same files has the same stamp. `Begin` is `scan_index`, `Build`
parses a directory and looks its identities up under the stamp of `prev`, `Persist` is
`upsert_subtree`, `Stitch` resolves what directories require of each other, `Finalize`
deletes what has another stamp. `Ends` is the normal end and any interruption.
`Edit`, `Replace` (a reconciliation or `scan`) and `StoreAgain` (the lane or
`evidence`, which restamp every row) come between any two steps. `calm`, `whole`,
`alone` and `leftover` are history. A directory holds one file and a file at most one
declaration: the tables and their stamps are by row, and what several declarations
do to each other is in `SymbolIdentity`. `OfKindFile` are the directories whose file is of
kind `File`; the others' declarations are never reconciled. Edges, Green and its roll-up, and
`ATLAS.idx` are left out.

**AtlasWriters.** A command is a script of calls (`Script`), and a process walks its
script; between any two calls other processes make theirs, the project is edited, a
load fails or a process is killed. `load_snapshot` is three calls (`LoadId`,
`LoadEntities`, `LoadEdges`), `replace_snapshot` one transaction, `atomic_write` is
`Create`, `Fill` and `Rename` of one temporary name per target, and `grip` says which
file an open descriptor has come to name when another process renames it away.
`Merged` is `merge_recorded_evidence`, `Carried` what `reconcile_identity` carries over,
and `told` says whether the summaries of the lane are there: what `rebuild` reads has none.
`alone`, `mark`, `suspect` and `bad` are history: who was disturbed and by what.

**FileTree.** The walk is a set of places: `Offered` are the files it would meet, once
for each include entry above them that it gets down from (`Enters`: no directory on the way
is skipped, by `exclude`, by name or for what is in it; `Reads`: none is unreadable) and
within `max_file_bytes` (`Fits`), in the order `Precedes`; `Taken` are those up to the
first that passes a ceiling, and `Truncated` says whether there was one. `ReconcileId` is `reconcile_id` for files, directories and
top-level directories, `GroupsMade` the groups of one id each that the loop of
`build_snapshot` creates, `Built` and `Slice` are what a scan and what `scan-layered`
make of the result. `at` says which of registry, store, root `ATLAS.idx` and folder
`ATLAS.idx` files have been written, in the code's order; a scan may die between any
two, and the database may be deleted and rebuilt.

**Green.** Both loops an iteration at a time: `Assess` takes the next entity of the
order that `evaluate_snapshot` sorts (coarse scales last, the listing's order within
one), `Reassess` the next entity of the work-list. `Facts` are an entity's evidence,
required edges, sockets and contradictions; `CodeAt` is `evaluate_entity`. Any listing is
allowed: enrichment appends declarations after their files, which are of the same scale, so
an evaluation takes a file before its declarations (`Early`).

**IdxCodec.** A file is a header and a set of lines; a line keeps the fields that its
encoder writes. `says` stands for fields that go there and back, `aside` for those that
no line carries; `WellFormed` is what holds of the snapshots a scan compiles. One
import line may give an entity several sockets of one id (`use m::{T, T as U}`); `copy` is
their place in the file, and the decoder attaches a fit or a hole to the last of them
(`Found`). `Compile`, `Reproject`, `LoseDatabase`, `Rebuild` and a foreign line.

**Permissions.** `AppendRule` is `allow` or `deny`; `supersede` is `ReadExisting` and then
the transaction (`Supersede`). `Decision` is the matcher: patterns of
segments, expiry, supersession, and broad denials.

**Orbit.** `gathered` is the selection before the budget; `TrimSupporting`, `TrimSpine`
and `TrimCore` are the loop of `enforce_budget`, an item each. Scores are whatever
numbers; what an item costs is a parameter.

**Supervision.** `command` is the adapter's place in its sequence of calls, each of which
may fail; `held`, `process` and `stopping` are what the supervisor does between them.
`ignored` has the failing calls that an `uninstall` passed over: the end of a poll whose
`launchctl print` failed, `disable --now` and `daemon-reload` on Linux, `/End` and `/Delete`
on Windows.

**SemanticLane.** `atlas` is the store and `without` is what it would be had no pass been
made: reconciliations and evaluations act on both. A partner answers any sequence of
candidates of `Proposals`; `Rejects` and `Admitted` are admission, `Applied` what
`apply_admitted` makes of it. A pass is one step here; its interleavings with the other
writers are in `AtlasWriters`.

## 3. What the runs show

| Run | Shows | Bounds |
|---|---|---|
| `one_project` | markers behind the Atlas, batches kept, refinement of `EventLedger` | two files with two edits each: a batch with work the scan has read past and work it has not; one fault at any call |
| `two_projects` | liveness: every edit that was told of is indexed and every batch applied in the end; a swallowed one with the next notification or start | one file and one edit each, two faults: a failure in one project and then another fault while it is retried |
| `journal_torn` | restarts miss and repeat nothing, corruption has a cause, a crash leaves a tail or half a character | three events: one torn, one glued to it, one clean after; two faults |
| `identity` | identities not merged, kept in files of kind `File`, rescans settle | the three kinds of file; three declarations of two names and two constructs on two lines: enough for a swap with a third in the way; one summary to lose |
| `parse_cache` | passes over quiet files are exact, the cache stays small | two files of two languages, three contents, one of which does not parse: a hit for another file, a revert, a race with each |
| `layered` | an undisturbed layered scan makes any store exact, but for rows of its own stamp, and keeps what a whole store knows of files of kind `File` | two directories that require each other, one of them with a file of another kind, three trees: a declaration moves, a declaration goes, a directory goes |
| `writers` | an undisturbed pass repairs whatever overlaps left, a command that has read summaries or records loses them to an overlap only, the store mixes no snapshots but for a straddled load, files are whole but for overlapped writes | two processes, three commands, one edit, one kill or failing load: a third command to repair, or to lose, what two have left |
| `tree` | ids follow files and are shared only by reuse, a scan that stops short of a file that fits says so, registry, store and projections agree, slices make the whole | three files in three directories of two systems, two contents, two edits, one fault, three configurations: the default; a limit of two files, with the larger content above `max_file_bytes`; and a limit of bytes with overlapping scopes and two directories that are excluded |
| `command_line` | roll-up current, rebuild keeps what the text carries, budgets hold, supervisors' answers stay true, the lane leaves facts alone, denials stand | Green: five entities, a chain of four scales and two of one scale, both listings, one change. `ATLAS.idx`: four entities with every field empty and full, one recompilation. Permissions: three rules, two clients, one instant. Orbit: eight entities, five links, two cost tables, 576 requests. Supervision: two roots in both orders, two binaries. Lane: two declarations, two containers, answers of up to two of 20 candidates, two edits, two summaries each |
| `layered_resumed`, `path_reused`, `rebuild_forgets` | the disagreements 1 to 3 of section 5 | the smallest instance that has each |

All CONSTANTS whose comment says "bound" (`Max...`, `Trees`, `Content`, `Proposals` ...)
are bounds; `ParseCache` has none. In `one_project` and `two_projects` the guards spend
ids on echoes only below `MaxEvents`, for the service would otherwise notify itself for
ever. `journal_torn`, `writers`, `tree` and `command_line` do not check for deadlock:
their programs end. `journal_torn` and `writers` use symmetry, of events and of processes.

**Fairness** (`two_projects`). `WF(Loop)`: the loop is a
sequential program whose calls return. `WF(Notify)` for every file: the system delivers
what it owes a running watcher, or its queue overflows and it owes nothing any more, or
the backend reports an error, for which the callback sends one event. `WF(Restart)`: `KeepAlive` (`daemon/macos.rs:93`),
`Restart=always` (`daemon/linux.rs:59`), `RestartOnFailure`
(`daemon/windows.rs:112`). `Start` has no fairness: nobody must start a stopped service.
Failures need no fairness and are bounded, so they are transient ones.
`two_projects` leaves failures of the initial pass out: with them `ObservedSurvives` fails
(section 5, 4), and nothing but a later edit brings the Atlas up to date.

## 4. What is proved

For all values of the constants, from the named assumptions only (at least one
project, finite non-empty file sets, natural bounds, a kind for each construct,
sorted texts, injective orders, languages for files only, events that are no scans, trees
of scales, partners whose relationships start at the entity they are about, finitely many
processes that use the commands there are, include lists of files of the tree,
a finite graph with a natural scale for each node, natural depths, and snapshots that are
`WellFormed`: entities with ids of their own, relationships that start at one of
them, sockets of one id at one entity and with one resolution). Every one of these is evaluated by TLC on
the instances of the runs.

* `ResidentServiceProofs`. `TypeCorrect`, `MarkersFollowTheAtlas`,
  `NoObservedChangeDropped`, `ImplementsLedger`. `MarkedWorkIsVisible` is not
  inductive: that a marker is right depends on the whole way of an event. The
  invariant adds `ChannelIsNew` (what is in the channel is not yet journalled, ids
  are unique), `MemoryOnDisk` (a batch is journalled, known ids are marked),
  `ScanIsFresh` (whatever the running scan has read is at least as new as the batch
  and as the Atlas, because the batch was drained before the scan began),
  `BatchIsVisible` (while a batch is marked, snapshot and projection show it) and
  `DiskIsSound`. The refinement maps the journal to `observed`, marked events to
  `settled` and the snapshot to `indexed`; `ScanIsFresh` is what keeps `indexed`
  from going back.
* `SymbolIdentityProofs`. `TypeCorrect`, `NoIdentityIsCarriedTwice`,
  `OnlyReuseRejects`, `MovesKeepIdentity` (in files of kind `File`). The invariant adds `StoredOnce` (stored
  ids are unique, which the duplicate check re-establishes at each accepted scan) and
  `LoneMatched` (a pair alone of its name and kind on both sides is matched in
  phase 1). `FreshIsFresh` shows by counting that minted ids never collide with
  each other, so that a duplicate takes a carried one.
* `ParseCacheProofs`. `TypeCorrect`, `QuietPassesAreExact`, `OnlyRacesAreStrange`,
  `NothingDeadIsKept`. The invariant says of each entry why it may be
  used (`EntriesAreExplained`), of each waiting file that it is as hashed or has
  raced (`WaitingIsWatched`), that a quiet scan has found what is there
  (`QuietScanIsTrue`), that the languages of files that are done are noted
  (`LanguagesAreNoted`), and that these files are exact or doubtful
  (`QuietPrefixIsExact`).

* `LayeredScanProofs`. `TypeCorrect`, `UndisturbedScansAreExact`,
  `NoDeclarationIsDoubled`, `IdentityIsKept`. The invariant divides the directories
  into those that the scan has stored and those ahead of it: the former are as the tree
  says (`StoredIsTrue`) with nothing else under the tree's stamp (`OursAlone`), the
  latter have nothing under it (`NothingOursAhead`) and in a whole store are as they
  were (`AheadIsKept`), which is why the lookup under the stamp of the snapshot before
  finds every identity (`EarlierIsAll`).
* `JsonlJournalProofs`. `TypeCorrect`, `RestartMissesNothingAlways`,
  `AppliedOnceAlways`, `CorruptionIsExplainedAlways`, `CrashLeavesATailAlways` (of a cut
  that leaves text). Each
  rests on what a write does to the lines of a file (`WriteExtendsLast`,
  `EntryWritten`): only the last line changes. `AppendedIsKept` says that the first
  half of each appended event is in a line that has its newline, which no later write
  touches, and (`CreationComesFirst`) that the one creation came before any append;
  `MarkersAreWhole` that a sidecar without a torn marker has a line for each marked event;
  `LinesAreEvents` that without torn appends and scans every line is blank or an event.
* `SymbolIdentityProofs`, `RepetitionsSettle`. That a text settles after one repetition
  is about the order in which the store hands kindred declarations out, not about what
  their ids are. In a repetition phase 1 finds an entity for each declaration, and kindred
  ones by increasing rank, with all that is still free ranking higher
  (`MatchedInOrder`; a pigeonhole argument, `SomeoneIsFree`, says that something is free);
  so what a repetition stores ranks in the order of the text (`StoredInOrder`), and the
  next one matches each declaration with its own entity (`MatchedInPlace`).
* `AtlasWritersProofs`. `ProcessesKeepToTheirScripts`, `AtlasWritersTypes`,
  `WritersAreKnown`, `FilesAreWholeAlways`, `StoreIsOneSnapshotAlways`,
  `ReadersKeepAlways`, `PassesRepair`, for any number of processes, each of which may be
  killed at any call. `Shape` says what a process has in memory at each call
  of its script. On it rest four invariants: `WriteInv` (who has not been
  clashed with is the only one at its file, its temporary is empty before it is filled and
  its own output after, and whoever holds a descriptor of the file itself has marked it
  bad); `OneInv` (until a straddled load is stored, the store, whatever of `ATLAS.idx` can be
  parsed, and all that was loaded to be stored are of one snapshot); `FreshInv` (what was
  read since nobody else committed is still so); and `AloneInv`
  (a pass alone has in memory what it has stored, and nobody else runs).
* `FileTreeProofs`. `TreeInvariant`, `TreeTypes`, `SharedOnlyByReuseAlways`,
  `ShortIsMarkedAlways`, `PassAgreesAlways`, `SlicesMakeTheWholeAlways`,
  `IdentityFollowsAlways`. `Indexed` ties the ids of a walk to the registry until that
  is written, `Scanned` its files to the tree as long as that keeps still, `Stored`
  what has been written to the index from then on. `KeptTrue` is what identity needs across
  deaths and rebuilds: the registry has, of each file that no scan has missed since, the
  id that the store and the root `ATLAS.idx` have. The proof corrected
  `SharedOnlyByReuse`: groups may also share an id because the registry has it twice, from
  an earlier scan in which one of them was new; files cannot, for a scan with two files of
  one id never gets to write the registry.
* `CommandLineProofs`, a section for each part.
  * Green: `GreenInvariant`, `RollUpIsCurrentAlways`, for any listing. An entity whose code
    follows neither from what its children have now nor from what those taken before it
    have is queued, pending, or not reached yet, so none is left at the end.
  * Orbit: `OrbitInvariant`, `BudgetHoldsAlways`. `Trimmed` is the order of the loop:
    whatever was dropped ranks no higher than anything that is left, and a later stage has
    begun only when the stage before has nothing to drop. That no relationship leads out of a packet is so once something
    was trimmed, for only then are relationships filtered. `Counted` keeps the counters
    in step with what is gone; that the categories are disjoint is what makes the sum right.
  * Semantic lane: `LaneInvariant`, `LaneLeavesFactsAloneAlways`. The store and the
    store without the lane are rebuilt from the same project, so they differ in summaries
    and in `Added` alone; a required proven relationship folds into no code.
  * Permissions: `DenialStandsAlways`, from each step alone: no command changes
    a recorded rule, and only the transaction of `supersede` adds to the superseded ones.
  * Supervision: `SupervisionInvariant`, `AnswersStayTrueAlways`. An answer alone is not
    inductive: `JobsAreHeld` says that launchd holds what runs or is on its way out, and
    `CommandKnows` what a command has established by each step (a unit before it
    is registered, a stopped or stopping process before it is removed). What an uninstall
    answers is claimed call by call: with none passed over nothing runs and nothing is held,
    with `/Delete` carried out no login starts it, and the definition is gone where it is
    removed first.
  * `ATLAS.idx`: `IdxInvariant`, `RebuildKeepsAlways`. `DecodeEncode` gives what parsing
    a file returns, attribute by attribute, for every snapshot whose equal ids attract equal
    lines (`Coherent`). What was decoded once has nothing but what a line can carry (`Plain`),
    and of a `Plain` snapshot the text comes back as it was (`PlainAgain`), so
    that a file settles after one decoding (`EveryFileSettles`) in which no two sockets share
    an id and a place (`Numbered`, true of what is encoded).
    The invariant says of a rebuilt database that it is of a `Plain` snapshot; of a
    compiled one that cannot be said, for it has what no line carries.

Only model-checked: `EditIndexed` and `BatchApplied`, which are liveness under fairness,
out of the prover's reach. Every safety invariant and every action property of a
passing run is the statement of a theorem. The violations that the last three
runs exhibit are shown on the smallest instance that has each.

## 5. Where the code and its comments part

Shown by runs:

1. `layered_resumed`. A layered scan that was interrupted has stored its directories
   under the id that its re-run has too, but the re-run looks identities up under the id
   of the snapshot before (`scan_layered.rs:163`): a declaration that had moved gets
   a second row with a fresh id, its summary stays with the first, and `Finalize` keeps
   both (against `repository.rs:108`).
2. `path_reused`. Two copies of a file that is gone both get its id, and a new file at the
   path whose hash a moved file carries gets that file's id (`scan.rs:762`): every scan
   then fails with `Duplicate` until one of them changes (against
   `docs/architecture.md:31`, "when the match is unique").
3. `rebuild_forgets`. The evidence of relationships is dropped by every rebuild, because
   `@evidence` targets are parsed as entity ids first (`idx/decode.rs:578`, against
   `decode.rs:609`).

Shown by TLC as violations of a property that is stated in its module ("what does not
hold"), but in no run of this project:

4. `ObservedSurvives`. An observed and journalled change may never reach the Atlas:
   after a restart only the initial pass would find it, and when that fails the error is
   logged and nothing is pending (`service.rs:158`, against `events.rs:5`).
5. `CrashIsNoCorruption`. An append cut short and the next append share a line, which is
   corruption in the middle (`jsonl.rs:97`, against `jsonl.rs:14`).
6. `IdsAreUnique`. A new declaration mints the id another one carries on; the scan is
   rejected, and so is every scan of that text (`enrich.rs:265`, against `enrich.rs:262`).
7. `RescanIsStable`. A rescan of an unchanged file can swap the ids of declarations of
   one name (`identity.rs:102`, against `enrich.rs:378`).
8. `CacheIsNeverWrong`. A file that changes between its hash and its parse leaves a wrong
   parse in the cache (`enrich.rs:160`, against `incremental.rs:20`).
9. `ReconvergeIsEvaluation`, `RollUpIgnoresOrder`. Every snapshot lists a file before its
   declarations (`enrich.rs:272`), both of one scale; an evaluation then folds nothing of
   them into the file (`evaluator.rs:13`), and `reconverge` does (against
   `green/incremental.rs:10`, "identical to a full re-evaluation"). `RollUpIsCurrent` is
   what the two have in common.
10. `LaneOnlyInfers`. Admission refuses the observed plane only, so a relationship of the
    declared plane is admitted (`context/admission.rs:68`, against `lane.rs:73`, "admission
    has already guaranteed it is on the inferred plane"). No partner proposes
    relationships yet.
11. `OverflowIsRescanned`. The queue of the system overflows, which the backend says with an
    event of kind `Other`; the callback returns (`watcher.rs:67`), and what was lost is in
    the Atlas only after some later change (against `watcher.rs:8`, "A watcher error becomes
    an `Overflow` event rather than being swallowed").
12. `TruncatedIsReported`. A crash cuts a record inside a character: `lines()` fails with
    `InvalidData` and the whole journal cannot be read (`jsonl.rs:124`, against `jsonl.rs:116`,
    "with any truncated final line reported").
13. `MovesKeepIdsEverywhere`, and in a layered scan `RescanKeepsEveryIdentity`. A declaration
    of `foo_test.rs` that moves gets a fresh id and loses its summary, because the file's
    kind is `Test` and only declarations of `File`s are matched (`identity.rs:49`, against
    `identity.rs:9` and `scan_layered.rs:155`).
14. `EveryLimitIsMarked`. A file above `max_file_bytes`, 1 MiB by default, is left out without
    a mark (`scan.rs:664`, against `config.rs:7`, "a ceiling that truncates and *says so*").
15. `RebuildKeepsSummaries`, `EverySocketSurvives`. A rebuild from the root `ATLAS.idx` loses
    every summary, though the file has them (`decode.rs:241`, `rebuild.rs:99`), and of two
    sockets of one id all but the last come back unresolved (`decode.rs:565`, against
    `rebuild.rs:4`, "galaxy-scoped and complete").
16. `UninstallStops`. An uninstall that answers "uninstalled" may leave the process running
    and the task registered, for the failures of `disable --now` (`linux.rs:102`), `/End` and
    `/Delete` (`windows.rs:186`) are dropped, and a `launchctl print` that fails ends the wait
    (`macos.rs:210`) (against `daemon/mod.rs:181`, "Stop `root`'s daemon and remove its
    registration").

Found in modelling:

* Ingested events are appended "for the resident service to reconcile later"
  (`context-cli/src/commands/ingest.rs:9`), but no code of the service reads the
  journal back and `JsonlJournal::pending` has no caller outside tests.
* One project's open, append or mark failure ends the service for all
  (`service.rs:155`, `:184`, `:206`), against `service.rs:145-148`.
* The parse cache is keyed by content alone, so a `.c` and a `.cpp` file of one
  content share the first one's parse (`enrich.rs:154`).
* A scan's line in `journal.jsonl` is no `RuntimeEvent`, so `read_all` reports
  `Corrupt` after every scan (`context-cli/src/main.rs:786`, `jsonl.rs:62`).
* Writers. `semantic.rs:12` says there is no concurrent writer, but any command may be
  one. `scan-layered` does not merge recorded evidence, and a scan merges it before
  symbols are parsed, so what is recorded of a symbol is not merged
  (`docs/architecture.md:37`). `evidence` adds to the evidence of an entity what the log
  replaces. A garbled `evidence.json` makes every later scan fail.
* Lane. A symbol that never gets an admissible summary is first in every pass and starves
  all others (`semantic.rs:25`, "drains the backlog a slice at a time"). A required
  relationship without evidence darkens Green at the next evaluation (`lane.rs:10`).
  Relationships of the lane are gone after the next reconciliation, summaries stay
  though the body changed, records of context count as admitted and are not stored.
* Rebuild. Purposes of the galaxy, spans, summaries, fingerprints of evidence and records
  are not restored, and lines that the decoder does not know are dropped (`idx/mod.rs:34` says they are "retained verbatim";
  `tests/idx_roundtrip.rs:52`, "a true identity").
* Files. `max_file_bytes = 0` is a limit of nothing, not none (`scan.rs:664`, against
  `config.rs:18`). Overlapping include scopes collect a file twice; a top-level directory called
  `root` collides with the group of that name; nothing prunes an old folder `ATLAS.idx`,
  and writing one recreates a deleted directory.
* Supervision. On Linux and Windows a re-install leaves the old process running
  (`daemon/mod.rs:159`, "Installing over an existing registration replaces it"); on
  macOS it races the asynchronous `bootout`, and then fails with the job unloaded.
  Another set of roots is another label, so one project may have two daemons.
* Orbit. With the root excluded everything is supporting and the packet may be trimmed to
  nothing (`orbit/budget.rs:119`, "always keep at least one").
* Green. A semantic pass stores again without evaluating, and `reconverge` has callers in
  tests only. Permissions: the command line gives no expiry; `evaluate` and
  `record_use` are called by tests only.

## 6. Not modelled, and what is left

* `ResidentService` keeps events as sets; putting it over `JsonlJournal` would join the
  proofs of both. `PowerLoss`: `synchronous=NORMAL` (`repository.rs:36`) may lose the last
  commit while markers were synced.
* Readers that filter by `current_snapshot` while a layered scan restamps rows (`map`,
  `context`): each answer is a view of rows of two snapshots; only the writers are here.
* The parallel parse, sockets of declarations, `PURPOSE.md` and manifests, coherence
  reports, receipts.
* The lane's router and calibration statistics and the universe registry have no
  caller that keeps state. Rendering (`texture/`) and ranking are floating point;
  grammars are vendored C; platform adapters, bindings and unit files are calls into the
  operating system or text.
