---------------------------- MODULE JsonlJournal ----------------------------
(***************************************************************************)
(* `.creature/journal.jsonl` and its `.applied` sidecar, line by line: the *)
(* clients of JsonlJournal (the resident service and `creature-context     *)
(* ingest`) append events and markers, `creature-context scan` appends a   *)
(* line of its own to the same file, and a client may die, or run out of   *)
(* disk, in the middle of a write.                                         *)
(*                                                                         *)
(* A file is a sequence of lines, each a sequence of the halves of records:*)
(* the granularity at which a write is torn and lines are glued.  Its last *)
(* line is what follows the last newline.  One write to a file opened for  *)
(* append is atomic with respect to other writers.                         *)
(***************************************************************************)
EXTENDS Naturals, Sequences, SequencesExt

CONSTANTS
    Service,    \* the resident service, which appends and marks
    Ingests,    \* runs of `creature-context ingest`, which append
    Scans,      \* runs of `creature-context scan`
    Events,     \* the events that get appended, each once
    MaxFaults   \* bound: the writes that are cut short

ASSUME FaultsAssumption == MaxFaults \in Nat
ASSUME RecordsAssumption == Events \intersect Scans = {}

FirstHalf(x) == <<"first half", x>>
SecondHalf(x) == <<"second half", x>>
Record(x) == <<FirstHalf(x), SecondHalf(x)>>

\* An event has paths in it, in UTF-8: what is left of a write that ended inside
\* one of their characters.  Markers and a scan's line are ASCII.
CutCharacter(x) == <<"cut in a character", x>>

Halves == (UNION {{FirstHalf(x), SecondHalf(x)} : x \in Events \union Scans})
          \union {CutCharacter(e) : e \in Events}

Files == Seq(Seq(Halves))
Empty == << <<>> >>

\* What writing halves, and writing a newline, make of a file.
Write(file, halves) == Front(file) \o <<Last(file) \o halves>>
NewLine(file) == Append(file, <<>>)

\* A write of a record that is cut short leaves a part of it, or nothing, and
\* never the newline.
Torn(file, x) == {Write(file, SubSeq(Record(x), 1, k)) : k \in 0..2}

Clients == {Service} \union Ingests

VARIABLES
    exists,     \* whether journal.jsonl exists
    created,    \* how often an empty one was put in its place
    journal,    \* what is in it
    sidecar,    \* what is in journal.applied
    at,         \* at[p]: where a client or a scan is
    written,    \* written[s]: how much a scan has written of its line
    tried,      \* events whose append has begun
    appended,   \* events whose append returned Ok
    batch,      \* those the running service has appended itself
    marking,    \* events whose mark_applied has begun
    marked,     \* events whose mark_applied returned Ok
    faults      \* writes cut short so far

vars == <<exists, created, journal, sidecar, at, written, tried, appended, batch,
          marking, marked, faults>>

TypeOK ==
    /\ exists \in BOOLEAN /\ created \in Nat
    /\ journal \in Files /\ sidecar \in Files
    /\ at \in [Clients \union Scans ->
                 {"closed", "create", "open", "start", "install", "write", "done"}]
    /\ written \in [Scans -> 0..3]
    /\ batch \subseteq appended /\ appended \subseteq tried /\ tried \subseteq Events
    /\ marked \subseteq marking /\ marking \subseteq appended
    /\ faults \in 0..MaxFaults

Init ==
    /\ exists \in BOOLEAN /\ created = 0
    /\ journal = Empty /\ sidecar = Empty
    /\ at = [p \in Clients \union Scans |-> IF p \in Clients THEN "closed" ELSE "start"]
    /\ written = [s \in Scans |-> 0]
    /\ tried = {} /\ appended = {} /\ batch = {} /\ marking = {} /\ marked = {}
    /\ faults = 0

Go(p, place) == at' = [at EXCEPT ![p] = place]

-----------------------------------------------------------------------------
(* Reading.                                                                *)

\* serde_json::from_str::<RuntimeEvent>: one whole event and nothing else.  A
\* scan's line has fields that RuntimeEvent denies.
Parses(line) == \E e \in Events : line = Record(e)

Blank(line) == line = <<>>

BadLines(file) == {i \in DOMAIN file : ~Blank(file[i]) /\ ~Parses(file[i])}

Parsed(file) == {e \in Events : Record(e) \in Range(file)}

\* lines: a file that is not UTF-8 throughout is an I/O error.
IsText(file) == \A e \in Events : \A i \in DOMAIN file :
                    \A k \in DOMAIN file[i] : file[i][k] # CutCharacter(e)

\* A mutant: a bad last line counts as truncated though it has its newline.
ReadAllForgiving(file) ==
    LET last == IF Blank(Last(file)) THEN Len(file) - 1 ELSE Len(file) IN
    [ok |-> IsText(file) /\ BadLines(file) \subseteq {last}, entries |-> Parsed(file)]

\* A mutant: a bad last line is corruption like any other.
ReadAllStrict(file) ==
    [ok |-> IsText(file) /\ BadLines(file) = {}, entries |-> Parsed(file)]

\* read_all_with_findings: a bad last line without its newline is a truncated
\* tail, and any other bad line is corruption.
ReadAll(file) ==
    [ok |-> IsText(file) /\ BadLines(file) \subseteq {Len(file)}, entries |-> Parsed(file)]

\* applied_ids: the lines that are ids, the others skipped.
AppliedIds(file) == Parsed(file)

\* pending: what a restart must process.
Pending == ReadAll(journal).entries \ AppliedIds(sidecar)

-----------------------------------------------------------------------------
(* JsonlJournal.                                                           *)

\* open first looks whether the journal exists.
Open(c) ==
    /\ at[c] = "closed"
    /\ Go(c, IF exists THEN "open" ELSE "create")
    /\ UNCHANGED <<exists, created, journal, sidecar, written, tried, appended, batch,
                   marking, marked, faults>>

\* File::create truncates what has come into being since.
Create(c) ==
    /\ at[c] = "create"
    /\ exists' = TRUE /\ created' = created + 1
    /\ journal' = Empty
    /\ Go(c, "open")
    /\ UNCHANGED <<sidecar, written, tried, appended, batch, marking, marked, faults>>

\* A mutant: the event is serialised over two lines.
AppendPretty(c, e) ==
    /\ at[c] = "open" /\ e \notin tried
    /\ journal' = NewLine(Write(NewLine(Write(journal, <<FirstHalf(e)>>)),
                               <<SecondHalf(e)>>))
    /\ tried' = tried \union {e} /\ appended' = appended \union {e}
    /\ batch' = IF c = Service THEN batch \union {e} ELSE batch
    /\ UNCHANGED <<exists, created, sidecar, at, written, marking, marked, faults>>

AppendEntry(c, e) ==
    /\ at[c] = "open" /\ e \notin tried
    /\ journal' = NewLine(Write(journal, Record(e)))
    /\ tried' = tried \union {e} /\ appended' = appended \union {e}
    /\ batch' = IF c = Service THEN batch \union {e} ELSE batch
    /\ UNCHANGED <<exists, created, sidecar, at, written, marking, marked, faults>>

\* The client dies, or the disk is full and the error ends it.
Ends(c) ==
    /\ faults < MaxFaults /\ faults' = faults + 1
    /\ Go(c, "closed")
    /\ batch' = IF c = Service THEN {} ELSE batch

AppendTorn(c, e) ==
    /\ at[c] = "open" /\ e \notin tried
    /\ Ends(c)
    /\ journal' \in Torn(journal, e) \union {Write(journal, <<CutCharacter(e)>>)}
    /\ tried' = tried \union {e}
    /\ UNCHANGED <<exists, created, sidecar, written, appended, marking, marked>>

\* A mutant: an event is marked that was never in the batch.
MarkAnyEvent(e) ==
    /\ at[Service] = "open" /\ e \notin marking
    /\ sidecar' = NewLine(Write(sidecar, Record(e)))
    /\ marking' = marking \union {e} /\ marked' = marked \union {e}
    /\ UNCHANGED <<exists, created, journal, at, written, tried, appended, batch, faults>>

\* A mutant: the marker is written without its newline.
MarkWithoutNewline(e) ==
    /\ at[Service] = "open" /\ e \in batch \ marking
    /\ sidecar' = Write(sidecar, Record(e))
    /\ marking' = marking \union {e} /\ marked' = marked \union {e}
    /\ UNCHANGED <<exists, created, journal, at, written, tried, appended, batch, faults>>

MarkApplied(e) ==
    /\ at[Service] = "open" /\ e \in batch \ marking
    /\ sidecar' = NewLine(Write(sidecar, Record(e)))
    /\ marking' = marking \union {e} /\ marked' = marked \union {e}
    /\ UNCHANGED <<exists, created, journal, at, written, tried, appended, batch, faults>>

MarkTorn(e) ==
    /\ at[Service] = "open" /\ e \in batch \ marking
    /\ Ends(Service)
    /\ sidecar' \in Torn(sidecar, e)
    /\ marking' = marking \union {e}
    /\ UNCHANGED <<exists, created, journal, written, tried, appended, marked>>

-----------------------------------------------------------------------------
(* `creature-context scan`, which does not use JsonlJournal.               *)

\* init_project, the first time: it looks for the journal ...
Initialise(s) ==
    /\ at[s] = "start"
    /\ Go(s, IF exists THEN "write" ELSE "install")
    /\ UNCHANGED <<exists, created, journal, sidecar, written, tried, appended, batch,
                   marking, marked, faults>>

\* ... and then renames an empty file into its place.
Install(s) ==
    /\ at[s] = "install"
    /\ exists' = TRUE /\ created' = created + 1
    /\ journal' = Empty
    /\ Go(s, "write")
    /\ UNCHANGED <<sidecar, written, tried, appended, batch, marking, marked, faults>>

\* append_journal formats its line straight into the file, a write per piece.
WriteScan(s) ==
    /\ at[s] = "write"
    /\ written' = [written EXCEPT ![s] = @ + 1]
    /\ journal' = IF written[s] = 2 THEN NewLine(journal)
                  ELSE Write(journal, <<Record(s)[written[s] + 1]>>)
    /\ Go(s, IF written[s] = 2 THEN "done" ELSE "write")
    /\ UNCHANGED <<exists, created, sidecar, tried, appended, batch, marking, marked, faults>>

ScanDies(s) ==
    /\ at[s] = "write"
    /\ faults < MaxFaults /\ faults' = faults + 1
    /\ Go(s, "done")
    /\ UNCHANGED <<exists, created, journal, sidecar, written, tried, appended, batch,
                   marking, marked>>

Next ==
    \/ \E c \in Clients :
          \/ Open(c) \/ Create(c)
          \/ \E e \in Events : AppendEntry(c, e) \/ AppendTorn(c, e)
    \/ \E e \in Events : MarkApplied(e) \/ MarkTorn(e)
    \/ \E s \in Scans :
          Initialise(s) \/ Install(s) \/ WriteScan(s) \/ ScanDies(s)

Spec == Init /\ [][Next]_vars

-----------------------------------------------------------------------------
(* What must hold.                                                         *)

Readable == ReadAll(journal).ok
Entries == ReadAll(journal).entries

\* A journal that can be read, and that was created at most once, has lost
\* nothing: every event that was appended is either handed back by pending or
\* was handed to mark_applied, whatever was torn or glued around it.  Damage
\* makes read_all fail instead.
RestartMissesNothing ==
    Readable /\ created <= 1 => appended \ marking \subseteq Pending

\* A write cut short makes a readable journal unreadable only by cutting a
\* character in two: whatever else it left is a truncated tail, which reading sets
\* aside.
CrashLeavesATail == [][faults' # faults /\ Readable /\ IsText(journal') => Readable']_vars

\* A restart never repeats an applied event while no marker was cut short, and
\* never takes an event for applied that was not handed to mark_applied.
AppliedOnce ==
    /\ marking = marked => Pending \intersect marked = {}
    /\ AppliedIds(sidecar) \subseteq marking

\* Corruption has a cause on record: an append cut short, or a scan's line.
CorruptionIsExplained ==
    ~Readable => tried # appended \/ \E s \in Scans : written[s] > 0

-----------------------------------------------------------------------------
(* What the comments of the code promise and the code does not keep.       *)

\* "Every entry in the journal, with any truncated final line reported rather than
\* parsed": a line cut inside a character makes reading fail.
TruncatedIsReported == [][faults' # faults /\ Readable => Readable']_vars

\* "Corruption in the middle of the file is a different matter from a truncated
\* tail [...]: a crash cannot damage a line that was already followed by
\* others", checked for clients that only append events.
CrashIsNoCorruption == Readable
=============================================================================
