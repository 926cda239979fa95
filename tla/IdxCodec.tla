------------------------------ MODULE IdxCodec ------------------------------
(***************************************************************************)
(* ATLAS.idx (context-store/src/idx, rebuild.rs): the text a snapshot is   *)
(* projected to, and the snapshot the store is rebuilt from.               *)
(*                                                                         *)
(* A file is a header and a set of lines: they are sorted by identity, so  *)
(* the order says nothing more but of sockets.  Those of one identity stay *)
(* in the order the snapshot lists them in, which "copy" numbers: use      *)
(* m::{T, T as U} requires m::T twice.  A line keeps the fields that its Rust function writes; quoting and number formats are    *)
(* left out.  "says" stands for the fields of an object that the encoder   *)
(* writes and the decoder reads back together, "aside" for those that no   *)
(* line carries (spans, aliases, interfaces, times, confidence of axes).   *)
(***************************************************************************)
EXTENDS Integers, Sequences, FiniteSets

CONSTANTS Snapshots,       \* what a scan can compile
          None,            \* an absent field, state or database
          MaxIdxChanges    \* how often a scan compiles another one

(* ScopeScale::Moon: files and symbols, which get no ATLAS.idx. *)
MoonScale == 4

(* An empty text, which is not written. *)
NoText == ""

(* SocketResolution::Unresolved. *)
Unresolved == [kind |-> "unresolved", says |-> None]

-----------------------------------------------------------------------------
(* The lines of the encoder.  "made" marks an identity that the encoder     *)
(* makes up from the entity's and a number.                                *)

GreenLine(target, green) ==
    [tag |-> "@green", target |-> target, axes |-> green.axes, overall |-> green.overall]

EntityLine(e) ==
    [tag |-> "@entity", id |-> e.id, scale |-> e.scale, parent |-> e.parent,
     path |-> e.path, says |-> e.says]

EdgeLine(edge) ==
    [tag |-> "@edge", id |-> edge.id, from |-> edge.from, to |-> edge.to,
     source |-> edge.source, says |-> edge.says]

(* The identity includes the fingerprint, the line does not. *)
EvidenceLine(target, evidence) ==
    [tag |-> "@evidence", id |-> <<target, evidence.says, evidence.fingerprint>>,
     target |-> target, says |-> evidence.says]

SourceLine(source) == [tag |-> "@source", id |-> source.id, says |-> source.says]

SocketLine(s) ==
    [tag |-> "@socket", id |-> s.id, copy |-> s.copy, entity |-> s.entity, source |-> s.source,
     says |-> s.says]

FitLine(s) == [tag |-> "@fit", require |-> s.id, says |-> s.resolution.says]

HoleLine(s) == [tag |-> "@hole", socket |-> s.id, says |-> s.resolution.says]

SummarySource(authority) ==
    CASE authority = "human" -> "human"
      [] authority = "model" -> "inferred"
      [] authority = "project" -> "declared"
      [] OTHER -> "observed"

(* A record of any type but summary.  A purpose and a constraint have no   *)
(* state on their lines.                                                   *)
RecordLine(r) ==
    [tag |-> r.type, id |-> r.id, made |-> FALSE, scope |-> r.scope, authority |-> r.authority,
     state |-> IF r.type \in {"@purpose", "@constraint"} THEN None ELSE r.state,
     source |-> r.source, text |-> r.text]

(* The summaries of an entity and those decoded as records. *)
SummaryLines(entities, records) ==
    {[tag |-> "@summary", id |-> e.id, made |-> FALSE, source |-> "parsed",
      authority |-> None, text |-> e.summary] :
        e \in {d \in entities : d.summary # NoText}}
      \cup (UNION {{[tag |-> "@summary", id |-> <<e.id, "inferred", i>>, made |-> TRUE,
                     source |-> "inferred", authority |-> None, text |-> e.inferred[i]] :
                         i \in DOMAIN e.inferred} : e \in entities})
      \cup {[tag |-> "@summary", id |-> r.id, made |-> FALSE, source |-> SummarySource(r.authority),
             authority |-> r.authority, text |-> r.text] :
                r \in {q \in records : q.type = "@summary"}}

(* The goals of PURPOSE.md are written as constraints. *)
ClauseLines(entities) ==
    UNION {{[tag |-> "@constraint", id |-> <<e.id, "purpose", i>>, made |-> TRUE, scope |-> e.id,
             authority |-> "human", state |-> None, source |-> "PURPOSE.md",
             text |-> e.clauses[i]] : i \in DOMAIN e.clauses} : e \in entities}

UncertaintyLines(entities) ==
    UNION {{[tag |-> "@uncertainty", id |-> <<e.id, "uncertainty", i>>, text |-> e.uncertainty[i]] :
                i \in DOMAIN e.uncertainty} : e \in entities}

(* A folder's children that have a file of their own. *)
ChildLines(snapshot, root) ==
    {[tag |-> "@child", id |-> c.id, path |-> c.path,
      summary |-> IF c.summary = NoText THEN c.says ELSE c.summary] :
        c \in {e \in snapshot.entities :
                  e.parent = root /\ e.scale # MoonScale /\ e.path # None}}

(* encode_atlas_idx.  The scope is "galaxy" or the identity of a folder,   *)
(* whose file holds it and its direct children.                            *)
Encode(snapshot, scope) ==
    LET entities == IF scope = "galaxy" THEN snapshot.entities
                    ELSE {e \in snapshot.entities : e.id = scope \/ e.parent = scope}
        visible == {e.id : e \in entities}
        edges == {d \in snapshot.edges : d.from \in visible \/ d.to \in visible}
        records == {r \in snapshot.records : scope = "galaxy" \/ r.scope \in visible}
        sockets == UNION {e.sockets : e \in entities}
        referenced == {r.source : r \in {q \in records : q.type # "@summary"}}
                        \cup {d.source : d \in edges} \cup {s.source : s \in sockets}
    IN  [scope |-> IF scope = "galaxy" THEN "galaxy" ELSE "folder",
         snapshot |-> snapshot.id,
         lines |->
            {EntityLine(e) : e \in entities}
              \cup SummaryLines(entities, records)
              \cup {EdgeLine(d) : d \in edges}
              \cup {RecordLine(r) : r \in {q \in records : q.type # "@summary"}}
              \cup ClauseLines(entities)
              \cup (UNION {{EvidenceLine(e.id, v) : v \in e.evidence \cup e.inherited} :
                              e \in entities})
              \cup (UNION {{EvidenceLine(d.id, v) : v \in d.evidence} : d \in edges})
              \cup (UNION {{GreenLine(e.id, g) : g \in e.green} : e \in entities})
              \cup {[tag |-> "@conflict", id |-> c.id, says |-> c.says] : c \in snapshot.conflicts}
              \cup (IF scope = "galaxy" THEN {} ELSE ChildLines(snapshot, scope))
              \cup {SourceLine(s) : s \in {t \in snapshot.sources : t.id \in referenced}}
              \cup {SocketLine(s) : s \in sockets}
              \cup {FitLine(s) : s \in {t \in sockets : t.resolution.kind = "fit"}}
              \cup {HoleLine(s) : s \in {t \in sockets : t.resolution.kind = "hole"}}
              \cup UncertaintyLines(entities)]

-----------------------------------------------------------------------------
(* The decoder.                                                            *)

RecordTags == {"@purpose", "@decision", "@constraint", "@task", "@requirement",
               "@question", "@finding", "@permission", "@activity", "@summary"}

Lines(file, tag) == {l \in file.lines : l.tag = tag}

(* An identity that the encoder made up is replaced by a new one. *)
RecordIdOf(l) == IF l.made THEN <<"new", l.id>> ELSE l.id

ParseEntity(l) ==
    [id |-> l.id, scale |-> l.scale, parent |-> l.parent, path |-> l.path, says |-> l.says,
     aside |-> None, summary |-> NoText, inferred |-> <<>>, clauses |-> <<>>, uncertainty |-> <<>>,
     evidence |-> {}, inherited |-> {}, green |-> {}, sockets |-> {}]

ParseEdge(l) ==
    [id |-> l.id, from |-> l.from, to |-> l.to, source |-> l.source, says |-> l.says,
     aside |-> None, evidence |-> {}]

ParseEvidence(l) == [says |-> l.says, fingerprint |-> None]

ParseGreen(l) == [axes |-> l.axes, overall |-> l.overall, aside |-> None]

(* A summary line has no scope: a new identity stands for it. *)
ParseRecord(l) ==
    [type |-> l.tag,
     id |-> RecordIdOf(l),
     scope |-> IF l.tag = "@summary" THEN None ELSE l.scope,
     source |-> l.source,
     authority |-> IF l.authority = None THEN "system" ELSE l.authority,
     state |-> IF l.tag = "@summary" \/ l.state = None THEN "active" ELSE l.state,
     text |-> l.text]

(* A mutant: a socket takes a fit only. *)
ResolutionFits(file, id) ==
    LET fits == {l \in Lines(file, "@fit") : l.require = id}
    IN  IF fits # {} THEN [kind |-> "fit", says |-> (CHOOSE l \in fits : TRUE).says]
        ELSE Unresolved

(* Fits are attached first, holes over them. *)
Resolution(file, id) ==
    LET fits  == {l \in Lines(file, "@fit") : l.require = id}
        holes == {l \in Lines(file, "@hole") : l.socket = id}
    IN  IF holes # {} THEN [kind |-> "hole", says |-> (CHOOSE l \in holes : TRUE).says]
        ELSE IF fits # {} THEN [kind |-> "fit", says |-> (CHOOSE l \in fits : TRUE).says]
        ELSE Unresolved

(* The decoder finds a socket by its identity: of several, the last. *)
Found(sockets, s) == \A t \in sockets : t.id = s.id => t.copy <= s.copy

ParseSocket(file, l) ==
    [id |-> l.id, copy |-> l.copy, entity |-> l.entity, source |-> l.source, says |-> l.says,
     resolution |-> IF Found(Lines(file, "@socket"), l) THEN Resolution(file, l.id) ELSE Unresolved]

(* The target of evidence is read as the identity of an entity, which      *)
(* every identity is: evidence of an edge finds no entity and is lost.     *)
AttachEntity(file, e) ==
    [e EXCEPT !.green    = {ParseGreen(l) : l \in {m \in Lines(file, "@green") : m.target = e.id}},
              !.evidence = {ParseEvidence(l) : l \in {m \in Lines(file, "@evidence") : m.target = e.id}},
              !.sockets  = {ParseSocket(file, l) : l \in {m \in Lines(file, "@socket") : m.entity = e.id}}]

(* decode_atlas_idx, without the lines it keeps as opaque: @child,         *)
(* @uncertainty and those of an unknown type.                              *)
Decode(file) ==
    [id |-> file.snapshot,
     entities |-> {AttachEntity(file, ParseEntity(l)) : l \in Lines(file, "@entity")},
     edges |-> {ParseEdge(l) : l \in Lines(file, "@edge")},
     records |-> {ParseRecord(l) : l \in {m \in file.lines : m.tag \in RecordTags}},
     conflicts |-> {[id |-> l.id, says |-> l.says] : l \in Lines(file, "@conflict")},
     sources |-> {[id |-> l.id, says |-> l.says] : l \in Lines(file, "@source")}]

-----------------------------------------------------------------------------
(* What holds of the snapshots that a scan compiles: an entity is listed    *)
(* once (HierarchyError::Duplicate); the ids of entities, edges and sockets *)
(* are hashes of different keys, and that of a socket names its entity; two *)
(* sockets of one id name the same shape, and so resolve to the same        *)
(* (enrich.rs, resolve_sockets); an edge starts at an entity (contains,     *)
(* import_edges); what a socket resolved to is a fit, a hole or nothing.    *)
WellFormed(snapshot) ==
    /\ snapshot = [id |-> snapshot.id, entities |-> snapshot.entities, edges |-> snapshot.edges,
                   records |-> snapshot.records, conflicts |-> snapshot.conflicts,
                   sources |-> snapshot.sources]
    /\ \A r \in snapshot.records : r.type \in RecordTags
    /\ \A e, d \in snapshot.entities : e.id = d.id => e = d
    /\ \A e \in snapshot.entities, d \in snapshot.edges : e.id # d.id
    /\ \A d \in snapshot.edges : \E e \in snapshot.entities : e.id = d.from
    /\ \A e \in snapshot.entities : \A s \in e.sockets :
          /\ s = [id |-> s.id, copy |-> s.copy, entity |-> e.id, source |-> s.source,
                  says |-> s.says,
                  resolution |-> [kind |-> s.resolution.kind, says |-> s.resolution.says]]
          /\ s.copy \in Nat
          /\ s.resolution.kind \in {"fit", "hole", "unresolved"}
          /\ s.resolution.kind = "unresolved" => s.resolution = Unresolved
    /\ \A e, d \in snapshot.entities : \A s \in e.sockets, t \in d.sockets :
          s.id = t.id => e.id = d.id /\ s.resolution = t.resolution

ASSUME SnapshotsAssumption == \A snapshot \in Snapshots : WellFormed(snapshot)

-----------------------------------------------------------------------------
VARIABLES compiled,     \* the snapshot of the last scan
          database,     \* atlas.db: a snapshot, or None when there is none
          rootIdx,      \* the root's ATLAS.idx
          rebuilt,      \* the database comes from a rebuild
          idxChanges

idxVars == <<compiled, database, rootIdx, rebuilt, idxChanges>>

(* replace_snapshot stores entities and edges, load_snapshot reads them.   *)
Stored(snapshot) ==
    [id |-> snapshot.id, entities |-> snapshot.entities, edges |-> snapshot.edges,
     records |-> {}, conflicts |-> {}, sources |-> {}]

IdxInit ==
    /\ compiled \in Snapshots
    /\ database = Stored(compiled)
    /\ rootIdx = Encode(compiled, "galaxy")
    /\ rebuilt = FALSE
    /\ idxChanges = 0

(* A scan: the store and the projection are written from one snapshot. *)
Compile ==
    /\ idxChanges < MaxIdxChanges
    /\ compiled' \in Snapshots
    /\ database' = Stored(compiled')
    /\ rootIdx' = Encode(compiled', "galaxy")
    /\ rebuilt' = FALSE
    /\ idxChanges' = idxChanges + 1

(* A command that loads the store, changes nothing a line carries, and     *)
(* projects it again.                                                      *)
Reproject ==
    /\ database # None
    /\ rootIdx' = Encode(database, "galaxy")
    /\ UNCHANGED <<compiled, database, rebuilt, idxChanges>>

(* A later version writes a line this build does not know. *)
Foreign ==
    /\ rootIdx' = [rootIdx EXCEPT !.lines = @ \cup {[tag |-> "@future"]}]
    /\ UNCHANGED <<compiled, database, rebuilt, idxChanges>>

(* The database is deleted. *)
LoseDatabase ==
    /\ database' = None
    /\ UNCHANGED <<compiled, rootIdx, rebuilt, idxChanges>>

(* rebuild_repository_from_portable: a folder's file or one without        *)
(* entities is refused, and the database left as it is.                    *)
Rebuild ==
    /\ rootIdx.scope = "galaxy"
    /\ Lines(rootIdx, "@entity") # {}
    /\ database' = Stored(Decode(rootIdx))
    /\ rebuilt' = TRUE
    /\ UNCHANGED <<compiled, rootIdx, idxChanges>>

IdxNext == Compile \/ Reproject \/ Foreign \/ LoseDatabase \/ Rebuild

IdxSpec == IdxInit /\ [][IdxNext]_idxVars

-----------------------------------------------------------------------------
(* The sockets, with what the last of each identity resolved to. *)
KeptSockets(sockets) ==
    {[s EXCEPT !.resolution = IF Found(sockets, s) THEN @ ELSE Unresolved] : s \in sockets}

(* What a rebuild is for: the tree, the relationships, the sockets, the    *)
(* codes, and the evidence of entities without its fingerprints and        *)
(* without telling own from inherited.                                     *)
Portable(snapshot) ==
    [id |-> snapshot.id,
     entities |-> {[id |-> e.id, scale |-> e.scale, parent |-> e.parent, path |-> e.path,
                    says |-> e.says, sockets |-> KeptSockets(e.sockets),
                    green |-> {<<g.axes, g.overall>> : g \in e.green},
                    evidence |-> {v.says : v \in e.evidence \cup e.inherited}] :
                        e \in snapshot.entities},
     edges |-> {[id |-> d.id, from |-> d.from, to |-> d.to, source |-> d.source,
                 says |-> d.says] : d \in snapshot.edges}]

(* Decoding and encoding again changes nothing from the second file on. *)
Settles(file, scope) ==
    LET again == Encode(Decode(file), scope)
    IN  Encode(Decode(again), scope) = again

(* Whatever sequence of projections, losses of the database and rebuilds   *)
(* follows a scan, the database and the root's ATLAS.idx hold the portable *)
(* part of what the scan compiled.  What the first rebuild loses is all    *)
(* that is ever lost: projecting a rebuilt database and rebuilding again   *)
(* gives the same database, and so for the text of any file and of any     *)
(* folder (rebuild.rs, idx/encode.rs, idx/decode.rs).                      *)
RebuildKeeps ==
    /\ database # None =>
          /\ Portable(database) = Portable(compiled)
          /\ rebuilt => Stored(Decode(Encode(database, "galaxy"))) = database
    /\ Portable(Decode(rootIdx)) = Portable(compiled)
    /\ Settles(rootIdx, "galaxy")
    /\ \A e \in compiled.entities : Settles(Encode(compiled, e.id), e.id)

(* A rebuild gives every socket its fit or its hole back, from a source    *)
(* that is "galaxy-scoped and complete" (rebuild.rs:4).  The code breaks   *)
(* it: of two sockets of one import line, the first comes back unresolved. *)
(* No run checks it.                                                       *)
EverySocketSurvives ==
    database # None /\ rebuilt =>
        \A e \in database.entities : \E c \in compiled.entities :
            c.id = e.id /\ c.sockets = e.sockets

(* The evidence of a relationship is back after a rebuild, as that of an   *)
(* entity is (decode.rs: "Attach evidence to entities and edges").         *)
EdgeEvidenceSurvives ==
    database # None /\ rebuilt =>
        \A d \in database.edges : \E c \in compiled.edges :
            /\ c.id = d.id
            /\ {v.says : v \in d.evidence} = {v.says : v \in c.evidence}
==============================================================================
