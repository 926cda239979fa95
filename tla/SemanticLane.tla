---------------------------- MODULE SemanticLane ----------------------------
(***************************************************************************)
(* The semantic lane beside the deterministic one: a pass takes the first  *)
(* declaration without a summary, asks a partner, sends its candidates     *)
(* through admission, and stores the snapshot again with what is admitted  *)
(* (context-runtime/src/semantic.rs, context-model/src/lane.rs and         *)
(* partner.rs, context-core/src/context/admission.rs).  A partner may      *)
(* propose anything.  Reconciliations rebuild the snapshot from the        *)
(* project, and `evidence` or `compile` evaluates Green over whatever the  *)
(* store holds.                                                            *)
(*                                                                         *)
(* A pass is one step: AtlasWriters has the writers that come between.     *)
(* Declarations keep their ids: SymbolIdentity has when they do not.       *)
(***************************************************************************)
EXTENDS Integers, Sequences, FiniteSets

CONSTANTS
    Declarations,   \* functions, types and components that the project may have
    Containers,     \* the galaxy, directories and files
    ListOrder,      \* the order in which the store lists declarations
    FileOf,         \* the file of a declaration
    Skeleton,       \* the relationships of the containers
    Below,          \* the entities whose codes an entity folds in, itself included
    Protected,      \* entities with protected decisions
    Proposals,      \* bound: what a partner may answer, sequences of candidates
    MaxLaneEdits,   \* bound: changes of the project
    MaxSummaries    \* bound: summaries of one entity

\* A relationship has an id, the entity it is from, its plane, whether it is required, and
\* the code of its evidence.  A candidate has a kind, the entity it is of, whether its
\* confidence is within 0..=1 and its snapshot that of the pass, and maybe an edge.
Known == Declarations \union Containers

\* GreenCode of what has been proven; the weakest of two codes is the smaller one.
Proven == 3

ASSUME LaneAssumption ==
    /\ Protected \subseteq Containers
    /\ FileOf \in [Declarations -> Containers]
    /\ Below \in [Known -> SUBSET Known]
    /\ MaxLaneEdits \in Nat /\ MaxSummaries \in Nat

\* target_entity of a relationship is where it starts.
ASSUME ProposalsAssumption == \A answer \in Proposals : \A i \in DOMAIN answer :
    answer[i].kind = "edge" => answer[i].edge.from = answer[i].of

VARIABLES
    source,     \* the declarations of the project, and how often it has changed
    atlas,      \* the store: the number of summaries of each entity, relationships and Green
    without     \* history: the store as it would be if no pass had been made

laneVars == <<source, atlas, without>>

-----------------------------------------------------------------------------
(* The deterministic lane.                                                 *)

Holding(d) == [id |-> d, from |-> FileOf[d], plane |-> "observed", required |-> FALSE, code |-> Proven]

WeakestOf(codes) == CHOOSE c \in codes : \A d \in codes : c <= d

\* evaluate_snapshot, as far as relationships go: whatever their plane, those that are
\* required of an entity and of what it contains.
GreenOf(entities, edges) ==
    [e \in entities |->
        WeakestOf({Proven} \union {r.code : r \in {x \in edges : x.required /\ x.from \in Below[e]}})]

\* index_project, with the summaries that reconcile_identity carries forward.
Indexed(previous) ==
    LET present == Containers \union source.has
        edges == Skeleton \union {Holding(d) : d \in source.has}
    IN  [id |-> source,
         told |-> [e \in present |-> IF e \in DOMAIN previous.told THEN previous.told[e] ELSE 0],
         edges |-> edges,
         green |-> GreenOf(present, edges)]

Empty == [told |-> <<>>]

LaneInit ==
    /\ source \in [has : SUBSET Declarations, changes : {0}]
    /\ atlas = Indexed(Empty)
    /\ without = atlas

Change ==
    /\ source.changes < MaxLaneEdits
    /\ \E has \in SUBSET Declarations : source' = [has |-> has, changes |-> source.changes + 1]
    /\ UNCHANGED <<atlas, without>>

Reconcile ==
    /\ atlas' = Indexed(atlas)
    /\ without' = Indexed(without)
    /\ UNCHANGED source

\* `evidence` and `compile` evaluate and store again what they load.
Rejudged(s) == [s EXCEPT !.green = GreenOf(DOMAIN s.told, s.edges)]

Reevaluate ==
    /\ atlas' = Rejudged(atlas)
    /\ without' = Rejudged(without)
    /\ UNCHANGED source

-----------------------------------------------------------------------------
(* The semantic lane.                                                      *)

\* work_items with the budget of the service, which is one.
WorkItems ==
    LET untold == SelectSeq(ListOrder, LAMBDA d : d \in DOMAIN atlas.told /\ atlas.told[d] = 0)
    IN  IF untold = <<>> THEN {} ELSE {Head(untold)}

\* A mutant: an observed relationship is not refused.
RejectsStaleOnly(c) == ~c.pinned \/ ~c.sound

\* rejection_reasons: the snapshot has moved on, the confidence is not within 0..=1, the
\* relationship is an observed one.
Rejects(c) == ~c.pinned \/ ~c.sound \/ (c.kind = "edge" /\ c.edge.plane = "observed")

\* admit, for each candidate of an answer: what touches a protected decision is for review.
Admitted(answer) ==
    {i \in DOMAIN answer : ~Rejects(answer[i]) /\ answer[i].of \notin Protected}

\* apply_admitted; records of context are not stored.
Summaries(answer, e) ==
    Cardinality({i \in Admitted(answer) : answer[i].kind = "summary" /\ answer[i].of = e})

Related(answer) == {i \in Admitted(answer) : answer[i].kind = "edge"}

Applied(s, answer) ==
    [s EXCEPT !.told = [e \in DOMAIN s.told |-> s.told[e] + Summaries(answer, e)],
              !.edges = @ \union {answer[i].edge : i \in Related(answer)}]

\* Two relationships of one id do not go into the store.
Storable(s, answer) ==
    \A i \in Related(answer) :
        /\ \A r \in s.edges : r.id # answer[i].edge.id
        /\ \A j \in Related(answer) \ {i} : answer[j].edge.id # answer[i].edge.id

\* semantic_pass.  It changes nothing when there is no work, nothing is admitted, or the
\* transaction fails.
Pass ==
    /\ \E item \in WorkItems, answer \in Proposals :
        /\ Admitted(answer) # {} /\ Storable(atlas, answer)
        /\ atlas' = Applied(atlas, answer)
    /\ \A e \in DOMAIN atlas'.told : atlas'.told[e] <= MaxSummaries
    /\ UNCHANGED <<source, without>>

LaneNext == Change \/ Reconcile \/ Reevaluate \/ Pass

LaneSpec == LaneInit /\ [][LaneNext]_laneVars

-----------------------------------------------------------------------------
FactsOf(s) == [id |-> s.id, entities |-> DOMAIN s.told,
               observed |-> {r \in s.edges : r.plane = "observed"}]

Added == atlas.edges \ without.edges

\* Whatever a partner proposes, and however passes, reconciliations and evaluations
\* alternate, the store has the entities and the observed relationships that it would have
\* without the lane; and the Green, while no relationship of the lane is both required and
\* unproven.  What has a protected decision gets no summary and no relationship
\* (context-model/src/lane.rs: "running it, or not running it, leaves the deterministic
\* picture identical").
LaneLeavesFactsAlone ==
    /\ FactsOf(atlas) = FactsOf(without)
    /\ (\A r \in Added : r.required => r.code = Proven) => atlas.green = without.green
    /\ \A e \in Protected : atlas.told[e] = 0 /\ \A r \in Added : r.from # e

\* What does not hold.  lane.rs: "an edge (admission has already guaranteed it is on the
\* inferred plane)".
LaneOnlyInfers == \A r \in Added : r.plane = "inferred"
=============================================================================
