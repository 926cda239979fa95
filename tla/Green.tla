-------------------------------- MODULE Green --------------------------------
(***************************************************************************)
(* Green (context-core/src/green/*.rs, atlas/hierarchy.rs, sockets.rs):    *)
(* the assessment of every entity of a snapshot from its own evidence, its *)
(* required relationships and sockets, its open contradictions and the     *)
(* codes of its children.  evaluate_snapshot assesses all entities in one  *)
(* pass, coarse scales last; reconverge re-assesses what a change of       *)
(* evidence can reach, with a work-list.  Both loops are modelled an       *)
(* iteration at a time.                                                    *)
(*                                                                         *)
(* A code is a number, so that the weakest of two is the smaller one.      *)
(* Reasons, confidences and the text of evidence are left out.             *)
(***************************************************************************)
EXTENDS Integers, Sequences, FiniteSets

CONSTANTS Entities,     \* identities
          Facts,        \* what an entity says: its evidence, edges, sockets, conflicts
          Floor,        \* scale -> axis -> the proof the policy asks for
          Shapes,       \* the trees a snapshot can have, see Hierarchical
          Positions,    \* the orders its entities can be listed in
          MaxChanges    \* how often evidence changes

Red     == 0
Unknown == 1
Yellow  == 2
Sound   == 3            \* GreenCode::Green
Codes   == {Red, Unknown, Yellow, Sound}

Axes == {"content", "structure", "integration", "verification", "freshness",
         "coherence"}

(* ScopeScale and its ranks. *)
Scales == 0..4
Universe == 0
Galaxy   == 1
System   == 2
Planet   == 3
Moon     == 4

NoParent == "no parent"
Unassessed == 4         \* the entity's green is None

(* A shape gives every entity a scale and a parent or none; a position is  *)
(* an index into the snapshot's list.                                      *)
ASSUME ShapesAssumption ==
    /\ NoParent \notin Entities
    /\ Shapes \subseteq [Entities -> [scale : Scales, parent : Entities \cup {NoParent}]]
    /\ Positions \subseteq [Entities -> Nat]
    /\ \A at \in Positions : \A e, f \in Entities : at[e] = at[f] => e = f

Weakest(codes) == CHOOSE c \in codes : \A d \in codes : c <= d

-----------------------------------------------------------------------------
(* One entity.  An item of evidence is fresh when its snapshot is the      *)
(* active one.  Passing evidence counts when it is strong enough and not a *)
(* model's.                                                                *)

Qualifies(e, floor) ==
    e.outcome = "pass" /\ e.proof >= floor /\ ~e.inferred

CodeFromEvidence(evidence, floor) ==
    LET fresh == {e \in evidence : e.fresh}
    IN  IF \E e \in fresh : e.outcome = "fail" THEN Red
        ELSE IF \E e \in fresh : e.outcome = "warning" THEN Yellow
        ELSE IF \E e \in fresh : Qualifies(e, floor) THEN Sound
        ELSE Unknown

(* What matching writes onto a required socket, given the sockets that     *)
(* provide its name: it never chooses among several.                       *)
ResolveAgainst(candidates) ==
    CASE candidates = {} -> "no_match"
      [] Cardinality(candidates) = 1 -> "unconfirmed"
      [] OTHER -> "ambiguous"

(* A required socket's code: an optional one contributes nothing, nor does *)
(* a fit that was confirmed.                                               *)
SocketCodes(sockets) ==
    LET blocking == {s.resolution : s \in {t \in sockets : ~t.optional}}
    IN  (IF "unresolved" \in blocking THEN {Unknown} ELSE {})
          \cup (IF blocking \cap {"no_match", "rejected"} # {} THEN {Red} ELSE {})
          \cup (IF blocking \cap {"ambiguous", "unconfirmed"} # {} THEN {Yellow} ELSE {})

(* An open contradiction darkens coherence by its severity. *)
CoherenceCodes(conflicts) ==
    {c.severity : c \in {d \in conflicts : d.open}}

(* An axis of the assessment of an entity of a scale with the facts f,     *)
(* whose children have the codes states.                                   *)
AxisCode(axis, f, scale, states) ==
    LET floor == Floor[scale][axis]
        own == IF axis = "freshness"
               THEN (IF f.fresh THEN Sound ELSE Unknown)
               ELSE CodeFromEvidence({e \in f.evidence : e.axis = axis}, floor)
        others ==
            CASE axis = "structure" -> states
              [] axis = "integration" ->
                    {CodeFromEvidence(edge, floor) : edge \in f.required}
                      \cup SocketCodes(f.sockets)
              [] axis = "coherence" -> CoherenceCodes(f.conflicts)
              [] OTHER -> {}
    IN  Weakest({own} \cup others)

(* The entity's overall code. *)
EvaluateEntity(f, scale, states) ==
    Weakest({AxisCode(axis, f, scale, states) : axis \in Axes})

-----------------------------------------------------------------------------
(* The tree.  A shape gives every entity its scale and parent.             *)

Allowed(above, below) ==
    <<above, below>> \in {<<Universe, Galaxy>>, <<Galaxy, System>>, <<Galaxy, Planet>>,
                          <<System, System>>, <<System, Planet>>, <<Planet, Moon>>,
                          <<Moon, Moon>>}

Roots(tree) ==
    {e \in Entities : tree[e].scale = Universe /\ tree[e].parent = NoParent}

(* An entity is its own ancestor when the chain of parents comes back: the *)
(* set is closed under taking parents and holds no root.                   *)
Cyclic(tree) ==
    \E S \in SUBSET Entities : S # {} /\ \A e \in S : tree[e].parent \in S

Hierarchical(tree) ==
    /\ Cardinality(Roots(tree)) = 1
    /\ \A e \in Entities \ Roots(tree) :
          /\ tree[e].parent \in Entities
          /\ Allowed(tree[tree[e].parent].scale, tree[e].scale)
    /\ ~Cyclic(tree)

Children(tree, e) == {c \in Entities : tree[c].parent = e}

(* The children's codes a loop sees: a child without a code is left out.   *)
StatesOf(tree, e, codes) ==
    {codes[c] : c \in {d \in Children(tree, e) : codes[d] # Unassessed}}

CodeIn(tree, said, e, codes) ==
    EvaluateEntity(said[e], tree[e].scale, StatesOf(tree, e, codes))

-----------------------------------------------------------------------------
VARIABLES shape,      \* the snapshot's scales and parents
          position,   \* where the snapshot lists each entity
          facts,      \* what each entity says of itself
          overall,    \* the code of each entity's assessment, if it has one
          mode,       \* which loop runs
          pending,    \* evaluate_snapshot: entities still to assess
          table,      \* the codes the running loop has computed or started from
          queue,      \* reconverge: the work-list
          changes     \* how often evidence changed so far

greenVars == <<shape, position, facts, overall, mode, pending, table, queue, changes>>

CodeAt(e, codes) == CodeIn(shape, facts, e, codes)

(* evaluate_snapshot sorts by scale, finest first, and the sort is stable: *)
(* entities of one scale stay in the order in which the snapshot has them. *)
Before(e, f) ==
    \/ shape[e].scale > shape[f].scale
    \/ shape[e].scale = shape[f].scale /\ position[e] <= position[f]

GreenInit ==
    /\ shape \in Shapes
    /\ position \in Positions
    /\ facts \in [Entities -> Facts]
    /\ overall = [e \in Entities |-> Unassessed]
    /\ mode = "idle"
    /\ pending = {}
    /\ table = overall
    /\ queue = <<>>
    /\ changes = 0

(* evaluate_snapshot is called; a tree that does not validate is an error. *)
Evaluate ==
    /\ mode = "idle"
    /\ Hierarchical(shape)
    /\ mode' = "evaluating"
    /\ pending' = Entities
    /\ table' = [e \in Entities |-> Unassessed]
    /\ UNCHANGED <<shape, position, facts, overall, queue, changes>>

Assess ==
    /\ mode = "evaluating"
    /\ \E e \in pending :
          /\ \A f \in pending : Before(e, f)
          /\ table' = [table EXCEPT ![e] = CodeAt(e, table)]
          /\ pending' = pending \ {e}
    /\ UNCHANGED <<shape, position, facts, overall, mode, queue, changes>>

(* Every entity has been assessed: the snapshot takes the assessments. *)
Evaluated ==
    /\ mode = "evaluating"
    /\ pending = {}
    /\ overall' = table
    /\ mode' = "idle"
    /\ UNCHANGED <<shape, position, facts, pending, table, queue, changes>>

(* The evidence of some entities changes and reconverge is called with     *)
(* them, in any order.  The snapshot was evaluated before.                 *)
Record ==
    /\ mode = "idle"
    /\ changes < MaxChanges
    /\ \A e \in Entities : overall[e] # Unassessed
    /\ \E first, second \in Entities, f, g \in Facts :
          /\ facts' = [facts EXCEPT ![first] = f, ![second] = g]
          /\ queue' = IF first = second THEN <<first>> ELSE <<first, second>>
    /\ mode' = "converging"
    /\ table' = overall
    /\ changes' = changes + 1
    /\ UNCHANGED <<shape, position, overall, pending>>

(* A mutant: only a code that gets worse is passed on to the parent. *)
FollowWorse(e, code, rest) ==
    IF code # table[e] /\ shape[e].parent # NoParent /\ (table[e] = Sound \/ code = Red)
    THEN Append(rest, shape[e].parent) ELSE rest

(* Only a code that moved is passed on to the parent. *)
Follow(e, code, rest) ==
    IF code # table[e] /\ shape[e].parent # NoParent
    THEN Append(rest, shape[e].parent) ELSE rest

Reassess ==
    /\ mode = "converging"
    /\ queue # <<>>
    /\ LET e == Head(queue)
           code == CodeAt(e, table)
       IN  /\ table' = [table EXCEPT ![e] = code]
           /\ queue' = Follow(e, code, Tail(queue))
    /\ UNCHANGED <<shape, position, facts, overall, mode, pending, changes>>

Reconverged ==
    /\ mode = "converging"
    /\ queue = <<>>
    /\ overall' = table
    /\ mode' = "idle"
    /\ UNCHANGED <<shape, position, facts, pending, table, queue, changes>>

GreenNext == Evaluate \/ Assess \/ Evaluated \/ Record \/ Reassess \/ Reconverged

GreenSpec == GreenInit /\ [][GreenNext]_greenVars

-----------------------------------------------------------------------------
Assessed == mode = "idle" /\ \A e \in Entities : overall[e] # Unassessed

(* The codes without those of entities that evaluate_snapshot takes after  *)
(* e.  A file is taken before its declarations, which are of its scale and *)
(* come after it in every snapshot that is made of the project.            *)
Early(e, codes) == [c \in Entities |-> IF Before(c, e) THEN codes[c] ELSE Unassessed]

(* evaluate_snapshot and reconverge both end with no stale code: every     *)
(* entity has the code that follows from its facts and from the codes that *)
(* its children have now, whichever entities changed, in whatever order    *)
(* they were given and however the snapshot lists its entities.  The one   *)
(* liberty is that an assessment may pass over children of the entity's    *)
(* own scale that are listed after it, and then all of them at once        *)
(* (green/evaluator.rs, green/incremental.rs).                             *)
RollUpIsCurrent ==
    Assessed => \A e \in Entities :
        overall[e] \in {CodeAt(e, overall), CodeAt(e, Early(e, overall))}

(* incremental.rs:10: the result of reconverge is identical to a full      *)
(* re-evaluation, which passes over later children always.  No run checks  *)
(* it, TLC shows it violated.                                              *)
ReconvergeIsEvaluation ==
    Assessed => \A e \in Entities : overall[e] = CodeAt(e, Early(e, overall))

(* Nor that every child is folded into its parent, which is violated too.  *)
RollUpIgnoresOrder == Assessed => \A e \in Entities : overall[e] = CodeAt(e, overall)
==============================================================================
