------------------------------- MODULE Orbit -------------------------------
(***************************************************************************)
(* The Orbit compiler (context-core/src/orbit): from a snapshot and a      *)
(* request it selects entities, their ancestors (the spine) and their      *)
(* relationships, and trims the packet to the token budget an item at a    *)
(* time.  Entities are numbers in the order of their identities.  Reasons, *)
(* comparisons and the text of a packet are left out; what an item costs   *)
(* is a parameter, so the few tokens by which the digits of an estimate    *)
(* change the next estimate are left out too.                              *)
(***************************************************************************)
EXTENDS Integers, Sequences, FiniteSets, FiniteSetsExt

CONSTANTS Nodes,              \* identities, as numbers
          Galaxies,           \* snapshots: scale, parent, links, first and costs
          OrbitRequests,      \* what can be asked
          MaxStarts,          \* 8 in the code
          MaxZoomExpansion,   \* 24 in the code
          Envelope            \* 120 in the code

VARIABLES galaxy,    \* the snapshot
          request,
          gathered,  \* the packet before the budget is enforced
          packet,    \* the packet
          omitted,   \* omission_counts
          done

orbitVars == <<galaxy, request, gathered, packet, omitted, done>>

NoNode == 0

ASSUME NodesAssumption == IsFiniteSet(Nodes) /\ Nodes \subseteq Nat \ {NoNode}
ASSUME GalaxiesAssumption == \A g \in Galaxies : g.scale \in [Nodes -> Nat]
ASSUME RequestsAssumption == \A r \in OrbitRequests : r.depth \in Nat

(* ScopeScale's ranks; Adaptive asks for no scale. *)
PlanetScale == 3
Adaptive    == 5

Ancestors(g, e) ==
    LET above[n \in Nodes] ==
            IF g.parent[n] = NoNode THEN {} ELSE {g.parent[n]} \cup above[g.parent[n]]
    IN  above[e]

Descendants(g, e) == {d \in Nodes : e \in Ancestors(g, d)}

(* ModuleMap: relationships of either direction, inferred ones if asked. *)
LinksOf(g, r) == {l \in g.links : r.inferred \/ ~l.inferred}

Neighbours(g, r, e) ==
    {l.to : l \in {m \in LinksOf(g, r) : m.from = e}}
      \cup {l.from : l \in {m \in LinksOf(g, r) : m.to = e}}

(* neighbourhood_with_depth: what is reached in at most n links. *)
Within(g, r, roots, n) ==
    LET reach[i \in 0..n] ==
            IF i = 0 THEN roots
            ELSE reach[i - 1] \cup UNION {Neighbours(g, r, e) : e \in reach[i - 1]}
    IN  reach[n]

Depth(g, r, roots, e) ==
    CHOOSE n \in 0..r.depth :
        /\ e \in Within(g, r, roots, n)
        /\ \A m \in 0..(n - 1) : e \notin Within(g, r, roots, m)

(* choose_starts: the targets, or the entities that the words of the task  *)
(* match best.                                                             *)
Better(r, e, f) ==
    \/ r.matches[e] > r.matches[f]
    \/ r.matches[e] = r.matches[f] /\ e < f

ChooseStarts(r) ==
    IF r.compare \/ r.targets # <<>> THEN {r.targets[i] : i \in DOMAIN r.targets}
    ELSE LET found == {e \in Nodes : r.matches[e] > 0}
         IN  {e \in found : Cardinality({f \in found : Better(r, f, e)}) < MaxStarts}

(* zoom_roots: up to the outermost ancestor of the scale, down to all      *)
(* descendants of it unless they are too many.                             *)
Zoomed(g, e, target) ==
    LET above == {a \in Ancestors(g, e) : g.scale[a] = target}
        below == {d \in Descendants(g, e) : g.scale[d] = target}
    IN  IF target = Adaptive \/ g.scale[e] = target THEN {e}
        ELSE IF g.scale[e] > target THEN {a \in above : Ancestors(g, a) \cap above = {}}
        ELSE IF Cardinality(below) <= MaxZoomExpansion THEN below
        ELSE {e}

OrbitRoots(g, r) ==
    LET roots == UNION {Zoomed(g, e, r.scale) : e \in ChooseStarts(r)}
    IN  IF roots = {} THEN {g.first} ELSE roots

(* immediate_scale_contents. *)
Contents(g, e) ==
    IF g.scale[e] < PlanetScale THEN {c \in Nodes : g.parent[c] = e}
    ELSE IF g.scale[e] = PlanetScale THEN Descendants(g, e)
    ELSE {}

Item(mandatory, score) == [mandatory |-> mandatory, score |-> score]

(* compile_orbit, up to enforce_budget: the first rule that selects an     *)
(* entity gives its score.  Only the first two targets are looked at, and  *)
(* what the snapshot does not have is passed over.                         *)
Selected(g, r) ==
    LET roots == OrbitRoots(g, r)
        contents == UNION {Contents(g, e) : e \in roots}
        near == Within(g, r, roots, r.depth)
        targets == {r.targets[i] : i \in DOMAIN r.targets \cap {1, 2}}
        known == Nodes \ r.exclusions
        spine == known \cap UNION {Ancestors(g, e) : e \in roots}
        chosen == known \cap (roots \cup contents \cup near \cup targets)
        item(e) ==
            IF e \notin chosen THEN Item(FALSE, 300)
            ELSE IF e \in roots THEN Item(TRUE, 1000)
            ELSE IF e \in contents THEN Item(FALSE, 400)
            ELSE IF e \in near THEN Item(FALSE, 250 - 20 * Depth(g, r, roots, e))
            ELSE Item(TRUE, 1000)
        reached == Within(g, r, roots, r.depth - 1)
    IN  [selected |-> [e \in chosen \cup spine |-> item(e)],
         spine |-> spine,
         relationships |-> IF r.depth = 0 THEN {}
                           ELSE {l \in LinksOf(g, r) : {l.from, l.to} \cap reached # {}}]

-----------------------------------------------------------------------------
(* enforce_budget.                                                         *)

(* settle_estimates. *)
Total(g, p) ==
    Envelope
      + MapThenSumSet(LAMBDA e : g.cost[e], DOMAIN p.selected)
      + MapThenSumSet(LAMBDA e : g.cost[e], p.spine)
      + MapThenSumSet(LAMBDA l : l.cost, p.relationships)

Fits(g, p, r) == Total(g, p) <= r.budget

(* The supporting items of a packet; the others are its core. *)
Supporting(p) == {e \in DOMAIN p.selected : ~p.selected[e].mandatory}

(* The item of least score, the first of them. *)
LeastRelevant(p, items) ==
    CHOOSE e \in items : \A f \in items :
        \/ p.selected[e].score < p.selected[f].score
        \/ p.selected[e].score = p.selected[f].score /\ e <= f

(* The coarsest entity, the first of them. *)
Coarsest(g, items) ==
    CHOOSE e \in items : \A f \in items :
        \/ g.scale[e] < g.scale[f]
        \/ g.scale[e] = g.scale[f] /\ e <= f

WithoutItem(p, e) ==
    [p EXCEPT !.selected = [f \in DOMAIN p.selected \ {e} |-> p.selected[f]]]

(* What is left over once an entity has gone: a relationship stays while   *)
(* both its ends do.                                                       *)
Retained(p) ==
    LET held == DOMAIN p.selected \cup p.spine
    IN  [p EXCEPT !.relationships = {l \in @ : l.from \in held /\ l.to \in held}]

(* category_for. *)
Category(g, e) ==
    CASE g.scale[e] = 4 -> "moon"
      [] g.scale[e] = 3 -> "planet"
      [] g.scale[e] = 2 -> "system"
      [] OTHER -> "entity"

Categories == {"moon", "planet", "system", "entity", "spine"}

-----------------------------------------------------------------------------
OrbitInit ==
    /\ galaxy \in Galaxies
    /\ request \in OrbitRequests
    /\ gathered = Selected(galaxy, request)
    /\ packet = gathered
    /\ omitted = [c \in Categories |-> 0]
    /\ done = FALSE

Over == ~done /\ ~Fits(galaxy, packet, request)

Omit(category) == omitted' = [omitted EXCEPT ![category] = @ + 1]

(* First the supporting items. *)
TrimSupporting ==
    /\ Over
    /\ Supporting(packet) # {}
    /\ LET e == LeastRelevant(packet, Supporting(packet))
       IN  /\ packet' = Retained(WithoutItem(packet, e))
           /\ Omit(Category(galaxy, e))
    /\ UNCHANGED <<galaxy, request, gathered, done>>

(* Then the spine. *)
TrimSpine ==
    /\ Over
    /\ Supporting(packet) = {}
    /\ packet.spine # {}
    /\ packet' = Retained([packet EXCEPT !.spine = @ \ {Coarsest(galaxy, @)}])
    /\ Omit("spine")
    /\ UNCHANGED <<galaxy, request, gathered, done>>

(* A mutant: the core may be emptied. *)
CoreOfAny(p) == DOMAIN p.selected # {}

(* At least one item of the core is kept. *)
CoreCanShrink(p) == Cardinality(DOMAIN p.selected) > 1

(* Then the core. *)
TrimCore ==
    /\ Over
    /\ Supporting(packet) = {}
    /\ packet.spine = {}
    /\ CoreCanShrink(packet)
    /\ LET e == LeastRelevant(packet, DOMAIN packet.selected)
       IN  /\ packet' = Retained(WithoutItem(packet, e))
           /\ Omit(Category(galaxy, e))
    /\ UNCHANGED <<galaxy, request, gathered, done>>

(* The packet fits, or nothing more can be trimmed. *)
Finish ==
    /\ ~done
    /\ \/ Fits(galaxy, packet, request)
       \/ Supporting(packet) = {} /\ packet.spine = {} /\ ~CoreCanShrink(packet)
    /\ done' = TRUE
    /\ UNCHANGED <<galaxy, request, gathered, packet, omitted>>

OrbitNext == TrimSupporting \/ TrimSpine \/ TrimCore \/ Finish

OrbitSpec == OrbitInit /\ [][OrbitNext]_orbitVars

-----------------------------------------------------------------------------
Dropped == DOMAIN gathered.selected \ DOMAIN packet.selected

(* A packet is within its budget, or it is down to one entity; it is not   *)
(* empty when there was a core.  Whatever was dropped is no more relevant  *)
(* than anything of its kind that was kept, the core is dropped after the  *)
(* supporting items and the spine, once something was dropped every        *)
(* relationship has both its ends in the packet, and the counts tell all   *)
(* that is missing (budget.rs).                                            *)
BudgetHolds ==
    done =>
        /\ \/ Fits(galaxy, packet, request)
           \/ packet.spine = {} /\ Cardinality(DOMAIN packet.selected) <= 1
        /\ DOMAIN gathered.selected # Supporting(gathered) => DOMAIN packet.selected # {}
        /\ \A d \in Dropped, k \in DOMAIN packet.selected :
              \/ gathered.selected[k].mandatory /\ ~gathered.selected[d].mandatory
              \/ /\ gathered.selected[k].mandatory = gathered.selected[d].mandatory
                 /\ gathered.selected[k].score >= gathered.selected[d].score
        /\ packet.spine # gathered.spine => Supporting(packet) = {}
        /\ (\E d \in Dropped : gathered.selected[d].mandatory) => packet.spine = {}
        /\ packet.selected # gathered.selected =>
              \A l \in packet.relationships :
                  {l.from, l.to} \subseteq DOMAIN packet.selected \cup packet.spine
        /\ omitted["moon"] + omitted["planet"] + omitted["system"] + omitted["entity"]
              = Cardinality(Dropped)
        /\ omitted["spine"] = Cardinality(gathered.spine \ packet.spine)
=============================================================================
