-------------------------- MODULE CommandLineProofs --------------------------
(***************************************************************************)
(* Proofs about the parts of the system that share no state with one       *)
(* another, which MCCommandLine checks together.                           *)
(*                                                                         *)
(* Green: both loops end with codes that follow from the codes of the      *)
(* children of now, of all of them or of those listed early enough, for    *)
(* every tree, every listing and every sequence of changes.                *)
(* Orbit: the order in which a packet is trimmed is an invariant from      *)
(* which it follows what a packet that is done has kept.                   *)
(* The semantic lane: the store and the store without the lane differ in   *)
(* summaries and in relationships that admission lets through, and         *)
(* nowhere else.                                                           *)
(* Permissions: a denial stands until it expires or is superseded itself.  *)
(* Supervision: an answer is kept true by what launchd and systemd do and  *)
(* not only by what the commands do.                                       *)
(* ATLAS.idx: what parsing a file gives back, attribute by attribute; that *)
(* writing it again gives the same file; and that a rebuild keeps what the *)
(* format can carry.                                                       *)
(***************************************************************************)
EXTENDS Green, Orbit, SemanticLane, Permissions, Supervision, IdxCodec,
        FiniteSetTheorems, WellFoundedInduction, TLAPS

-----------------------------------------------------------------------------
(* Green.                                                                  *)

Member(e, s) == \E i \in 1..Len(s) : s[i] = e

(* The entity's code is what its facts and its children's codes give, all  *)
(* of them or those of the children that are assessed before it.           *)
AsEvaluated(e, codes) == codes[e] = CodeAt(e, Early(e, codes))
Current(e, codes) == codes[e] = CodeAt(e, codes) \/ AsEvaluated(e, codes)

IsTable(codes) == codes = [e \in Entities |-> codes[e]]

(* What is assessed comes before what is not, and nothing else has a code. *)
Evaluating ==
    mode = "evaluating" =>
        /\ Hierarchical(shape)
        /\ pending \subseteq Entities
        /\ \A d \in Entities \ pending, e \in pending : Before(d, e)
        /\ \A e \in pending : table[e] = Unassessed
        /\ \A d \in Entities \ pending : AsEvaluated(d, table)

Converging ==
    mode = "converging" =>
        /\ Hierarchical(shape)
        /\ queue \in Seq(Entities)
        /\ \A e \in Entities : Current(e, table) \/ Member(e, queue)

Shaped ==
    /\ shape \in [Entities -> [scale : Scales, parent : Entities \cup {NoParent}]]
    /\ position \in [Entities -> Nat]
    /\ \A e, f \in Entities : position[e] = position[f] => e = f
    /\ mode \in {"idle", "evaluating", "converging"}
    /\ IsTable(facts)
    /\ IsTable(table)
    /\ IsTable(overall)

(* Only a tree that validates is ever assessed. *)
Validated ==
    Entities # {} /\ (\A e \in Entities : overall[e] # Unassessed) => Hierarchical(shape)

GreenInv == Shaped /\ Validated /\ Evaluating /\ Converging /\ RollUpIsCurrent

-----------------------------------------------------------------------------
(* A code depends on the codes of the children alone. *)
LEMMA CodeOfChildren ==
    ASSUME NEW tree, NEW said, NEW e, NEW s, NEW t,
           \A c \in Children(tree, e) : s[c] = t[c]
    PROVE  CodeIn(tree, said, e, s) = CodeIn(tree, said, e, t)
<1>1. StatesOf(tree, e, s) = StatesOf(tree, e, t)
  BY DEF StatesOf
<1> QED BY <1>1 DEF CodeIn

(* Nor does what an evaluation saw depend on the codes of others. *)
LEMMA EarlyOfChildren ==
    ASSUME NEW e, NEW s, NEW t, \A c \in Children(shape, e) : s[c] = t[c]
    PROVE  CodeAt(e, s) = CodeAt(e, t) /\ CodeAt(e, Early(e, s)) = CodeAt(e, Early(e, t))
<1>1. \A c \in Children(shape, e) : Early(e, s)[c] = Early(e, t)[c]
  BY DEF Early, Children
<1> HIDE DEF Early
<1> QED BY <1>1, CodeOfChildren DEF CodeAt

(* Of two entities one is assessed before the other. *)
LEMMA OneBefore ==
    ASSUME Shaped, NEW e \in Entities, NEW f \in Entities, Before(e, f), Before(f, e)
    PROVE  e = f
<1>1. shape[e].scale \in Int /\ shape[f].scale \in Int /\ position[e] \in Nat /\ position[f] \in Nat
  BY DEF Shaped, Scales
<1>2. position[e] = position[f]
  BY <1>1 DEF Before
<1> QED BY <1>2 DEF Shaped

(* Nothing is its own parent. *)
LEMMA NotOwnParent ==
    ASSUME Hierarchical(shape), NEW e \in Entities
    PROVE  shape[e].parent # e
<1>1. ASSUME shape[e].parent = e PROVE Cyclic(shape)
  <2>1. {e} \in SUBSET Entities /\ {e} # {} /\ \A d \in {e} : shape[d].parent \in {e}
    BY <1>1
  <2> QED BY <2>1 DEF Cyclic
<1> QED BY <1>1 DEF Hierarchical

-----------------------------------------------------------------------------
LEMMA GreenInvInit == GreenInit => GreenInv
<1> SUFFICES ASSUME GreenInit PROVE GreenInv
  OBVIOUS
<1>1. Shaped
  BY ShapesAssumption DEF GreenInit, Shaped, IsTable
<1>2. Validated /\ RollUpIsCurrent
  BY DEF GreenInit, Validated, RollUpIsCurrent, Assessed
<1>3. Evaluating /\ Converging
  BY DEF GreenInit, Evaluating, Converging
<1> QED BY <1>1, <1>2, <1>3 DEF GreenInv

LEMMA EvaluateKeeps == GreenInv /\ Evaluate => GreenInv'
<1> SUFFICES ASSUME GreenInv, Evaluate PROVE GreenInv'
  OBVIOUS
<1>1. Shaped'
  BY DEF GreenInv, Evaluate, Shaped, IsTable
<1>2. Validated' /\ RollUpIsCurrent' /\ Converging'
  BY DEF GreenInv, Evaluate, Validated, RollUpIsCurrent, Assessed, Converging
<1>3. Evaluating'
  BY DEF Evaluate, Evaluating
<1> QED BY <1>1, <1>2, <1>3 DEF GreenInv

LEMMA AssessKeeps == GreenInv /\ Assess => GreenInv'
<1> SUFFICES ASSUME GreenInv, Assess PROVE GreenInv'
  OBVIOUS
<1>a. mode = "evaluating" /\ mode' = "evaluating"
  BY DEF Assess
<1>b. Hierarchical(shape) /\ pending \subseteq Entities
  BY <1>a DEF GreenInv, Evaluating
<1>u. UNCHANGED <<shape, position, facts, overall, mode, queue>>
  BY DEF Assess
<1>1. PICK e \in pending :
         /\ \A f \in pending : Before(e, f)
         /\ table' = [table EXCEPT ![e] = CodeAt(e, table)]
         /\ pending' = pending \ {e}
  BY DEF Assess
<1>2. Shaped'
  BY <1>1, <1>u DEF GreenInv, Shaped, IsTable
<1>3. Validated' /\ RollUpIsCurrent' /\ Converging'
  BY <1>a, <1>u DEF GreenInv, Validated, RollUpIsCurrent, Assessed, Converging
<1>4. \A d \in Entities \ pending', f \in pending' : Before(d, f)'
  BY <1>1, <1>a, <1>u DEF GreenInv, Evaluating, Before
<1>7. \A f \in pending' : table'[f] = Unassessed
  BY <1>1, <1>a DEF GreenInv, Evaluating, Shaped, IsTable
<1>8. \A c \in Entities \ {e} : table'[c] = table[c]
  BY <1>1 DEF GreenInv, Shaped, IsTable
<1>5. ASSUME NEW d \in Entities \ pending' PROVE AsEvaluated(d, table)'
  <2>1. CASE d = e
    <3>1. ASSUME NEW c \in Children(shape, e) PROVE table[c] = Early(e, table')[c]
      <4>1. c \in Entities /\ c # e
        BY <1>1, <1>b, NotOwnParent DEF Children
      <4>2. CASE Before(c, e)
        BY <4>1, <4>2, <1>8 DEF Early
      <4>3. CASE ~Before(c, e)
        BY <4>1, <4>3, <1>1, <1>a DEF Early, GreenInv, Evaluating
      <4> QED BY <4>2, <4>3
    <3> DEFINE seen == Early(e, table')
    <3>2. \A c \in Children(shape, e) : table[c] = seen[c]
      BY <3>1
    <3> HIDE DEF seen
    <3>3. CodeAt(e, table) = CodeAt(e, seen)
      BY <3>2, CodeOfChildren DEF CodeAt
    <3>4. table'[e] = CodeAt(e, seen)
      BY <3>3, <1>1, <1>b DEF GreenInv, Shaped, IsTable
    <3> QED BY <3>4, <2>1, <1>u DEF AsEvaluated, CodeAt, Early, Before, seen
  <2>2. CASE d # e
    <3>1. d \in Entities \ pending /\ Before(d, e)
      BY <2>2, <1>1, <1>a DEF GreenInv, Evaluating
    <3>2. ~Before(e, d)
      BY <3>1, <2>2, <1>1, <1>b, OneBefore DEF GreenInv
    <3>3. Early(d, table') = Early(d, table)
      BY <3>2, <1>8 DEF Early
    <3>4. table'[d] = CodeAt(d, Early(d, table))
      BY <3>1, <2>2, <1>8, <1>a DEF GreenInv, Evaluating, AsEvaluated
    <3>5. table'[d] = CodeAt(d, Early(d, table'))
      BY <3>3, <3>4
    <3> QED BY <3>5, <1>u DEF AsEvaluated, CodeAt, Early, Before
  <2> QED BY <2>1, <2>2
<1>6. Evaluating'
  BY <1>4, <1>5, <1>7, <1>b, <1>u, <1>1 DEF Evaluating
<1> QED BY <1>2, <1>3, <1>6 DEF GreenInv

LEMMA EvaluatedKeeps == GreenInv /\ Evaluated => GreenInv'
<1> SUFFICES ASSUME GreenInv, Evaluated PROVE GreenInv'
  OBVIOUS
<1>1. Shaped'
  BY DEF GreenInv, Evaluated, Shaped, IsTable
<1>2. Validated'
  BY DEF GreenInv, Evaluated, Validated, Evaluating
<1>3. Evaluating' /\ Converging'
  BY DEF Evaluated, Evaluating, Converging
<1>4. RollUpIsCurrent'
  BY DEF GreenInv, Evaluated, Evaluating, RollUpIsCurrent, AsEvaluated, CodeAt, Early, Before
<1> QED BY <1>1, <1>2, <1>3, <1>4 DEF GreenInv

LEMMA RecordKeeps == GreenInv /\ Record => GreenInv'
<1> SUFFICES ASSUME GreenInv, Record PROVE GreenInv'
  OBVIOUS
<1>u. UNCHANGED <<shape, position, overall, pending>> /\ table' = overall /\ mode' = "converging"
  BY DEF Record
<1>1. PICK first \in Entities, second \in Entities, f \in Facts, g \in Facts :
         /\ facts' = [facts EXCEPT ![first] = f, ![second] = g]
         /\ queue' = IF first = second THEN <<first>> ELSE <<first, second>>
  BY DEF Record
<1>2. Assessed /\ Hierarchical(shape)
  BY <1>1 DEF Record, Assessed, GreenInv, Validated
<1>3. Shaped'
  BY <1>1, <1>u DEF GreenInv, Shaped, IsTable
<1>4. Validated' /\ RollUpIsCurrent' /\ Evaluating'
  BY <1>u DEF GreenInv, Validated, RollUpIsCurrent, Assessed, Evaluating
<1>5. queue' \in Seq(Entities) /\ Member(first, queue') /\ Member(second, queue')
  BY <1>1 DEF Member
<1>6. ASSUME NEW e \in Entities PROVE Current(e, table)' \/ Member(e, queue')
  <2>1. CASE e = first \/ e = second
    BY <2>1, <1>5
  <2>2. CASE e # first /\ e # second
    <3>1. facts'[e] = facts[e]
      BY <2>2, <1>1 DEF GreenInv, Shaped, IsTable
    <3>2. Current(e, overall)
      BY <1>2 DEF GreenInv, RollUpIsCurrent, Current, AsEvaluated
    <3> QED BY <3>1, <3>2, <1>u DEF Current, AsEvaluated, CodeAt, CodeIn, Early, Before
  <2> QED BY <2>1, <2>2
<1>7. Converging'
  BY <1>2, <1>5, <1>6, <1>u DEF Converging, Member
<1> QED BY <1>3, <1>4, <1>7 DEF GreenInv

LEMMA ReassessKeeps == GreenInv /\ Reassess => GreenInv'
<1> SUFFICES ASSUME GreenInv, Reassess PROVE GreenInv'
  OBVIOUS
<1> DEFINE e == Head(queue)
           code == CodeAt(e, table)
<1>u. UNCHANGED <<shape, position, facts, overall, pending>>
  BY DEF Reassess
<1>a. mode = "converging" /\ mode' = "converging" /\ queue # <<>>
  BY DEF Reassess
<1>b. Hierarchical(shape) /\ queue \in Seq(Entities) /\ e \in Entities
  BY <1>a DEF GreenInv, Converging
<1>1. table' = [table EXCEPT ![e] = code] /\ queue' = Follow(e, code, Tail(queue))
  BY DEF Reassess
<1>2. Shaped'
  BY <1>1, <1>u, <1>a DEF GreenInv, Shaped, IsTable
<1>3. Validated' /\ RollUpIsCurrent' /\ Evaluating'
  BY <1>a, <1>u DEF GreenInv, Validated, RollUpIsCurrent, Assessed, Evaluating
<1>p. shape[e].parent \in Entities \cup {NoParent}
  BY <1>b DEF GreenInv, Shaped
<1>4. queue' \in Seq(Entities)
  <2>1. Tail(queue) \in Seq(Entities)
    BY <1>b, <1>a
  <2> QED BY <2>1, <1>1, <1>p DEF Follow
<1>5. \A d : Member(d, queue) => d = e \/ Member(d, queue')
  <2> SUFFICES ASSUME NEW d, NEW i \in 1..Len(queue), queue[i] = d, d # e PROVE Member(d, queue')
    BY DEF Member
  <2>1. i - 1 \in 1..Len(Tail(queue)) /\ Tail(queue)[i - 1] = d
    BY <1>a, <1>b
  <2>2. Tail(queue) \in Seq(Entities)
    BY <1>b, <1>a
  <2>3. i - 1 \in 1..Len(queue') /\ queue'[i - 1] = d
    BY <2>1, <2>2, <1>1, <1>p DEF Follow
  <2> QED BY <2>3 DEF Member
<1>6. ASSUME NEW d \in Entities PROVE Current(d, table)' \/ Member(d, queue')
  <2>0. Current(d, table') => Current(d, table)'
    BY <1>u DEF Current, AsEvaluated, CodeAt, Early, Before
  <2>1. CASE code = table[e]
    <3>1. table' = table
      BY <2>1, <1>1, <1>b DEF GreenInv, Shaped, IsTable
    <3>2. CASE d = e
      BY <2>0, <3>1, <3>2, <2>1 DEF Current
    <3>3. CASE d # e
      BY <2>0, <3>1, <3>3, <1>a, <1>5 DEF GreenInv, Converging
    <3> QED BY <3>2, <3>3
  <2>2. CASE code # table[e] /\ shape[e].parent = d
    <3>1. Tail(queue) \in Seq(Entities)
      BY <1>b, <1>a
    <3>2. queue' = Append(Tail(queue), d)
      BY <2>2, <1>1, ShapesAssumption DEF Follow
    <3>3. Len(queue') \in 1..Len(queue') /\ queue'[Len(queue')] = d
      BY <3>1, <3>2
    <3> QED BY <3>3 DEF Member
  <2>3. CASE shape[e].parent # d
    <3>1. \A c \in Children(shape, d) : table[c] = table'[c]
      BY <2>3, <1>1 DEF GreenInv, Shaped, IsTable, Children
    <3>2. CodeAt(d, table) = CodeAt(d, table')
          /\ CodeAt(d, Early(d, table)) = CodeAt(d, Early(d, table'))
      BY <3>1, EarlyOfChildren
    <3>3. CASE d = e
      <4>1. table'[d] = CodeAt(d, table)
        BY <3>3, <1>1, <1>b DEF GreenInv, Shaped, IsTable
      <4> QED BY <2>0, <4>1, <3>2 DEF Current
    <3>4. CASE d # e
      <4>1. table'[d] = table[d]
        BY <3>4, <1>1 DEF GreenInv, Shaped, IsTable
      <4>2. Current(d, table) \/ Member(d, queue)
        BY <1>a DEF GreenInv, Converging
      <4>3. CASE Member(d, queue)
        BY <4>3, <3>4, <1>5
      <4>4. CASE Current(d, table)
        BY <2>0, <4>1, <4>4, <3>2 DEF Current, AsEvaluated
      <4> QED BY <4>2, <4>3, <4>4
    <3> QED BY <3>3, <3>4
  <2> QED BY <2>1, <2>2, <2>3
<1>7. Converging'
  BY <1>b, <1>4, <1>6, <1>u DEF Converging, Member
<1> QED BY <1>2, <1>3, <1>7 DEF GreenInv

LEMMA ReconvergedKeeps == GreenInv /\ Reconverged => GreenInv'
<1> SUFFICES ASSUME GreenInv, Reconverged PROVE GreenInv'
  OBVIOUS
<1>1. Shaped'
  BY DEF GreenInv, Reconverged, Shaped, IsTable
<1>2. Validated'
  BY DEF GreenInv, Reconverged, Validated, Converging
<1>3. Evaluating' /\ Converging'
  BY DEF Reconverged, Evaluating, Converging
<1>4. RollUpIsCurrent'
  <2>1. queue = <<>> /\ mode = "converging" /\ overall' = table
        /\ UNCHANGED <<shape, position, facts>>
    BY DEF Reconverged
  <2>2. \A e \in Entities : Current(e, table)
    BY <2>1 DEF GreenInv, Converging, Member
  <2>3. \A e \in Entities : CodeAt(e, overall)' = CodeAt(e, table)
                           /\ CodeAt(e, Early(e, overall))' = CodeAt(e, Early(e, table))
    BY <2>1 DEF CodeAt, Early, Before
  <2> QED BY <2>1, <2>2, <2>3 DEF RollUpIsCurrent, Current, AsEvaluated
<1> QED BY <1>1, <1>2, <1>3, <1>4 DEF GreenInv

(* Both loops keep the invariant. *)
THEOREM GreenInvariant == GreenSpec => []GreenInv
<1>1. GreenInv /\ UNCHANGED greenVars => GreenInv'
  <2> SUFFICES ASSUME GreenInv, UNCHANGED greenVars PROVE GreenInv'
    OBVIOUS
  <2>1. Shaped' /\ Validated'
    BY DEF GreenInv, greenVars, Shaped, IsTable, Validated
  <2>2. \A e \in Entities : AsEvaluated(e, table)' <=> AsEvaluated(e, table)
    BY DEF greenVars, AsEvaluated, CodeAt, Early, Before
  <2>3. \A e \in Entities : Current(e, table)' <=> Current(e, table)
    BY <2>2 DEF greenVars, Current, CodeAt
  <2>4. Evaluating'
    BY <2>2 DEF GreenInv, greenVars, Evaluating, Before
  <2>5. Converging'
    BY <2>3 DEF GreenInv, greenVars, Converging, Member
  <2>6. \A e \in Entities : CodeAt(e, overall)' = CodeAt(e, overall)
                           /\ CodeAt(e, Early(e, overall))' = CodeAt(e, Early(e, overall))
    BY DEF greenVars, CodeAt, Early, Before
  <2>7. RollUpIsCurrent'
    BY <2>6 DEF GreenInv, greenVars, RollUpIsCurrent, Assessed
  <2> QED BY <2>1, <2>4, <2>5, <2>7 DEF GreenInv
<1>2. GreenInv /\ [GreenNext]_greenVars => GreenInv'
  BY <1>1, EvaluateKeeps, AssessKeeps, EvaluatedKeeps, RecordKeeps, ReassessKeeps, ReconvergedKeeps
     DEF GreenNext
<1> QED BY <1>2, GreenInvInit, PTL DEF GreenSpec

(* evaluate_snapshot and reconverge both end with no stale code            *)
(* (green/evaluator.rs, green/incremental.rs), in every tree, however it   *)
(* is listed.                                                              *)
THEOREM RollUpIsCurrentAlways == GreenSpec => []RollUpIsCurrent
BY GreenInvariant, PTL DEF GreenInv

-----------------------------------------------------------------------------
(* Orbit.                                                                  *)

\* A set of integers with a lower bound has a least element.
LEMMA LeastInteger ==
    ASSUME NEW S \in SUBSET Int, S # {}, NEW b \in Int, \A x \in S : b <= x
    PROVE  \E x \in S : \A y \in S : x <= y
<1> DEFINE T == {n \in Nat : b + n \in S}
           Less == {p \in Nat \X Nat : p[1] < p[2]}
<1>1. T \subseteq Nat /\ T # {}
  <2>1. PICK x \in S : TRUE
    OBVIOUS
  <2>2. x - b \in Nat /\ b + (x - b) = x
    OBVIOUS
  <2> QED
    BY <2>1, <2>2
<1>2. IsWellFoundedOn(Less, Nat)
  BY NatLessThanWellFounded, Zenon DEF OpToRel
<1>3. PICK t \in T : \A u \in T : ~(<<u, t>> \in Less)
  <2> HIDE DEF T, Less
  <2> QED
    BY <1>1, <1>2, WFMin
<1>4. ASSUME NEW u \in T
      PROVE  t <= u
  <2>1. ~(<<u, t>> \in Less) /\ u \in Nat /\ t \in Nat
    BY <1>3
  <2> QED
    BY <2>1
<1>5. b + t \in S
  OBVIOUS
<1>6. ASSUME NEW y \in S
      PROVE  b + t <= y
  <2>1. y - b \in T
    OBVIOUS
  <2> QED
    BY <2>1, <1>4
<1> QED
  BY <1>5, <1>6

\* Of natural numbers that are ranked by integers with a lower bound, one has the least
\* rank and is the first of those that have it.
LEMMA FirstOfLeastRank ==
    ASSUME NEW items \in SUBSET Nat, items # {}, NEW b \in Int, NEW rank,
           \A e \in items : rank[e] \in Int /\ b <= rank[e]
    PROVE  \E e \in items : \A f \in items :
               \/ rank[e] < rank[f]
               \/ rank[e] = rank[f] /\ e <= f
<1> DEFINE Ranks == {rank[e] : e \in items}
<1>1. PICK k \in Ranks : \A y \in Ranks : k <= y
  <2>1. Ranks \in SUBSET Int /\ Ranks # {} /\ \A x \in Ranks : b <= x
    OBVIOUS
  <2> HIDE DEF Ranks
  <2> QED
    BY <2>1, LeastInteger
<1> DEFINE Firsts == {e \in items : rank[e] = k}
<1>2. PICK e \in Firsts : \A f \in Firsts : e <= f
  <2>1. Firsts # {}
    OBVIOUS
  <2>2. Firsts \in SUBSET Nat
    OBVIOUS
  <2> HIDE DEF Firsts
  <2>3. Firsts \in SUBSET Int /\ 0 \in Int /\ \A x \in Firsts : 0 <= x
    BY <2>2
  <2> QED
    BY <2>1, <2>3, LeastInteger
<1>3. e \in items /\ rank[e] = k
  OBVIOUS
<1>4. ASSUME NEW f \in items
      PROVE  \/ rank[e] < rank[f]
             \/ rank[e] = rank[f] /\ e <= f
  <2>1. k <= rank[f] /\ rank[f] \in Int /\ k \in Int
    BY <1>1
  <2>2. rank[f] = k => e <= f
    BY <1>2
  <2> QED
    BY <2>1, <2>2, <1>3
<1> QED
  BY <1>3, <1>4
-----------------------------------------------------------------------------
\* No item scores less: the score falls by 20 with each link (compiler.rs).
ScoreFloor == 250 - 20 * request.depth

IsPacket(p) ==
    /\ p = [selected |-> p.selected, spine |-> p.spine, relationships |-> p.relationships]
    /\ DOMAIN p.selected \subseteq Nodes /\ p.spine \subseteq Nodes
    /\ p.selected = [e \in DOMAIN p.selected |-> p.selected[e]]

(* What is left of the packet is as it was gathered. *)
Packets ==
    /\ galaxy \in Galaxies /\ request \in OrbitRequests
    /\ IsPacket(gathered) /\ IsPacket(packet)
    /\ \A e \in DOMAIN gathered.selected :
          /\ gathered.selected[e].mandatory \in BOOLEAN
          /\ gathered.selected[e].score \in Int
          /\ ScoreFloor <= gathered.selected[e].score
    /\ DOMAIN packet.selected \subseteq DOMAIN gathered.selected
    /\ \A e \in DOMAIN packet.selected : packet.selected[e] = gathered.selected[e]
    /\ packet.spine \subseteq gathered.spine
    /\ done \in BOOLEAN

Mandatory == {e \in DOMAIN gathered.selected : gathered.selected[e].mandatory}

Ranked(d, k) ==
    \/ gathered.selected[k].mandatory /\ ~gathered.selected[d].mandatory
    \/ /\ gathered.selected[k].mandatory = gathered.selected[d].mandatory
       /\ gathered.selected[k].score >= gathered.selected[d].score

(* What is trimmed, and in which order. *)
Trimmed ==
    /\ Mandatory # {} => Mandatory \cap DOMAIN packet.selected # {}
    /\ \A d \in Dropped, k \in DOMAIN packet.selected : Ranked(d, k)
    /\ packet.spine # gathered.spine => Supporting(packet) = {}
    /\ Mandatory \cap Dropped # {} => Supporting(packet) = {} /\ packet.spine = {}
    /\ packet.selected # gathered.selected =>
          \A l \in packet.relationships :
              {l.from, l.to} \subseteq DOMAIN packet.selected \cup packet.spine

(* What has been counted. *)
Counted ==
    /\ omitted \in [Categories -> Nat]
    /\ omitted["moon"] + omitted["planet"] + omitted["system"] + omitted["entity"]
         = Cardinality(Dropped)
    /\ omitted["spine"] = Cardinality(gathered.spine \ packet.spine)

OrbitInv == Packets /\ Trimmed /\ Counted /\ BudgetHolds

-----------------------------------------------------------------------------
LEMMA SelectedIsPacket ==
    ASSUME NEW g \in Galaxies, NEW r \in OrbitRequests
    PROVE  /\ IsPacket(Selected(g, r))
           /\ \A e \in DOMAIN Selected(g, r).selected :
                 /\ Selected(g, r).selected[e].mandatory \in BOOLEAN
                 /\ Selected(g, r).selected[e].score \in Int
                 /\ 250 - 20 * r.depth <= Selected(g, r).selected[e].score
<1> DEFINE s == Selected(g, r)
           roots == OrbitRoots(g, r)
           contents == UNION {Contents(g, e) : e \in roots}
           near == Within(g, r, roots, r.depth)
           targets == {r.targets[i] : i \in DOMAIN r.targets \cap {1, 2}}
           known == Nodes \ r.exclusions
           spine == known \cap UNION {Ancestors(g, e) : e \in roots}
           chosen == known \cap (roots \cup contents \cup near \cup targets)
           item(e) ==
               IF e \notin chosen THEN Item(FALSE, 300)
               ELSE IF e \in roots THEN Item(TRUE, 1000)
               ELSE IF e \in contents THEN Item(FALSE, 400)
               ELSE IF e \in near THEN Item(FALSE, 250 - 20 * Depth(g, r, roots, e))
               ELSE Item(TRUE, 1000)
           reached == Within(g, r, roots, r.depth - 1)
           links == IF r.depth = 0 THEN {}
                    ELSE {l \in LinksOf(g, r) : {l.from, l.to} \cap reached # {}}
           items == [e \in chosen \cup spine |-> item(e)]
<1>0. s = [selected |-> items, spine |-> spine, relationships |-> links]
  BY DEF Selected
<1>1. chosen \cup spine \subseteq Nodes
  OBVIOUS
<1> DEFINE Scored(e, i) ==
               \/ i = Item(TRUE, 1000)
               \/ i = Item(FALSE, 400)
               \/ i = Item(FALSE, 300)
               \/ e \in near /\ i = Item(FALSE, 250 - 20 * Depth(g, r, roots, e))
<1>7. ASSUME NEW e \in chosen \cup spine
      PROVE  Scored(e, item(e))
  <2> HIDE DEF roots, contents, near, chosen
  <2>1. CASE e \notin chosen
    BY <2>1
  <2>2. CASE e \in chosen /\ e \in roots
    BY <2>2
  <2>3. CASE e \in chosen /\ e \notin roots /\ e \in contents
    BY <2>3
  <2>4. CASE e \in chosen /\ e \notin roots /\ e \notin contents /\ e \in near
    BY <2>4
  <2>5. CASE e \in chosen /\ e \notin roots /\ e \notin contents /\ e \notin near
    BY <2>5
  <2> QED
    BY <2>1, <2>2, <2>3, <2>4, <2>5
<1> HIDE DEF s, roots, contents, near, chosen, spine, item, links, Scored
<1>9. /\ DOMAIN items = chosen \cup spine /\ items = [e \in DOMAIN items |-> items[e]]
      /\ \A e \in chosen \cup spine : items[e] = item(e)
  OBVIOUS
<1> HIDE DEF items
<1>8. IsPacket(s)
  BY <1>0, <1>1, <1>9 DEF IsPacket
<1>2. r.depth \in Nat
  BY RequestsAssumption
<1>3. ASSUME NEW e, e \in near
      PROVE  Depth(g, r, roots, e) \in 0..r.depth
  <2> DEFINE at == {n \in 0..r.depth : e \in Within(g, r, roots, n)}
  <2>1. at # {} /\ at \in SUBSET Int /\ \A n \in at : 0 <= n
    BY <1>2, <1>3 DEF near
  <2>2. PICK n \in at : \A m \in at : n <= m
    <3> HIDE DEF at
    <3> QED
      BY <2>1, LeastInteger
  <2>3. /\ n \in 0..r.depth
        /\ e \in Within(g, r, roots, n)
        /\ \A m \in 0..(n - 1) : e \notin Within(g, r, roots, m)
    BY <1>2, <2>2
  <2> QED
    BY <2>3 DEF Depth
<1>4. ASSUME NEW e \in DOMAIN s.selected
      PROVE  /\ s.selected[e].mandatory \in BOOLEAN
             /\ s.selected[e].score \in Int
             /\ 250 - 20 * r.depth <= s.selected[e].score
  <2>1. s.selected[e] = items[e] /\ Scored(e, items[e])
    <3>1. e \in chosen \cup spine /\ s.selected[e] = items[e]
      BY <1>0, <1>9
    <3> QED
      BY <1>7, <1>9, <3>1
  <2>2. CASE items[e] = Item(TRUE, 1000)
    BY <1>2, <2>1, <2>2 DEF Item
  <2>3. CASE items[e] = Item(FALSE, 400)
    BY <1>2, <2>1, <2>3 DEF Item
  <2>4. CASE items[e] = Item(FALSE, 300)
    BY <1>2, <2>1, <2>4 DEF Item
  <2>5. CASE e \in near /\ items[e] = Item(FALSE, 250 - 20 * Depth(g, r, roots, e))
    <3>1. \A d \in 0..r.depth :
              250 - 20 * d \in Int /\ 250 - 20 * r.depth <= 250 - 20 * d
      BY <1>2
    <3>2. Depth(g, r, roots, e) \in 0..r.depth
      BY <1>3, <2>5
    <3>3. /\ s.selected[e].mandatory = FALSE
          /\ s.selected[e].score = 250 - 20 * Depth(g, r, roots, e)
      BY <2>1, <2>5 DEF Item
    <3> QED
      BY <3>1, <3>2, <3>3
  <2> QED
    BY <2>1, <2>2, <2>3, <2>4, <2>5 DEF Scored, Item
<1> QED
  BY <1>8, <1>4 DEF s

LEMMA LeastRelevantIsLeast ==
    ASSUME NEW p, NEW items \in SUBSET Nodes, items # {}, NEW b \in Int,
           \A e \in items : p.selected[e].score \in Int /\ b <= p.selected[e].score
    PROVE  /\ LeastRelevant(p, items) \in items
           /\ \A f \in items :
                 p.selected[LeastRelevant(p, items)].score <= p.selected[f].score
<1> DEFINE rank == [e \in items |-> p.selected[e].score]
<1>1. items \in SUBSET Nat
  BY NodesAssumption
<1>2. \A e \in items : rank[e] \in Int /\ b <= rank[e] /\ rank[e] = p.selected[e].score
  OBVIOUS
<1> HIDE DEF rank
<1>3. \E e \in items : \A f \in items :
          \/ rank[e] < rank[f]
          \/ rank[e] = rank[f] /\ e <= f
  BY <1>1, <1>2, FirstOfLeastRank
<1>4. \E e \in items : \A f \in items :
          \/ p.selected[e].score < p.selected[f].score
          \/ p.selected[e].score = p.selected[f].score /\ e <= f
  BY <1>2, <1>3
<1>5. /\ LeastRelevant(p, items) \in items
      /\ \A f \in items :
            \/ p.selected[LeastRelevant(p, items)].score < p.selected[f].score
            \/ p.selected[LeastRelevant(p, items)].score = p.selected[f].score
               /\ LeastRelevant(p, items) <= f
  <2> DEFINE Least(e) == \A f \in items :
                 \/ p.selected[e].score < p.selected[f].score
                 \/ p.selected[e].score = p.selected[f].score /\ e <= f
  <2>1. LeastRelevant(p, items) = CHOOSE e \in items : Least(e)
    BY DEF LeastRelevant
  <2>2. \E e \in items : Least(e)
    BY <1>4
  <2> HIDE DEF Least
  <2>3. LeastRelevant(p, items) \in items /\ Least(LeastRelevant(p, items))
    BY <2>1, <2>2
  <2> QED
    BY <2>3 DEF Least
<1> QED
  BY <1>2, <1>5

LEMMA CoarsestIsOne ==
    ASSUME NEW g \in Galaxies, NEW items \in SUBSET Nodes, items # {}
    PROVE  Coarsest(g, items) \in items
<1> DEFINE First(e) == \A f \in items :
               \/ g.scale[e] < g.scale[f]
               \/ g.scale[e] = g.scale[f] /\ e <= f
<1>1. Coarsest(g, items) = CHOOSE e \in items : First(e)
  BY DEF Coarsest
<1>2. items \in SUBSET Nat
  BY NodesAssumption
<1>3. 0 \in Int /\ \A e \in items : g.scale[e] \in Int /\ 0 <= g.scale[e]
  BY GalaxiesAssumption
<1>4. \E e \in items : First(e)
  BY <1>2, <1>3, FirstOfLeastRank
<1> HIDE DEF First
<1> QED
  BY <1>1, <1>4

-----------------------------------------------------------------------------
\* What is kept of relationships has both ends among what is kept of entities.
LEMMA RetainedHeld ==
    ASSUME NEW p, NEW q, IsPacket(p), q = Retained(p)
    PROVE  /\ q.selected = p.selected /\ q.spine = p.spine
           /\ IsPacket(q)
           /\ \A l \in q.relationships : {l.from, l.to} \subseteq DOMAIN q.selected \cup q.spine
  BY DEF IsPacket, Retained

LEMMA ItemTrimmed ==
    ASSUME OrbitInv, NEW e \in DOMAIN packet.selected,
           packet' = Retained(WithoutItem(packet, e)), Omit(Category(galaxy, e)),
           UNCHANGED <<galaxy, request, gathered, done>>
    PROVE  /\ Packets' /\ Counted'
           /\ DOMAIN packet'.selected = DOMAIN packet.selected \ {e}
           /\ packet'.spine = packet.spine
           /\ Dropped' = Dropped \cup {e}
           /\ \A l \in packet'.relationships :
                 {l.from, l.to} \subseteq DOMAIN packet'.selected \cup packet'.spine
<1> DEFINE p == WithoutItem(packet, e)
<1>1. /\ IsPacket(p) /\ p.spine = packet.spine
      /\ DOMAIN p.selected = DOMAIN packet.selected \ {e}
      /\ \A f \in DOMAIN p.selected : p.selected[f] = packet.selected[f]
  BY DEF WithoutItem, OrbitInv, Packets, IsPacket
<1> HIDE DEF p
<1>2. /\ packet'.selected = p.selected /\ packet'.spine = p.spine
      /\ IsPacket(packet')
      /\ \A l \in packet'.relationships :
            {l.from, l.to} \subseteq DOMAIN packet'.selected \cup packet'.spine
  BY <1>1, RetainedHeld DEF p
<1>3. Packets'
  BY <1>1, <1>2 DEF OrbitInv, Packets, IsPacket, ScoreFloor
<1>4. Dropped' = Dropped \cup {e} /\ e \notin Dropped
  BY <1>1, <1>2 DEF Dropped, OrbitInv, Packets
<1>5. Counted'
  <2>1. IsFiniteSet(Dropped)
    BY NodesAssumption, FS_Subset DEF Dropped, OrbitInv, Packets, IsPacket
  <2>2. Cardinality(Dropped) \in Nat /\ Cardinality(Dropped') = Cardinality(Dropped) + 1
    BY <1>4, <2>1, FS_AddElement, FS_CardinalityType
  <2>3. Category(galaxy, e) \in {"moon", "planet", "system", "entity"}
    BY DEF Category
  <2>4. omitted' \in [Categories -> Nat] /\ omitted'["spine"] = omitted["spine"]
    BY <2>3 DEF Omit, OrbitInv, Counted, Categories
  <2>5. omitted'["moon"] + omitted'["planet"] + omitted'["system"] + omitted'["entity"]
          = omitted["moon"] + omitted["planet"] + omitted["system"] + omitted["entity"] + 1
    BY <2>3 DEF Omit, OrbitInv, Counted, Categories
  <2> QED
    BY <1>1, <1>2, <2>2, <2>4, <2>5 DEF OrbitInv, Counted
<1> QED
  BY <1>1, <1>2, <1>3, <1>4, <1>5

LEMMA TrimSupportingKeeps == OrbitInv /\ TrimSupporting => OrbitInv'
<1> SUFFICES ASSUME OrbitInv, TrimSupporting
             PROVE  OrbitInv'
  OBVIOUS
<1> DEFINE e == LeastRelevant(packet, Supporting(packet))
<1>1. /\ e \in Supporting(packet)
      /\ \A f \in Supporting(packet) : packet.selected[e].score <= packet.selected[f].score
  <2>1. Supporting(packet) \in SUBSET Nodes /\ Supporting(packet) # {}
    BY DEF Supporting, TrimSupporting, OrbitInv, Packets, IsPacket
  <2>2. ScoreFloor \in Int
    BY RequestsAssumption DEF ScoreFloor, OrbitInv, Packets
  <2>3. \A f \in Supporting(packet) :
            packet.selected[f].score \in Int /\ ScoreFloor <= packet.selected[f].score
    BY DEF Supporting, OrbitInv, Packets
  <2> QED
    BY <2>1, <2>2, <2>3, LeastRelevantIsLeast
<1>2. e \in DOMAIN packet.selected /\ ~packet.selected[e].mandatory
  BY <1>1 DEF Supporting
<1>3. /\ packet' = Retained(WithoutItem(packet, e)) /\ Omit(Category(galaxy, e))
      /\ UNCHANGED <<galaxy, request, gathered, done>> /\ ~done
  BY DEF TrimSupporting, Over
<1> HIDE DEF e
<1>4. /\ Packets' /\ Counted'
      /\ DOMAIN packet'.selected = DOMAIN packet.selected \ {e}
      /\ packet'.spine = packet.spine
      /\ Dropped' = Dropped \cup {e}
      /\ \A l \in packet'.relationships :
            {l.from, l.to} \subseteq DOMAIN packet'.selected \cup packet'.spine
  BY <1>2, <1>3, ItemTrimmed
<1>5. Trimmed'
  <2>1. Mandatory' = Mandatory /\ e \notin Mandatory /\ ~gathered.selected[e].mandatory
    BY <1>2, <1>3 DEF Mandatory, OrbitInv, Packets
  <2>2. (Mandatory # {} => Mandatory \cap DOMAIN packet.selected # {})'
    BY <1>4, <2>1 DEF OrbitInv, Trimmed
  <2>3. ASSUME NEW d \in Dropped', NEW k \in DOMAIN packet'.selected
        PROVE  Ranked(d, k)'
    <3>1. k \in DOMAIN packet.selected /\ packet.selected[k] = gathered.selected[k]
      BY <1>4 DEF OrbitInv, Packets
    <3>2. CASE d \in Dropped
      BY <1>3, <3>1, <3>2 DEF OrbitInv, Trimmed, Ranked
    <3>3. CASE d = e
      <4>1. gathered.selected[k].mandatory \in BOOLEAN /\ gathered.selected[k].score \in Int
        BY <3>1 DEF OrbitInv, Packets
      <4>2. gathered.selected[e] = packet.selected[e] /\ gathered.selected[e].score \in Int
        BY <1>2 DEF OrbitInv, Packets
      <4>3. CASE gathered.selected[k].mandatory
        BY <1>3, <2>1, <3>3, <4>3 DEF Ranked
      <4>4. CASE ~gathered.selected[k].mandatory
        <5>1. k \in Supporting(packet)
          BY <3>1, <4>4 DEF Supporting
        <5>2. gathered.selected[k].score >= gathered.selected[e].score
          BY <1>1, <3>1, <4>1, <4>2, <5>1
        <5>3. gathered.selected[k].mandatory = gathered.selected[e].mandatory
          BY <1>2, <4>1, <4>2, <4>4, <2>1 DEF OrbitInv, Packets
        <5> QED
          BY <1>3, <3>3, <5>2, <5>3 DEF Ranked
      <4> QED
        BY <4>1, <4>3, <4>4
    <3> QED
      BY <1>4, <3>2, <3>3
  <2>4. packet'.spine = gathered'.spine
    BY <1>1, <1>3, <1>4 DEF OrbitInv, Trimmed
  <2>5. Mandatory' \cap Dropped' = {}
    BY <1>1, <1>4, <2>1 DEF OrbitInv, Trimmed
  <2> QED
    BY <1>4, <2>2, <2>3, <2>4, <2>5 DEF Trimmed
<1> QED
  BY <1>3, <1>4, <1>5 DEF OrbitInv, BudgetHolds

LEMMA TrimSpineKeeps == OrbitInv /\ TrimSpine => OrbitInv'
<1> SUFFICES ASSUME OrbitInv, TrimSpine
             PROVE  OrbitInv'
  OBVIOUS
<1> DEFINE c == Coarsest(galaxy, packet.spine)
           p == [packet EXCEPT !.spine = @ \ {c}]
<1>1. c \in packet.spine
  BY CoarsestIsOne DEF TrimSpine, OrbitInv, Packets, IsPacket
<1>2. /\ packet' = Retained(p) /\ Omit("spine")
      /\ UNCHANGED <<galaxy, request, gathered, done>> /\ ~done
      /\ Supporting(packet) = {}
  BY DEF TrimSpine, Over
<1> HIDE DEF c
<1>3. IsPacket(p) /\ p.selected = packet.selected /\ p.spine = packet.spine \ {c}
  <2>1. IsPacket(packet)
    BY DEF OrbitInv, Packets
  <2>2. p = [selected |-> packet.selected, spine |-> packet.spine \ {c},
             relationships |-> packet.relationships]
    BY <2>1 DEF IsPacket
  <2> HIDE DEF p
  <2> QED
    BY <2>1, <2>2 DEF IsPacket
<1> HIDE DEF p
<1>4. /\ packet'.selected = packet.selected /\ packet'.spine = packet.spine \ {c}
      /\ IsPacket(packet')
      /\ \A l \in packet'.relationships :
            {l.from, l.to} \subseteq DOMAIN packet'.selected \cup packet'.spine
  BY <1>2, <1>3, RetainedHeld
<1>5. Packets'
  BY <1>2, <1>4 DEF OrbitInv, Packets, IsPacket, ScoreFloor
<1>6. Mandatory' = Mandatory /\ Dropped' = Dropped /\ Supporting(packet') = {}
  BY <1>2, <1>4 DEF Mandatory, Dropped, Supporting
<1>7. Trimmed'
  <2>1. ASSUME NEW d \in Dropped', NEW k \in DOMAIN packet'.selected
        PROVE  Ranked(d, k)'
    BY <1>2, <1>4, <1>6 DEF OrbitInv, Trimmed, Ranked
  <2>2. (Mandatory \cap Dropped # {} => Supporting(packet) = {} /\ packet.spine = {})'
    BY <1>1, <1>6 DEF OrbitInv, Trimmed
  <2>3. (Mandatory # {} => Mandatory \cap DOMAIN packet.selected # {})'
    BY <1>4, <1>6 DEF OrbitInv, Trimmed
  <2> QED
    BY <1>4, <1>6, <2>1, <2>2, <2>3 DEF Trimmed
<1>8. Counted'
  <2> DEFINE gone == gathered.spine \ packet.spine
  <2>1. gone' = gone \cup {c} /\ c \notin gone
    BY <1>1, <1>2, <1>4 DEF OrbitInv, Packets
  <2>2. IsFiniteSet(gone)
    BY NodesAssumption, FS_Subset DEF OrbitInv, Packets, IsPacket
  <2>3. Cardinality(gone) \in Nat /\ Cardinality(gone') = Cardinality(gone) + 1
    BY <2>1, <2>2, FS_AddElement, FS_CardinalityType
  <2>4. /\ omitted' \in [Categories -> Nat]
        /\ omitted'["spine"] = omitted["spine"] + 1
        /\ \A k \in Categories \ {"spine"} : omitted'[k] = omitted[k]
    BY <1>2 DEF Omit, OrbitInv, Counted, Categories
  <2> QED
    BY <1>6, <2>3, <2>4 DEF OrbitInv, Counted, Categories
<1> QED
  BY <1>2, <1>5, <1>7, <1>8 DEF OrbitInv, BudgetHolds

LEMMA TrimCoreKeeps == OrbitInv /\ TrimCore => OrbitInv'
<1> SUFFICES ASSUME OrbitInv, TrimCore
             PROVE  OrbitInv'
  OBVIOUS
<1> DEFINE items == DOMAIN packet.selected
           e == LeastRelevant(packet, items)
<1>1. /\ packet' = Retained(WithoutItem(packet, e)) /\ Omit(Category(galaxy, e))
      /\ UNCHANGED <<galaxy, request, gathered, done>> /\ ~done
      /\ Supporting(packet) = {} /\ packet.spine = {} /\ Cardinality(items) > 1
  BY DEF TrimCore, CoreCanShrink, Over
<1>2. IsFiniteSet(items) /\ items \in SUBSET Nodes
  BY NodesAssumption, FS_Subset DEF OrbitInv, Packets, IsPacket
<1>3. items # {} /\ \A x : items # {x}
  BY <1>1, <1>2, FS_EmptySet, FS_Singleton
<1>4. /\ e \in items
      /\ \A f \in items : packet.selected[e].score <= packet.selected[f].score
  <2>1. ScoreFloor \in Int
    BY RequestsAssumption DEF ScoreFloor, OrbitInv, Packets
  <2>2. \A f \in items :
            packet.selected[f].score \in Int /\ ScoreFloor <= packet.selected[f].score
    BY DEF OrbitInv, Packets
  <2> HIDE DEF items
  <2> QED
    BY <1>2, <1>3, <2>1, <2>2, LeastRelevantIsLeast
<1> HIDE DEF e
<1>5. \A f \in items : packet.selected[f] = gathered.selected[f] /\ f \in Mandatory
  BY <1>1 DEF Supporting, Mandatory, OrbitInv, Packets
<1>6. /\ Packets' /\ Counted'
      /\ DOMAIN packet'.selected = items \ {e}
      /\ packet'.spine = packet.spine
      /\ Dropped' = Dropped \cup {e}
      /\ \A l \in packet'.relationships :
            {l.from, l.to} \subseteq DOMAIN packet'.selected \cup packet'.spine
  BY <1>1, <1>4, ItemTrimmed
<1>7. Mandatory' = Mandatory
  BY <1>1 DEF Mandatory
<1>8. Supporting(packet') = {}
  <2>1. \A f \in DOMAIN packet'.selected : packet'.selected[f] = packet.selected[f]
    BY <1>1, <1>6 DEF OrbitInv, Packets
  <2> QED
    BY <1>1, <1>6, <2>1 DEF Supporting
<1>9. Trimmed'
  <2>1. PICK x \in items : x # e
    <3>1. items # {e} /\ e \in items
      BY <1>3, <1>4
    <3> QED
      BY <3>1
  <2>2. x \in Mandatory' \cap DOMAIN packet'.selected
    BY <1>5, <1>6, <1>7, <2>1
  <2>3. ASSUME NEW d \in Dropped', NEW k \in DOMAIN packet'.selected
        PROVE  Ranked(d, k)'
    <3>1. CASE d \in Dropped
      BY <1>1, <1>6, <3>1 DEF OrbitInv, Trimmed, Ranked
    <3>2. CASE d = e
      <4>1. gathered.selected[k].score \in Int /\ gathered.selected[e].score \in Int
        BY <1>4, <1>5, <1>6 DEF OrbitInv, Packets
      <4>2. gathered.selected[k].score >= gathered.selected[e].score
        BY <1>4, <1>5, <1>6, <4>1
      <4>3. gathered.selected[k].mandatory = gathered.selected[e].mandatory
        BY <1>4, <1>5, <1>6 DEF Mandatory, OrbitInv, Packets
      <4> QED
        BY <1>1, <3>2, <4>2, <4>3 DEF Ranked
    <3> QED
      BY <1>6, <3>1, <3>2
  <2> QED
    BY <1>1, <1>6, <1>8, <2>2, <2>3 DEF Trimmed
<1> QED
  BY <1>1, <1>6, <1>9 DEF OrbitInv, BudgetHolds

LEMMA FinishKeeps == OrbitInv /\ Finish => OrbitInv'
<1> SUFFICES ASSUME OrbitInv, Finish
             PROVE  OrbitInv'
  OBVIOUS
<1>1. UNCHANGED <<galaxy, request, gathered, packet, omitted>> /\ done'
  BY DEF Finish
<1>2. Packets' /\ Trimmed' /\ Counted'
  BY <1>1 DEF OrbitInv, Packets, Trimmed, Counted, IsPacket, ScoreFloor, Mandatory, Dropped,
              Supporting, Ranked
<1>3. \/ Fits(galaxy, packet, request)
      \/ packet.spine = {} /\ Cardinality(DOMAIN packet.selected) <= 1
  <2>1. IsFiniteSet(DOMAIN packet.selected)
    BY NodesAssumption, FS_Subset DEF OrbitInv, Packets, IsPacket
  <2>2. Cardinality(DOMAIN packet.selected) \in Nat
    BY <2>1, FS_CardinalityType
  <2> QED
    BY <2>2 DEF Finish, CoreCanShrink
<1>4. DOMAIN gathered.selected # Supporting(gathered) => DOMAIN packet.selected # {}
  BY DEF OrbitInv, Trimmed, Mandatory, Supporting
<1>5. (\E d \in Dropped : gathered.selected[d].mandatory) => packet.spine = {}
  BY DEF OrbitInv, Trimmed, Mandatory, Dropped
<1>6. /\ \A d \in Dropped, k \in DOMAIN packet.selected : Ranked(d, k)
      /\ packet.spine # gathered.spine => Supporting(packet) = {}
      /\ packet.selected # gathered.selected =>
            \A l \in packet.relationships :
                {l.from, l.to} \subseteq DOMAIN packet.selected \cup packet.spine
  BY DEF OrbitInv, Trimmed
<1>7. /\ omitted["moon"] + omitted["planet"] + omitted["system"] + omitted["entity"]
           = Cardinality(Dropped)
      /\ omitted["spine"] = Cardinality(gathered.spine \ packet.spine)
  BY DEF OrbitInv, Counted
<1>8. BudgetHolds'
  BY <1>1, <1>3, <1>4, <1>5, <1>6, <1>7
     DEF BudgetHolds, Ranked, Dropped, Supporting
<1> QED
  BY <1>2, <1>8 DEF OrbitInv

LEMMA OrbitInvInit == OrbitInit => OrbitInv
<1> SUFFICES ASSUME OrbitInit
             PROVE  OrbitInv
  OBVIOUS
<1>1. /\ galaxy \in Galaxies /\ request \in OrbitRequests
      /\ gathered = Selected(galaxy, request) /\ packet = gathered
      /\ omitted = [c \in Categories |-> 0] /\ done = FALSE
  BY DEF OrbitInit
<1>2. Packets
  BY <1>1, SelectedIsPacket DEF Packets, ScoreFloor
<1>3. Dropped = {} /\ gathered.spine \ packet.spine = {}
  BY <1>1 DEF Dropped
<1>4. Trimmed
  BY <1>1, <1>3 DEF Trimmed, Mandatory
<1>5. Counted
  BY <1>1, <1>3, FS_EmptySet DEF Counted, Categories
<1> QED
  BY <1>1, <1>2, <1>4, <1>5 DEF OrbitInv, BudgetHolds

-----------------------------------------------------------------------------
\* The packet is always what is left of what was gathered, trimmed in order and counted.
THEOREM OrbitInvariant == OrbitSpec => []OrbitInv
<1>1. OrbitInit => OrbitInv
  BY OrbitInvInit
<1>2. OrbitInv /\ [OrbitNext]_orbitVars => OrbitInv'
  <2> SUFFICES ASSUME OrbitInv, [OrbitNext]_orbitVars
               PROVE  OrbitInv'
    OBVIOUS
  <2>1. CASE TrimSupporting
    BY <2>1, TrimSupportingKeeps
  <2>2. CASE TrimSpine
    BY <2>2, TrimSpineKeeps
  <2>3. CASE TrimCore
    BY <2>3, TrimCoreKeeps
  <2>4. CASE Finish
    BY <2>4, FinishKeeps
  <2>5. CASE UNCHANGED orbitVars
    BY <2>5 DEF orbitVars, OrbitInv, Packets, Trimmed, Counted, BudgetHolds, IsPacket,
                ScoreFloor, Mandatory, Dropped, Supporting, Ranked
  <2> QED
    BY <2>1, <2>2, <2>3, <2>4, <2>5 DEF OrbitNext
<1> QED
  BY <1>1, <1>2, PTL DEF OrbitSpec

\* A packet that is done is within its budget or down to one entity, keeps what is most
\* relevant and counts all that it leaves out; once something was trimmed, no relationship
\* leads out of it (enforce_budget).
THEOREM BudgetHoldsAlways == OrbitSpec => []BudgetHolds
<1>1. OrbitInv => BudgetHolds
  BY DEF OrbitInv
<1> QED
  BY <1>1, OrbitInvariant, PTL

-----------------------------------------------------------------------------
(* The semantic lane.                                                      *)

IsStore(s) == s = [id |-> s.id, told |-> s.told, edges |-> s.edges, green |-> s.green]

AddedAreProven == \A r \in Added : r.required => r.code = Proven

LaneInv ==
    /\ IsStore(atlas) /\ IsStore(without)
    /\ atlas.id = without.id
    /\ DOMAIN atlas.told = DOMAIN without.told
    /\ Containers \subseteq DOMAIN atlas.told
    /\ without.edges \subseteq atlas.edges
    /\ \A r \in Added : r.plane # "observed" /\ r.from \notin Protected
    /\ AddedAreProven => atlas.green = without.green
    /\ \A e \in Protected : atlas.told[e] = 0

-----------------------------------------------------------------------------
\* Relationships that are proven or not required weigh nothing in Green.
LEMMA ProvenWeighNothing ==
    ASSUME NEW entities, NEW less, NEW more, less \subseteq more,
           \A r \in more \ less : r.required => r.code = Proven
    PROVE  GreenOf(entities, more) = GreenOf(entities, less)
<1>1. ASSUME NEW e \in entities
      PROVE  {Proven} \union {r.code : r \in {x \in more : x.required /\ x.from \in Below[e]}}
           = {Proven} \union {r.code : r \in {x \in less : x.required /\ x.from \in Below[e]}}
  OBVIOUS
<1> QED
  BY <1>1 DEF GreenOf

\* A snapshot made from the project does not depend on the one before but for summaries.
LEMMA IndexedAlike ==
    ASSUME NEW s, NEW t
    PROVE  /\ IsStore(Indexed(s))
           /\ Indexed(s).id = Indexed(t).id
           /\ DOMAIN Indexed(s).told = DOMAIN Indexed(t).told
           /\ Containers \subseteq DOMAIN Indexed(s).told
           /\ Indexed(s).edges = Indexed(t).edges
           /\ Indexed(s).green = Indexed(t).green
BY DEF Indexed, IsStore

-----------------------------------------------------------------------------
LEMMA LaneInvInit == LaneInit => LaneInv
<1> SUFFICES ASSUME LaneInit PROVE LaneInv
  OBVIOUS
<1>1. atlas = Indexed(Empty) /\ without = atlas
  BY DEF LaneInit
<1>2. \A e \in Protected : atlas.told[e] = 0
  BY <1>1, LaneAssumption DEF Indexed, Empty
<1> QED
  BY <1>1, <1>2, IndexedAlike DEF LaneInv, Added

LEMMA ReconcileKeeps == LaneInv /\ Reconcile => LaneInv'
<1> SUFFICES ASSUME LaneInv, Reconcile PROVE LaneInv'
  OBVIOUS
<1>1. atlas' = Indexed(atlas) /\ without' = Indexed(without)
  BY DEF Reconcile
<1>2. \A e \in Protected : (atlas').told[e] = 0
  BY <1>1, LaneAssumption DEF LaneInv, Indexed
<1>3. /\ IsStore(atlas') /\ IsStore(without')
      /\ (atlas').id = (without').id
      /\ DOMAIN (atlas').told = DOMAIN (without').told
      /\ Containers \subseteq DOMAIN (atlas').told
      /\ (atlas').edges = (without').edges
      /\ (atlas').green = (without').green
  BY <1>1, IndexedAlike
<1> QED
  BY <1>2, <1>3 DEF LaneInv, Added, IsStore

LEMMA ReevaluateKeeps == LaneInv /\ Reevaluate => LaneInv'
<1> SUFFICES ASSUME LaneInv, Reevaluate PROVE LaneInv'
  OBVIOUS
<1>1. /\ atlas' = [id |-> atlas.id, told |-> atlas.told, edges |-> atlas.edges,
                   green |-> GreenOf(DOMAIN atlas.told, atlas.edges)]
      /\ without' = [id |-> without.id, told |-> without.told, edges |-> without.edges,
                     green |-> GreenOf(DOMAIN without.told, without.edges)]
  BY DEF Reevaluate, Rejudged, LaneInv, IsStore
<1>2. AddedAreProven' => (atlas').green = (without').green
  BY <1>1, ProvenWeighNothing DEF LaneInv, AddedAreProven, Added
<1> QED
  BY <1>1, <1>2 DEF LaneInv, Added, IsStore

LEMMA PassKeeps == LaneInv /\ Pass => LaneInv'
<1> SUFFICES ASSUME LaneInv, Pass PROVE LaneInv'
  OBVIOUS
<1>1. PICK said \in Proposals : atlas' = Applied(atlas, said)
  BY DEF Pass
<1> DEFINE related == {said[i].edge : i \in Related(said)}
<1>2. atlas' = [id |-> atlas.id,
                told |-> [e \in DOMAIN atlas.told |-> atlas.told[e] + Summaries(said, e)],
                edges |-> atlas.edges \union related,
                green |-> atlas.green]
  BY <1>1 DEF Applied, LaneInv, IsStore
<1>3. without' = without
  BY DEF Pass
<1>4. ASSUME NEW r \in related PROVE r.plane # "observed" /\ r.from \notin Protected
  BY <1>4, ProposalsAssumption DEF Related, Admitted, Rejects
<1>5. ASSUME NEW e \in Protected PROVE (atlas').told[e] = 0
  <2>1. {i \in Admitted(said) : said[i].kind = "summary" /\ said[i].of = e} = {}
    BY DEF Admitted
  <2>2. Summaries(said, e) = 0
    BY <2>1, FS_EmptySet DEF Summaries
  <2>3. e \in DOMAIN atlas.told /\ atlas.told[e] = 0
    BY LaneAssumption DEF LaneInv
  <2> QED
    BY <1>2, <2>2, <2>3
<1>6. AddedAreProven' => AddedAreProven
  BY <1>2, <1>3 DEF AddedAreProven, Added
<1>7. \A r \in Added' : r.plane # "observed" /\ r.from \notin Protected
  BY <1>2, <1>3, <1>4 DEF LaneInv, Added
<1> QED
  BY <1>2, <1>3, <1>5, <1>6, <1>7 DEF LaneInv, IsStore

-----------------------------------------------------------------------------
\* The store differs from what it would be without the lane in summaries and in what
\* admission lets through (semantic.rs, lane.rs, admission.rs).
THEOREM LaneInvariant == LaneSpec => []LaneInv
<1>1. LaneInv /\ UNCHANGED <<atlas, without>> => LaneInv'
  BY DEF LaneInv, IsStore, Added, AddedAreProven
<1>2. LaneInv /\ [LaneNext]_laneVars => LaneInv'
  BY <1>1, ReconcileKeeps, ReevaluateKeeps, PassKeeps DEF LaneNext, Change, laneVars
<1> QED
  BY LaneInvInit, <1>2, PTL DEF LaneSpec

\* Whatever a partner proposes, the deterministic picture is the one without the lane, and
\* what is protected stays untouched (lane.rs, admission.rs).
THEOREM LaneLeavesFactsAloneAlways == LaneSpec => []LaneLeavesFactsAlone
<1>1. LaneInv => LaneLeavesFactsAlone
  BY DEF LaneInv, LaneLeavesFactsAlone, FactsOf, Added, AddedAreProven
<1> QED
  BY LaneInvariant, <1>1, PTL

-----------------------------------------------------------------------------
(* Permissions.                                                            *)

\* No command removes or changes a rule that is recorded.
LEMMA RulesStay ==
    ASSUME [PermissionNext]_permissionVars
    PROVE  Recorded \subseteq Recorded' /\ \A id \in Recorded : rules'[id] = rules[id]
<1>1. ASSUME NEW id, NEW rule, rules' = With(id, rule)
      PROVE  Recorded \subseteq Recorded' /\ \A i \in Recorded : rules'[i] = rules[i]
  BY <1>1 DEF With, Recorded
<1>2. ASSUME NEW decision, AppendRule(decision)
      PROVE  Recorded \subseteq Recorded' /\ \A i \in Recorded : rules'[i] = rules[i]
  BY <1>1, <1>2 DEF AppendRule
<1>3. ASSUME NEW c \in Clients, Supersede(c)
      PROVE  Recorded \subseteq Recorded' /\ \A i \in Recorded : rules'[i] = rules[i]
  BY <1>1, <1>3 DEF Supersede
<1>4. ASSUME UNCHANGED rules
      PROVE  Recorded \subseteq Recorded' /\ \A i \in Recorded : rules'[i] = rules[i]
  BY <1>4 DEF Recorded
<1> QED
  BY <1>2, <1>3, <1>4
     DEF PermissionNext, ReadExisting, RecordUse, Tick, permissionVars

\* A rule is superseded by a transaction that had read it.
LEMMA SupersededByTransaction ==
    ASSUME [PermissionNext]_permissionVars, NEW id \in superseded' \ superseded
    PROVE  \E c \in Clients : \E s \in superseding[c] :
               s.old = id /\ id \in superseded' \ superseded
BY DEF PermissionNext, AppendRule, ReadExisting, Supersede, RecordUse, Tick, permissionVars

\* A denial of a request that no longer denies it has expired or has been superseded.
LEMMA DenialLifted ==
    ASSUME [PermissionNext]_permissionVars, NEW a, NEW p,
           NEW id \in Denials(a, p), Decision(a, p)' # "deny"
    PROVE  Expired(rules[id])' \/ id \in superseded' \ superseded
<1>1. id \in Recorded /\ id \notin superseded /\ rules[id].action = a
        /\ ResourceMatches(rules[id].resource, p) /\ rules[id].decision = "deny"
  BY DEF Denials, Deciding, Applicable
<1>2. id \in Recorded' /\ rules'[id] = rules[id]
  BY <1>1, RulesStay
<1>3. id \notin Deciding(a, p, "deny")'
  BY DEF Decision
<1> QED
  BY <1>1, <1>2, <1>3 DEF Deciding, Applicable

\* A denied request stays denied until each rule that denies it has expired or has itself
\* been superseded (permissions.rs, authority/matcher.rs).
THEOREM DenialStandsAlways == PermissionSpec => DenialStands
<1>1. ASSUME [PermissionNext]_permissionVars
      PROVE  [\A a \in Actions, p \in Paths :
                 Decision(a, p) = "deny" /\ Decision(a, p)' # "deny" =>
                     \A id \in Denials(a, p) :
                         \/ Expired(rules[id])'
                         \/ \E c \in Clients : \E s \in superseding[c] :
                               s.old = id /\ id \in superseded' \ superseded]_permissionVars
  BY <1>1, DenialLifted, SupersededByTransaction
<1> QED
  BY <1>1, PTL DEF PermissionSpec, DenialStands

-----------------------------------------------------------------------------
(* Supervision.                                                            *)

Calls == {"print", "stop", "delete", "reload"}
Steps == {"write", "register", "boot", "stop", "wait", "delete", "remove", "reload"}

SupervisionTypes ==
    /\ platform \in {"macos", "linux", "windows"}
    /\ version \in Nat \ {NoVersion}
    /\ unit \in [Units -> Nat]
    /\ held \in [Labels -> Nat]
    /\ process \in [Labels -> Nat]
    /\ enabled \subseteq Labels /\ stopping \subseteq Labels
    /\ command \in {Resting} \cup [step : Steps, roots : RootLists, polls : Nat]
    /\ answer \in [Labels -> {"none", "installed", "uninstalled", "failed"}]
    /\ ignored \in [Labels -> SUBSET Calls]

(* What launchd knows: a job on its way out is still held, and what runs is held. *)
JobsAreHeld ==
    /\ platform = "macos" =>
          /\ \A l \in stopping : held[l] # NoVersion
          /\ \A l \in Labels : process[l] # NoVersion => held[l] # NoVersion
    /\ platform # "macos" => stopping = {}

(* What a command that is under way has done so far. *)
CommandKnows ==
    ~At("idle") =>
        /\ answer[This] = "none"
        /\ At("register") \/ At("boot") => unit[Unit(command.roots)] # NoVersion
        /\ At("boot") /\ platform # "macos" => held[This] = unit[Unit(command.roots)]
        /\ (At("wait") \/ At("remove")) /\ platform = "macos" =>
              process[This] = NoVersion \/ This \in stopping
        /\ At("wait") => platform = "macos"
        /\ At("delete") => platform = "windows"
        /\ At("reload") => platform = "linux" /\ unit[Unit(command.roots)] = NoVersion
        /\ (At("delete") \/ At("remove") \/ At("reload")) /\ platform # "macos"
                /\ "stop" \notin ignored[This] => process[This] = NoVersion
        /\ At("remove") /\ platform = "windows" /\ "delete" \notin ignored[This]
                => held[This] = NoVersion
        /\ At("remove") /\ platform = "macos" /\ "print" \notin ignored[This]
                => held[This] = NoVersion

SupervisionInv == SupervisionTypes /\ JobsAreHeld /\ CommandKnows /\ AnswersStayTrue

-----------------------------------------------------------------------------
(* The label and the unit of a command that is under way. *)
LEMMA CommandUnit ==
    ASSUME SupervisionTypes, ~At("idle")
    PROVE  /\ command \in [step : Steps, roots : RootLists, polls : Nat]
           /\ This \in Labels
           /\ Unit(command.roots) \in Units
           /\ platform # "windows" => Unit(command.roots) = <<This, {}>>
           /\ \A l \in Labels : l # This => Unit(command.roots) # <<l, {}>>
<1>1. command \in [step : Steps, roots : RootLists, polls : Nat]
  BY DEF SupervisionTypes, At, Resting
<1>2. This \in Labels
  BY <1>1 DEF This, Labels
<1>3. Unit(command.roots) = <<This, IF platform = "windows" THEN {command.roots[1]} ELSE {}>>
  BY DEF Unit, This
<1>4. Unit(command.roots) \in Units
  BY <1>1, <1>3 DEF Units, This
<1> QED
  BY <1>1, <1>2, <1>3, <1>4

LEMMA LabelHasUnit == \A l \in Labels : <<l, {}>> \in Units
<1>1. ASSUME NEW firsts, NEW r \in RootLists, NEW f \in firsts
      PROVE  <<Label(r), f>> \in {<<Label(roots), first>> : roots \in RootLists, first \in firsts}
  BY SMT
<1>2. ASSUME NEW r \in RootLists PROVE <<Label(r), {}>> \in Units
  <2> DEFINE any == {{}} \cup {{s[1]} : s \in RootLists}
  <2>1. {} \in any
    OBVIOUS
  <2> HIDE DEF any
  <2>2. <<Label(r), {}>> \in {<<Label(roots), first>> : roots \in RootLists, first \in any}
    BY <1>1, <2>1
  <2> QED
    BY <2>2 DEF Units, any
<1> QED
  BY <1>2 DEF Labels

(* An answer stays true for a label of which nothing changes. *)
LEMMA UntouchedLabel ==
    ASSUME SupervisionTypes, NEW l \in Labels, AnswerIsTrue(l), platform' = platform,
           answer'[l] = answer[l], ignored'[l] = ignored[l],
           held'[l] = held[l], process'[l] = process[l],
           unit'[<<l, {}>>] = unit[<<l, {}>>],
           l \in enabled' <=> l \in enabled, l \in stopping' <=> l \in stopping
    PROVE  AnswerIsTrue(l)'
BY DEF AnswerIsTrue, AtLogin, SupervisionTypes

(* A command that fails, with nothing done, leaves what is known as it is. *)
LEMMA FailsKeeps ==
    ASSUME SupervisionInv, UNCHANGED <<platform, version>>, ~At("idle"), Fails
    PROVE  SupervisionInv'
<1>1. command' = Resting /\ answer' = [answer EXCEPT ![This] = "failed"]
        /\ UNCHANGED <<unit, held, enabled, process, stopping, ignored>>
  BY DEF Fails, Answer
<1>2. This \in Labels
  BY CommandUnit DEF SupervisionInv
<1>3. SupervisionTypes'
  BY <1>1, <1>2 DEF SupervisionInv, SupervisionTypes
<1>4. JobsAreHeld'
  BY <1>1 DEF SupervisionInv, JobsAreHeld
<1>5. CommandKnows'
  BY <1>1 DEF CommandKnows, At, Resting
<1>6. ASSUME NEW l \in Labels PROVE AnswerIsTrue(l)'
  <2>1. CASE l = This
    BY <2>1, <1>1, <1>2 DEF AnswerIsTrue, SupervisionInv, SupervisionTypes
  <2>2. CASE l # This
    BY <2>2, <1>1, UntouchedLabel DEF AnswersStayTrue, SupervisionInv, SupervisionTypes
  <2> QED
    BY <2>1, <2>2
<1> QED
  BY <1>3, <1>4, <1>5, <1>6 DEF SupervisionInv, AnswersStayTrue

(* Only the answer for its own label changes when a command begins. *)
LEMMA StartKeeps ==
    ASSUME SupervisionInv, UNCHANGED <<platform, version>>, NEW step \in {"write", "stop"},
           Start(step)
    PROVE  SupervisionInv'
<1>1. PICK roots \in RootLists :
        /\ command' = [step |-> step, roots |-> roots, polls |-> 0]
        /\ answer' = [answer EXCEPT ![Label(roots)] = "none"]
        /\ ignored' = [ignored EXCEPT ![Label(roots)] = {}]
        /\ UNCHANGED <<unit, held, enabled, process, stopping>>
  BY DEF Start
<1>2. Label(roots) \in Labels /\ This' = Label(roots)
  BY <1>1 DEF Labels, This
<1>3. SupervisionTypes'
  BY <1>1, <1>2 DEF SupervisionInv, SupervisionTypes, Steps
<1>4. JobsAreHeld'
  BY <1>1 DEF SupervisionInv, JobsAreHeld
<1>5. CommandKnows'
  BY <1>1, <1>2 DEF CommandKnows, At, SupervisionInv, SupervisionTypes
<1>6. ASSUME NEW l \in Labels PROVE AnswerIsTrue(l)'
  <2>1. CASE l = Label(roots)
    BY <2>1, <1>1, <1>2 DEF AnswerIsTrue, SupervisionInv, SupervisionTypes
  <2>2. CASE l # Label(roots)
    BY <2>2, <1>1, UntouchedLabel DEF AnswersStayTrue, SupervisionInv, SupervisionTypes
  <2> QED
    BY <2>1, <2>2
<1> QED
  BY <1>3, <1>4, <1>5, <1>6 DEF SupervisionInv, AnswersStayTrue

LEMMA WriteUnitKeeps ==
    ASSUME SupervisionInv, UNCHANGED <<platform, version>>, WriteUnit
    PROVE  SupervisionInv'
<1>1. ~At("idle")
  BY DEF WriteUnit, At
<1>2. ASSUME unit' = [unit EXCEPT ![Unit(command.roots)] = version],
             command' = [command EXCEPT !.step = "register"],
             UNCHANGED <<held, enabled, process, stopping, answer, ignored>>
      PROVE  SupervisionInv'
  <2>1. SupervisionTypes'
    BY <1>1, <1>2, CommandUnit DEF SupervisionInv, SupervisionTypes, Steps
  <2>2. JobsAreHeld'
    BY <1>2 DEF SupervisionInv, JobsAreHeld
  <2>3. (command').roots = command.roots /\ (command').step = "register" /\ This' = This
    BY <1>1, <1>2, CommandUnit DEF SupervisionInv, This
  <2>4. unit'[Unit(command.roots)] # NoVersion
    BY <1>1, <1>2, CommandUnit DEF SupervisionInv, SupervisionTypes
  <2>5. Unit(command.roots)' = Unit(command.roots)
    BY <2>3 DEF Unit
  <2>6. CommandKnows'
    BY <1>1, <1>2, <2>3, <2>4, <2>5 DEF CommandKnows, At, SupervisionInv
  <2>7. ASSUME NEW l \in Labels PROVE AnswerIsTrue(l)'
    <3>1. CASE l = This
      BY <3>1, <1>1, <1>2 DEF AnswerIsTrue, SupervisionInv, CommandKnows
    <3>2. CASE l # This
      <4>1. unit'[<<l, {}>>] = unit[<<l, {}>>]
        BY <3>2, <1>1, <1>2, CommandUnit, LabelHasUnit DEF SupervisionInv, SupervisionTypes
      <4> QED
        BY <4>1, <1>2, UntouchedLabel DEF AnswersStayTrue, SupervisionInv
    <3> QED
      BY <3>1, <3>2
  <2> QED
    BY <2>1, <2>2, <2>6, <2>7 DEF SupervisionInv, AnswersStayTrue
<1> QED
  BY <1>1, <1>2, FailsKeeps DEF WriteUnit, Then

-----------------------------------------------------------------------------
(* launchd. *)
LEMMA BootoutBeforeInstallKeeps ==
    ASSUME SupervisionInv, UNCHANGED <<platform, version>>, BootoutBeforeInstall
    PROVE  SupervisionInv'
<1>1. ~At("idle") /\ At("register") /\ platform = "macos"
  BY DEF BootoutBeforeInstall, At
<1>2. /\ stopping \subseteq stopping' /\ stopping' \subseteq stopping \cup {This}
      /\ \A l \in stopping' : held[l] # NoVersion
      /\ command' = [command EXCEPT !.step = "boot"]
      /\ UNCHANGED <<unit, held, enabled, process, answer, ignored>>
  BY <1>1 DEF BootoutBeforeInstall, Then, SupervisionInv, JobsAreHeld
<1>3. SupervisionTypes'
  BY <1>1, <1>2, CommandUnit DEF SupervisionInv, SupervisionTypes, Steps
<1>4. JobsAreHeld'
  BY <1>1, <1>2 DEF SupervisionInv, JobsAreHeld
<1>5. (command').roots = command.roots /\ (command').step = "boot" /\ This' = This
  BY <1>1, <1>2, CommandUnit DEF SupervisionInv, This
<1>6. Unit(command.roots)' = Unit(command.roots)
  BY <1>5 DEF Unit
<1>7. CommandKnows'
  BY <1>1, <1>2, <1>5, <1>6 DEF CommandKnows, At, SupervisionInv
<1>8. ASSUME NEW l \in Labels PROVE AnswerIsTrue(l)'
  <2>1. CASE l = This
    BY <2>1, <1>1, <1>2 DEF AnswerIsTrue, SupervisionInv, CommandKnows
  <2>2. CASE l # This
    BY <2>2, <1>2, UntouchedLabel DEF AnswersStayTrue, SupervisionInv
  <2> QED
    BY <2>1, <2>2
<1> QED
  BY <1>3, <1>4, <1>7, <1>8 DEF SupervisionInv, AnswersStayTrue

LEMMA BootstrapKeeps ==
    ASSUME SupervisionInv, UNCHANGED <<platform, version>>, Bootstrap
    PROVE  SupervisionInv'
<1>1. ~At("idle") /\ At("boot") /\ platform = "macos"
  BY DEF Bootstrap, At
<1> DEFINE v == unit[Unit(command.roots)]
<1>2. ASSUME held[This] = NoVersion,
             held' = [held EXCEPT ![This] = v], process' = [process EXCEPT ![This] = v],
             command' = Resting, answer' = [answer EXCEPT ![This] = "installed"],
             UNCHANGED <<unit, enabled, stopping, ignored>>
      PROVE  SupervisionInv'
  <2>1. v \in Nat /\ v # NoVersion /\ Unit(command.roots) = <<This, {}>> /\ This \in Labels
    BY <1>1, CommandUnit DEF SupervisionInv, SupervisionTypes, CommandKnows
  <2> HIDE DEF v
  <2>2. SupervisionTypes'
    BY <1>2, <2>1 DEF SupervisionInv, SupervisionTypes
  <2>3. JobsAreHeld'
    BY <1>1, <1>2, <2>1 DEF SupervisionInv, JobsAreHeld, SupervisionTypes
  <2>4. CommandKnows'
    BY <1>2 DEF CommandKnows, At, Resting
  <2>5. ASSUME NEW l \in Labels PROVE AnswerIsTrue(l)'
    <3>1. CASE l = This
      <4>1. This \notin stopping
        BY <1>1, <1>2 DEF SupervisionInv, JobsAreHeld
      <4>2. AtLogin(l)' = v
        BY <3>1, <1>1, <1>2, <2>1 DEF AtLogin, v
      <4> QED
        BY <3>1, <4>1, <4>2, <1>1, <1>2, <2>1 DEF AnswerIsTrue, SupervisionInv, SupervisionTypes
    <3>2. CASE l # This
      BY <3>2, <1>2, UntouchedLabel DEF AnswersStayTrue, SupervisionInv, SupervisionTypes
    <3> QED
      BY <3>1, <3>2
  <2> QED
    BY <2>2, <2>3, <2>4, <2>5 DEF SupervisionInv, AnswersStayTrue
<1> QED
  BY <1>1, <1>2, FailsKeeps DEF Bootstrap, Answer, v

LEMMA BootoutKeeps ==
    ASSUME SupervisionInv, UNCHANGED <<platform, version>>, Bootout
    PROVE  SupervisionInv'
<1>1. ~At("idle") /\ At("stop") /\ platform = "macos"
  BY DEF Bootout, At
<1>2. ASSUME stopping' = stopping \cup {l \in {This} : held[l] # NoVersion}, Then("wait"),
             UNCHANGED <<unit, held, enabled, process, answer, ignored>>
      PROVE  SupervisionInv'
  <2>1. /\ stopping \subseteq stopping' /\ stopping' \subseteq stopping \cup {This}
        /\ \A l \in stopping' : held[l] # NoVersion
        /\ command' = [command EXCEPT !.step = "wait"]
    BY <1>1, <1>2 DEF Then, SupervisionInv, JobsAreHeld
  <2>2. SupervisionTypes'
    BY <1>1, <1>2, <2>1, CommandUnit DEF SupervisionInv, SupervisionTypes, Steps
  <2>3. JobsAreHeld'
    BY <1>1, <1>2, <2>1 DEF SupervisionInv, JobsAreHeld
  <2>4. (command').roots = command.roots /\ (command').step = "wait" /\ This' = This
    BY <1>1, <2>1, CommandUnit DEF SupervisionInv, This
  <2>5. process[This] = NoVersion \/ This \in stopping'
    BY <1>1, <1>2, CommandUnit DEF SupervisionInv, JobsAreHeld
  <2>6. CommandKnows'
    BY <1>1, <1>2, <2>4, <2>5 DEF CommandKnows, At, SupervisionInv
  <2>7. ASSUME NEW l \in Labels PROVE AnswerIsTrue(l)'
    <3>1. CASE l = This
      BY <3>1, <1>1, <1>2 DEF AnswerIsTrue, SupervisionInv, CommandKnows
    <3>2. CASE l # This
      BY <3>2, <1>2, <2>1, UntouchedLabel DEF AnswersStayTrue, SupervisionInv
    <3> QED
      BY <3>1, <3>2
  <2> QED
    BY <2>2, <2>3, <2>6, <2>7 DEF SupervisionInv, AnswersStayTrue
<1> QED
  BY <1>1, <1>2, FailsKeeps DEF Bootout

-----------------------------------------------------------------------------
(* systemd and the Task Scheduler. *)
LEMMA RereadHolds ==
    ASSUME SupervisionTypes, ~At("idle"), platform # "macos"
    PROVE  /\ Reread \in [Labels -> Nat]
           /\ Reread[This] = unit[Unit(command.roots)]
           /\ \A l \in Labels : l # This =>
                 Reread[l] = IF platform = "linux" THEN unit[<<l, {}>>] ELSE held[l]
<1>1. \A l \in Labels : unit[<<l, {}>>] \in Nat /\ held[l] \in Nat
  BY LabelHasUnit DEF SupervisionTypes
<1>2. unit[Unit(command.roots)] \in Nat /\ This \in Labels
        /\ (platform = "linux" => Unit(command.roots) = <<This, {}>>)
  BY CommandUnit DEF SupervisionTypes
<1>3. \A l \in Labels :
        Reread[l] = IF platform = "linux" THEN unit[<<l, {}>>]
                    ELSE IF l = This THEN unit[Unit(command.roots)] ELSE held[l]
  BY DEF Reread
<1>4. \A l \in Labels : Reread[l] \in Nat
  BY <1>1, <1>2, <1>3
<1>5. Reread \in [Labels -> Nat]
  BY <1>4 DEF Reread
<1> QED
  BY <1>2, <1>3, <1>5

(* Reading every definition again changes nothing for a label whose answer stands. *)
LEMMA RereadKeepsAnswers ==
    ASSUME SupervisionInv, platform' = platform, platform # "macos", ~At("idle"),
           held' = Reread, UNCHANGED <<unit, enabled, process, stopping>>,
           NEW l \in Labels, l # This, answer'[l] = answer[l], ignored'[l] = ignored[l]
    PROVE  AnswerIsTrue(l)'
<1>1. AnswerIsTrue(l)
  BY DEF AnswersStayTrue, SupervisionInv
<1>2. held'[l] = IF platform = "linux" THEN unit[<<l, {}>>] ELSE held[l]
  BY RereadHolds DEF SupervisionInv
<1>3. CASE platform = "linux"
  BY <1>1, <1>2, <1>3 DEF AnswerIsTrue, AtLogin
<1>4. CASE platform = "windows"
  BY <1>1, <1>2, <1>4 DEF AnswerIsTrue, AtLogin
<1> QED
  BY <1>3, <1>4 DEF SupervisionInv, SupervisionTypes

LEMMA RegisterKeeps ==
    ASSUME SupervisionInv, UNCHANGED <<platform, version>>, Register
    PROVE  SupervisionInv'
<1>1. ~At("idle") /\ At("register") /\ platform # "macos"
  BY DEF Register, At
<1>2. ASSUME held' = Reread, Then("boot"), UNCHANGED <<unit, enabled, process, stopping, answer, ignored>>
      PROVE  SupervisionInv'
  <2>1. (command').roots = command.roots /\ (command').step = "boot" /\ This' = This
        /\ command' \in [step : Steps, roots : RootLists, polls : Nat]
    BY <1>1, <1>2, CommandUnit DEF SupervisionInv, This, Then, Steps
  <2>2. SupervisionTypes'
    BY <1>1, <1>2, <2>1, RereadHolds DEF SupervisionInv, SupervisionTypes
  <2>3. JobsAreHeld'
    BY <1>1, <1>2 DEF SupervisionInv, JobsAreHeld
  <2>4. Unit(command.roots)' = Unit(command.roots)
    BY <2>1 DEF Unit
  <2>5. CommandKnows'
    BY <1>1, <1>2, <2>1, <2>4, RereadHolds DEF CommandKnows, At, SupervisionInv
  <2>6. ASSUME NEW l \in Labels PROVE AnswerIsTrue(l)'
    <3>1. CASE l = This
      BY <3>1, <1>1, <1>2 DEF AnswerIsTrue, SupervisionInv, CommandKnows
    <3>2. CASE l # This
      BY <3>2, <1>1, <1>2, RereadKeepsAnswers
    <3> QED
      BY <3>1, <3>2
  <2> QED
    BY <2>2, <2>3, <2>5, <2>6 DEF SupervisionInv, AnswersStayTrue
<1> QED
  BY <1>1, <1>2, FailsKeeps DEF Register

LEMMA RunKeeps ==
    ASSUME SupervisionInv, UNCHANGED <<platform, version>>, Run
    PROVE  SupervisionInv'
<1>1. ~At("idle") /\ At("boot") /\ platform # "macos"
  BY DEF Run, At
<1>2. ASSUME enabled' = IF platform = "linux" THEN enabled \cup {This} ELSE enabled,
             process' = Started(held[This]),
             command' = Resting, answer' = [answer EXCEPT ![This] = "installed"],
             UNCHANGED <<unit, held, stopping, ignored>>
      PROVE  SupervisionInv'
  <2>1. /\ This \in Labels /\ held[This] \in Nat /\ held[This] # NoVersion
        /\ held[This] = unit[Unit(command.roots)]
        /\ platform # "windows" => Unit(command.roots) = <<This, {}>>
    BY <1>1, CommandUnit DEF SupervisionInv, SupervisionTypes, CommandKnows
  <2>2. /\ process' \in [Labels -> Nat] /\ process'[This] # NoVersion
        /\ \A l \in Labels : l # This => process'[l] = process[l]
    BY <1>2, <2>1 DEF Started, SupervisionInv, SupervisionTypes
  <2>3. enabled' \subseteq Labels /\ (platform = "linux" => This \in enabled')
        /\ \A l \in Labels : l # This => (l \in enabled' <=> l \in enabled)
    BY <1>2, <2>1 DEF SupervisionInv, SupervisionTypes
  <2>4. SupervisionTypes'
    BY <1>2, <2>1, <2>2, <2>3 DEF SupervisionInv, SupervisionTypes
  <2>5. JobsAreHeld'
    BY <1>1, <1>2 DEF SupervisionInv, JobsAreHeld
  <2>6. CommandKnows'
    BY <1>2 DEF CommandKnows, At, Resting
  <2>7. ASSUME NEW l \in Labels PROVE AnswerIsTrue(l)'
    <3>1. CASE l = This
      <4>1. answer'[l] = "installed"
        BY <3>1, <1>2, <2>1 DEF SupervisionInv, SupervisionTypes
      <4>2. AtLogin(l)' = held[l]
        <5>1. CASE platform = "linux"
          BY <5>1, <3>1, <1>2, <2>1, <2>3 DEF AtLogin
        <5>2. CASE platform = "windows"
          BY <5>2, <3>1, <1>2 DEF AtLogin
        <5> QED
          BY <5>1, <5>2, <1>1 DEF SupervisionInv, SupervisionTypes
      <4> QED
        BY <4>1, <4>2, <3>1, <1>1, <1>2, <2>1, <2>2 DEF AnswerIsTrue
    <3>2. CASE l # This
      BY <3>2, <1>2, <2>2, <2>3, UntouchedLabel DEF AnswersStayTrue, SupervisionInv, SupervisionTypes
    <3> QED
      BY <3>1, <3>2
  <2> QED
    BY <2>4, <2>5, <2>6, <2>7 DEF SupervisionInv, AnswersStayTrue
<1> QED
  BY <1>1, <1>2, FailsKeeps DEF Run, Answer

LEMMA StopKeeps ==
    ASSUME SupervisionInv, UNCHANGED <<platform, version>>, Stop
    PROVE  SupervisionInv'
<1>1. ~At("idle") /\ At("stop") /\ platform # "macos"
  BY DEF Stop, At
<1>2. /\ enabled' \subseteq Labels /\ process' \in [Labels -> Nat]
      /\ \A l \in Labels : l # This =>
            /\ process'[l] = process[l] /\ (l \in enabled' <=> l \in enabled)
            /\ ignored'[l] = ignored[l]
      /\ ignored' \in [Labels -> SUBSET Calls]
      /\ "stop" \notin ignored'[This] => process'[This] = NoVersion
      /\ UNCHANGED <<unit, held, stopping, answer>>
  <2>1. This \in Labels
    BY <1>1, CommandUnit DEF SupervisionInv
  <2>2. CASE /\ enabled' = enabled \ {This} /\ process' = [process EXCEPT ![This] = NoVersion]
             /\ UNCHANGED ignored
    BY <2>1, <2>2 DEF Stop, SupervisionInv, SupervisionTypes, NoVersion
  <2>3. CASE /\ enabled' \in {enabled, enabled \ {This}} /\ UNCHANGED process
             /\ Ignores("stop")
    <3>1. ignored' \in [Labels -> SUBSET Calls] /\ "stop" \in ignored'[This]
            /\ \A l \in Labels : l # This => ignored'[l] = ignored[l]
      BY <2>1, <2>3 DEF Ignores, SupervisionInv, SupervisionTypes, Calls
    <3> QED
      BY <2>1, <2>3, <3>1 DEF Stop, SupervisionInv, SupervisionTypes
  <2> QED
    BY <2>2, <2>3 DEF Stop
<1>3. PICK next \in {"delete", "remove"} :
        command' = [command EXCEPT !.step = next] /\ (next = "delete" <=> platform = "windows")
  BY DEF Stop, Then
<1>4. /\ (command').roots = command.roots /\ (command').step = next /\ This' = This
      /\ command' \in [step : Steps, roots : RootLists, polls : Nat]
  BY <1>1, <1>3, CommandUnit DEF SupervisionInv, This, Steps
<1>5. SupervisionTypes'
  BY <1>2, <1>4 DEF SupervisionInv, SupervisionTypes
<1>6. JobsAreHeld'
  BY <1>1, <1>2 DEF SupervisionInv, JobsAreHeld
<1>7. CommandKnows'
  BY <1>1, <1>2, <1>3, <1>4 DEF CommandKnows, At, SupervisionInv
<1>8. ASSUME NEW l \in Labels PROVE AnswerIsTrue(l)'
  <2>1. CASE l = This
    BY <2>1, <1>1, <1>2 DEF AnswerIsTrue, SupervisionInv, CommandKnows
  <2>2. CASE l # This
    BY <2>2, <1>2, UntouchedLabel DEF AnswersStayTrue, SupervisionInv
  <2> QED
    BY <2>1, <2>2
<1> QED
  BY <1>5, <1>6, <1>7, <1>8 DEF SupervisionInv, AnswersStayTrue

-----------------------------------------------------------------------------
(* The rest of uninstall. *)
LEMMA WaitKeeps ==
    ASSUME SupervisionInv, UNCHANGED <<platform, version>>, Wait
    PROVE  SupervisionInv'
<1>1. ~At("idle") /\ At("wait") /\ UNCHANGED <<unit, held, enabled, process, stopping, answer>>
  BY DEF Wait, At
<1>2. command \in [step : Steps, roots : RootLists, polls : Nat]
  BY <1>1, CommandUnit DEF SupervisionInv
<1>3. PICK next \in {"wait", "remove"} :
        /\ (command').roots = command.roots /\ (command').step = next
        /\ command' \in [step : Steps, roots : RootLists, polls : Nat]
        /\ next = "remove" => held[This] = NoVersion \/ Ignores("print")
        /\ UNCHANGED ignored \/ Ignores("print")
  <2>1. CASE /\ command' = [command EXCEPT !.polls = @ + 1]
             /\ UNCHANGED ignored
    <3>1. /\ (command').roots = command.roots /\ (command').step = "wait"
          /\ command' \in [step : Steps, roots : RootLists, polls : Nat]
      BY <1>1, <1>2, <2>1 DEF At
    <3> QED
      BY <2>1, <3>1
  <2>2. CASE /\ IF held[This] = NoVersion THEN UNCHANGED ignored ELSE Ignores("print")
             /\ Then("remove")
    <3>1. /\ (command').roots = command.roots /\ (command').step = "remove"
          /\ command' \in [step : Steps, roots : RootLists, polls : Nat]
      BY <1>2, <2>2 DEF Then, Steps
    <3> QED
      BY <2>2, <3>1
  <2> QED
    BY <2>1, <2>2 DEF Wait
<1>4. This' = This
  BY <1>3 DEF This
<1>9. /\ ignored' \in [Labels -> SUBSET Calls]
      /\ \A l \in Labels : l # This => ignored'[l] = ignored[l]
      /\ Ignores("print") => "print" \in ignored'[This]
  BY <1>1, <1>3, CommandUnit DEF Ignores, SupervisionInv, SupervisionTypes, Calls
<1>5. SupervisionTypes'
  BY <1>1, <1>3, <1>9 DEF SupervisionInv, SupervisionTypes
<1>6. JobsAreHeld'
  BY <1>1 DEF SupervisionInv, JobsAreHeld
<1>7. CommandKnows'
  BY <1>1, <1>3, <1>4, <1>9 DEF CommandKnows, At, SupervisionInv
<1>8. ASSUME NEW l \in Labels PROVE AnswerIsTrue(l)'
  <2>1. CASE l = This
    BY <2>1, <1>1 DEF AnswerIsTrue, SupervisionInv, CommandKnows
  <2>2. CASE l # This
    BY <2>2, <1>1, <1>9, UntouchedLabel DEF AnswersStayTrue, SupervisionInv
  <2> QED
    BY <2>1, <2>2
<1> QED
  BY <1>5, <1>6, <1>7, <1>8 DEF SupervisionInv, AnswersStayTrue

LEMMA DeleteKeeps ==
    ASSUME SupervisionInv, UNCHANGED <<platform, version>>, Delete
    PROVE  SupervisionInv'
<1>1. /\ ~At("idle") /\ At("delete") /\ platform = "windows"
      /\ command' = [command EXCEPT !.step = "remove"]
      /\ UNCHANGED <<unit, enabled, process, stopping, answer>>
  BY DEF Delete, At, Then, SupervisionInv, CommandKnows
<1>2. /\ held' \in [Labels -> Nat] /\ ignored' \in [Labels -> SUBSET Calls]
      /\ \A l \in Labels : l # This => held'[l] = held[l] /\ ignored'[l] = ignored[l]
      /\ "delete" \notin ignored'[This] => held'[This] = NoVersion
      /\ "stop" \in ignored[This] => "stop" \in ignored'[This]
  <2>1. This \in Labels
    BY <1>1, CommandUnit DEF SupervisionInv
  <2>2. CASE held' = [held EXCEPT ![This] = NoVersion] /\ UNCHANGED ignored
    BY <2>1, <2>2 DEF SupervisionInv, SupervisionTypes, NoVersion
  <2>3. CASE UNCHANGED held /\ Ignores("delete")
    BY <2>1, <2>3 DEF Ignores, SupervisionInv, SupervisionTypes, Calls
  <2> QED
    BY <2>2, <2>3 DEF Delete
<1>3. /\ (command').roots = command.roots /\ (command').step = "remove" /\ This' = This
      /\ command' \in [step : Steps, roots : RootLists, polls : Nat]
  BY <1>1, CommandUnit DEF SupervisionInv, This, Steps
<1>4. SupervisionTypes'
  BY <1>1, <1>2, <1>3 DEF SupervisionInv, SupervisionTypes
<1>5. JobsAreHeld'
  BY <1>1 DEF SupervisionInv, JobsAreHeld
<1>6. CommandKnows'
  BY <1>1, <1>2, <1>3 DEF CommandKnows, At, SupervisionInv
<1>7. ASSUME NEW l \in Labels PROVE AnswerIsTrue(l)'
  <2>1. CASE l = This
    BY <2>1, <1>1 DEF AnswerIsTrue, SupervisionInv, CommandKnows
  <2>2. CASE l # This
    BY <2>2, <1>1, <1>2, UntouchedLabel DEF AnswersStayTrue, SupervisionInv
  <2> QED
    BY <2>1, <2>2
<1> QED
  BY <1>4, <1>5, <1>6, <1>7 DEF SupervisionInv, AnswersStayTrue

LEMMA RemoveUnitKeeps ==
    ASSUME SupervisionInv, UNCHANGED <<platform, version>>, RemoveUnit
    PROVE  SupervisionInv'
<1>1. ~At("idle") /\ At("remove")
  BY DEF RemoveUnit, At
<1>2. ASSUME unit' = [unit EXCEPT ![Unit(command.roots)] = NoVersion],
             IF platform = "linux" THEN Then("reload") /\ UNCHANGED answer
                                   ELSE Answer("uninstalled"),
             UNCHANGED <<held, enabled, process, stopping, ignored>>
      PROVE  SupervisionInv'
  <2>1. /\ unit' \in [Units -> Nat] /\ unit'[Unit(command.roots)] = NoVersion
        /\ \A l \in Labels : l # This => unit'[<<l, {}>>] = unit[<<l, {}>>]
    BY <1>1, <1>2, CommandUnit, LabelHasUnit DEF SupervisionInv, SupervisionTypes, NoVersion
  <2>2. CASE platform = "linux"
    <3>1. (command').roots = command.roots /\ (command').step = "reload" /\ This' = This
          /\ command' \in [step : Steps, roots : RootLists, polls : Nat]
      BY <2>2, <1>1, <1>2, CommandUnit DEF SupervisionInv, This, Then, Steps
    <3>2. UNCHANGED answer /\ Unit(command.roots)' = Unit(command.roots)
      BY <2>2, <1>2, <3>1 DEF Unit
    <3>3. SupervisionTypes' /\ JobsAreHeld'
      BY <1>2, <2>1, <3>1, <3>2 DEF SupervisionInv, SupervisionTypes, JobsAreHeld
    <3>4. CommandKnows'
      BY <1>1, <1>2, <2>1, <2>2, <3>1, <3>2 DEF CommandKnows, At, SupervisionInv
    <3>5. ASSUME NEW l \in Labels PROVE AnswerIsTrue(l)'
      <4>1. CASE l = This
        BY <4>1, <1>1, <3>2 DEF AnswerIsTrue, SupervisionInv, CommandKnows
      <4>2. CASE l # This
        BY <4>2, <1>2, <2>1, <3>2, UntouchedLabel DEF AnswersStayTrue, SupervisionInv
      <4> QED
        BY <4>1, <4>2
    <3> QED
      BY <3>3, <3>4, <3>5 DEF SupervisionInv, AnswersStayTrue
  <2>3. CASE platform # "linux"
    <3>1. This \in Labels /\ (platform = "macos" => Unit(command.roots) = <<This, {}>>)
      BY <1>1, CommandUnit DEF SupervisionInv
    <3>2. command' = Resting /\ answer' = [answer EXCEPT ![This] = "uninstalled"]
      BY <2>3, <1>2 DEF Answer
    <3>3. SupervisionTypes' /\ JobsAreHeld'
      BY <1>2, <2>1, <3>1, <3>2 DEF SupervisionInv, SupervisionTypes, JobsAreHeld
    <3>4. CommandKnows'
      BY <3>2 DEF CommandKnows, At, Resting
    <3>5. ASSUME NEW l \in Labels PROVE AnswerIsTrue(l)'
      <4>1. CASE l = This
        <5>1. answer'[l] = "uninstalled"
          BY <4>1, <3>1, <3>2 DEF SupervisionInv, SupervisionTypes
        <5>2. platform = "macos" => AtLogin(l)' = NoVersion /\ unit'[<<l, {}>>] = NoVersion
          BY <4>1, <2>1, <3>1 DEF AtLogin
        <5>4. /\ ignored[l] = {} => process[l] = NoVersion /\ held[l] = NoVersion
              /\ platform = "windows" /\ "delete" \notin ignored[l] => held[l] = NoVersion
          <6>1. platform = "macos" \/ platform = "windows"
            BY <2>3 DEF SupervisionInv, SupervisionTypes
          <6> QED
            BY <4>1, <6>1, <1>1, <3>1 DEF SupervisionInv, CommandKnows, JobsAreHeld
        <5>5. platform = "windows" => AtLogin(l)' = held[l]
          BY <1>2 DEF AtLogin
        <5>3. platform = "macos" => process[l] = NoVersion \/ l \in stopping
          BY <4>1, <1>1 DEF SupervisionInv, CommandKnows
        <5> QED
          BY <5>1, <5>2, <5>3, <5>4, <5>5, <1>2, <2>3
             DEF AnswerIsTrue, SupervisionInv, SupervisionTypes
      <4>2. CASE l # This
        BY <4>2, <1>2, <2>1, <3>2, UntouchedLabel
           DEF AnswersStayTrue, SupervisionInv, SupervisionTypes
      <4> QED
        BY <4>1, <4>2
    <3> QED
      BY <3>3, <3>4, <3>5 DEF SupervisionInv, AnswersStayTrue
  <2> QED
    BY <2>2, <2>3
<1> QED
  BY <1>1, <1>2, FailsKeeps DEF RemoveUnit

LEMMA ReloadKeeps ==
    ASSUME SupervisionInv, UNCHANGED <<platform, version>>, Reload
    PROVE  SupervisionInv'
<1>1. /\ ~At("idle") /\ platform = "linux" /\ This \in Labels
      /\ Unit(command.roots) = <<This, {}>> /\ unit[<<This, {}>>] = NoVersion
  BY CommandUnit DEF Reload, At, SupervisionInv, CommandKnows
<1>2. /\ command' = Resting /\ answer' = [answer EXCEPT ![This] = "uninstalled"]
      /\ UNCHANGED <<unit, enabled, process, stopping>>
  BY DEF Reload, Answer
<1>3. /\ held' = held \/ held' = Reread
      /\ ignored' \in [Labels -> SUBSET Calls]
      /\ \A l \in Labels : l # This => ignored'[l] = ignored[l]
      /\ ignored'[This] = {} => ignored[This] = {} /\ held' = Reread
  <2>1. CASE held' = Reread /\ UNCHANGED ignored
    BY <2>1 DEF SupervisionInv, SupervisionTypes
  <2>2. CASE UNCHANGED held /\ Ignores("reload")
    BY <2>2, <1>1 DEF Ignores, SupervisionInv, SupervisionTypes, Calls
  <2> QED
    BY <2>1, <2>2 DEF Reload
<1>8. /\ Reread[This] = NoVersion
      /\ ignored[This] = {} => process[This] = NoVersion
  BY <1>1, RereadHolds DEF Reload, SupervisionInv, CommandKnows
<1>4. SupervisionTypes'
  BY <1>1, <1>2, <1>3, RereadHolds DEF SupervisionInv, SupervisionTypes
<1>5. JobsAreHeld'
  BY <1>1, <1>2 DEF SupervisionInv, JobsAreHeld
<1>6. CommandKnows'
  BY <1>2 DEF CommandKnows, At, Resting
<1>7. ASSUME NEW l \in Labels PROVE AnswerIsTrue(l)'
  <2>1. CASE l = This
    <3>1. answer'[l] = "uninstalled"
      BY <2>1, <1>1, <1>2 DEF SupervisionInv, SupervisionTypes
    <3>2. AtLogin(l)' = NoVersion /\ unit'[<<l, {}>>] = NoVersion
      BY <2>1, <1>1, <1>2 DEF AtLogin
    <3>3. ignored'[l] = {} => process'[l] = NoVersion /\ held'[l] = NoVersion
      BY <2>1, <1>2, <1>3, <1>8
    <3> QED
      BY <3>1, <3>2, <3>3, <1>1 DEF AnswerIsTrue
  <2>2. CASE l # This
    <3>1. answer'[l] = answer[l]
      BY <2>2, <1>2 DEF SupervisionInv, SupervisionTypes
    <3>2. CASE held' = held
      BY <2>2, <3>1, <3>2, <1>2, <1>3, UntouchedLabel DEF AnswersStayTrue, SupervisionInv
    <3>3. CASE held' = Reread
      BY <3>1, <3>3, <2>2, <1>1, <1>2, <1>3, RereadKeepsAnswers
    <3> QED
      BY <3>2, <3>3, <1>3
  <2> QED
    BY <2>1, <2>2
<1> QED
  BY <1>4, <1>5, <1>6, <1>7 DEF SupervisionInv, AnswersStayTrue

-----------------------------------------------------------------------------
(* What happens around a command. *)
LEMMA InterruptKeeps ==
    ASSUME SupervisionInv, UNCHANGED <<platform, version>>, Interrupt
    PROVE  SupervisionInv'
<1>1. command' = Resting /\ UNCHANGED <<unit, held, enabled, process, stopping, answer, ignored>>
  BY DEF Interrupt
<1>2. SupervisionTypes' /\ JobsAreHeld' /\ CommandKnows'
  BY <1>1 DEF SupervisionInv, SupervisionTypes, JobsAreHeld, CommandKnows, At, Resting
<1>3. ASSUME NEW l \in Labels PROVE AnswerIsTrue(l)'
  BY <1>1, UntouchedLabel DEF AnswersStayTrue, SupervisionInv
<1> QED
  BY <1>2, <1>3 DEF SupervisionInv, AnswersStayTrue

(* A job that goes is one whose answer is not "installed". *)
LEMMA JobGoneKeeps ==
    ASSUME SupervisionInv, UNCHANGED <<platform, version>>, JobGone
    PROVE  SupervisionInv'
<1>1. PICK k \in stopping :
        /\ held' = [held EXCEPT ![k] = NoVersion]
        /\ process' = [process EXCEPT ![k] = NoVersion]
        /\ stopping' = stopping \ {k}
        /\ UNCHANGED <<unit, enabled, command, answer, ignored>>
  BY DEF JobGone
<1>2. platform = "macos" /\ k \in Labels
  BY DEF SupervisionInv, JobsAreHeld, SupervisionTypes
<1>3. SupervisionTypes'
  BY <1>1, <1>2 DEF SupervisionInv, SupervisionTypes, NoVersion
<1>4. JobsAreHeld'
  BY <1>1, <1>2 DEF SupervisionInv, JobsAreHeld, SupervisionTypes
<1>5. This' = This /\ Unit(command.roots)' = Unit(command.roots)
  BY <1>1 DEF This, Unit
<1>6. ~At("idle") => This \in Labels
  BY CommandUnit DEF SupervisionInv
<1>7. CommandKnows'
  BY <1>1, <1>2, <1>5, <1>6 DEF CommandKnows, At, SupervisionInv, SupervisionTypes
<1>8. ASSUME NEW l \in Labels PROVE AnswerIsTrue(l)'
  <2>1. CASE l = k
    <3>1. AnswerIsTrue(l) /\ AtLogin(l)' = AtLogin(l)
      BY <1>1, <1>2 DEF AnswersStayTrue, SupervisionInv, AtLogin
    <3>2. process'[l] = NoVersion
      BY <2>1, <1>1, <1>2 DEF SupervisionInv, SupervisionTypes
    <3> QED
      BY <3>1, <3>2, <2>1, <1>1, <1>2 DEF AnswerIsTrue
  <2>2. CASE l # k
    BY <2>2, <1>1, UntouchedLabel DEF AnswersStayTrue, SupervisionInv, SupervisionTypes
  <2> QED
    BY <2>1, <2>2
<1> QED
  BY <1>3, <1>4, <1>7, <1>8 DEF SupervisionInv, AnswersStayTrue

LEMMA CrashKeeps ==
    ASSUME SupervisionInv, UNCHANGED <<platform, version>>, Crash
    PROVE  SupervisionInv'
<1>1. PICK k \in Labels \ stopping :
        /\ process[k] # NoVersion
        /\ process' \in {[process EXCEPT ![k] = v] :
                            v \in {held[k]} \cup {n \in {NoVersion} : platform = "windows"}}
        /\ UNCHANGED <<unit, held, enabled, stopping, command, answer, ignored>>
  BY DEF Crash
<1>2. PICK v \in Nat :
        /\ platform # "windows" => v = held[k]
        /\ process' = [process EXCEPT ![k] = v]
  BY <1>1 DEF SupervisionInv, SupervisionTypes, NoVersion
<1>3. SupervisionTypes'
  BY <1>1, <1>2 DEF SupervisionInv, SupervisionTypes
<1>4. JobsAreHeld'
  BY <1>1, <1>2 DEF SupervisionInv, JobsAreHeld, SupervisionTypes
<1>5. This' = This /\ Unit(command.roots)' = Unit(command.roots)
  BY <1>1 DEF This, Unit
<1>6. ~At("idle") => This \in Labels
  BY CommandUnit DEF SupervisionInv
<1>7. CommandKnows'
  BY <1>1, <1>2, <1>5, <1>6 DEF CommandKnows, At, SupervisionInv, SupervisionTypes
<1>8. ASSUME NEW l \in Labels PROVE AnswerIsTrue(l)'
  <2>1. CASE l = k
    <3>1. AnswerIsTrue(l) /\ AtLogin(l)' = AtLogin(l)
      BY <1>1 DEF AnswersStayTrue, SupervisionInv, AtLogin
    <3>2. process'[l] = v
      BY <2>1, <1>2 DEF SupervisionInv, SupervisionTypes
    <3> QED
      BY <3>1, <3>2, <2>1, <1>1, <1>2 DEF AnswerIsTrue
  <2>2. CASE l # k
    BY <2>2, <1>1, UntouchedLabel DEF AnswersStayTrue, SupervisionInv, SupervisionTypes
  <2> QED
    BY <2>1, <2>2
<1> QED
  BY <1>3, <1>4, <1>7, <1>8 DEF SupervisionInv, AnswersStayTrue

LEMMA ReloginKeeps ==
    ASSUME SupervisionInv, UNCHANGED <<platform, version>>, Relogin
    PROVE  SupervisionInv'
<1>1. /\ \A l \in Labels : process'[l] = AtLogin(l)
      /\ \A l \in Labels : held'[l] = IF platform = "windows" THEN held[l] ELSE unit[<<l, {}>>]
      /\ stopping' = {} /\ command' = Resting /\ UNCHANGED <<unit, enabled, answer, ignored>>
  BY DEF Relogin
<1>2. \A l \in Labels : /\ unit[<<l, {}>>] \in Nat /\ held[l] \in Nat /\ AtLogin(l) \in Nat
                        /\ AtLogin(l) # NoVersion /\ platform # "windows" =>
                              unit[<<l, {}>>] = AtLogin(l)
                        /\ platform = "macos" => unit[<<l, {}>>] = AtLogin(l)
  <2> SUFFICES ASSUME NEW l \in Labels
               PROVE  /\ unit[<<l, {}>>] \in Nat /\ held[l] \in Nat /\ AtLogin(l) \in Nat
                      /\ AtLogin(l) # NoVersion /\ platform # "windows" =>
                            unit[<<l, {}>>] = AtLogin(l)
                      /\ platform = "macos" => unit[<<l, {}>>] = AtLogin(l)
    OBVIOUS
  <2>1. unit[<<l, {}>>] \in Nat /\ held[l] \in Nat
    BY LabelHasUnit DEF SupervisionInv, SupervisionTypes
  <2> QED
    BY <2>1 DEF AtLogin, NoVersion, SupervisionInv, SupervisionTypes
<1>3. process' \in [Labels -> Nat] /\ held' \in [Labels -> Nat]
  BY <1>2 DEF Relogin
<1>4. SupervisionTypes'
  BY <1>1, <1>3 DEF SupervisionInv, SupervisionTypes
<1>5. JobsAreHeld'
  BY <1>1, <1>2 DEF JobsAreHeld
<1>6. CommandKnows'
  BY <1>1 DEF CommandKnows, At, Resting
<1>7. ASSUME NEW l \in Labels PROVE AnswerIsTrue(l)'
  <2>1. AnswerIsTrue(l)
    BY DEF AnswersStayTrue, SupervisionInv
  <2>2. platform # "windows" => AtLogin(l)' = AtLogin(l)
    BY <1>1 DEF AtLogin, SupervisionInv, SupervisionTypes
  <2>3. platform = "windows" => AtLogin(l)' = held'[l] /\ AtLogin(l) = held[l] /\ held'[l] = held[l]
    BY <1>1 DEF AtLogin
  <2> QED
    BY <1>1, <1>2, <2>1, <2>2, <2>3 DEF AnswerIsTrue
<1> QED
  BY <1>4, <1>5, <1>6, <1>7 DEF SupervisionInv, AnswersStayTrue

LEMMA UpgradeKeeps ==
    ASSUME SupervisionInv, UNCHANGED platform, Upgrade
    PROVE  SupervisionInv'
<1>1. version' = version + 1 /\ UNCHANGED <<unit, held, enabled, process, stopping, command, answer, ignored>>
  BY DEF Upgrade
<1>2. SupervisionTypes'
  BY <1>1 DEF SupervisionInv, SupervisionTypes, NoVersion
<1>3. JobsAreHeld' /\ CommandKnows'
  BY <1>1 DEF SupervisionInv, JobsAreHeld, CommandKnows, At, This, Unit
<1>4. ASSUME NEW l \in Labels PROVE AnswerIsTrue(l)'
  BY <1>1, UntouchedLabel DEF AnswersStayTrue, SupervisionInv
<1> QED
  BY <1>2, <1>3, <1>4 DEF SupervisionInv, AnswersStayTrue

-----------------------------------------------------------------------------
LEMMA SupervisionInvInit == SupervisionInit => SupervisionInv
<1> SUFFICES ASSUME SupervisionInit PROVE SupervisionInv
  OBVIOUS
<1>1. SupervisionTypes /\ JobsAreHeld /\ CommandKnows
  BY DEF SupervisionInit, SupervisionTypes, JobsAreHeld, CommandKnows, At, Resting, NoVersion
<1>2. AnswersStayTrue
  BY DEF AnswerIsTrue, SupervisionInit, AnswersStayTrue
<1> QED
  BY <1>1, <1>2 DEF SupervisionInv

(* What a command knows while it is under way, and what the supervisor of each platform  *)
(* holds, are consistent in every reachable state (daemon/mod.rs and its adapters).      *)
THEOREM SupervisionInvariant == SupervisionSpec => []SupervisionInv
<1>1. ASSUME SupervisionInv, SupervisionNext PROVE SupervisionInv'
  <2>1. UNCHANGED platform
    BY <1>1 DEF SupervisionNext
  <2>2. CASE UNCHANGED version /\ (Start("write") \/ Start("stop"))
    BY <2>1, <2>2, <1>1, StartKeeps
  <2>3. CASE UNCHANGED version /\ CommandStep
    BY <2>1, <2>3, <1>1, WriteUnitKeeps, BootoutBeforeInstallKeeps, BootstrapKeeps,
       RegisterKeeps, RunKeeps, BootoutKeeps, WaitKeeps, StopKeeps, DeleteKeeps,
       RemoveUnitKeeps, ReloadKeeps
       DEF CommandStep
  <2>4. CASE UNCHANGED version /\ (Interrupt \/ JobGone \/ Crash \/ Relogin)
    BY <2>1, <2>4, <1>1, InterruptKeeps, JobGoneKeeps, CrashKeeps, ReloginKeeps
  <2>5. CASE Upgrade
    BY <2>1, <2>5, <1>1, UpgradeKeeps
  <2> QED
    BY <2>2, <2>3, <2>4, <2>5, <1>1 DEF SupervisionNext
<1>2. ASSUME SupervisionInv, UNCHANGED supVars PROVE SupervisionInv'
  <2>1. SupervisionTypes' /\ JobsAreHeld' /\ CommandKnows'
    BY <1>2 DEF supVars, SupervisionInv, SupervisionTypes, JobsAreHeld, CommandKnows, At, This, Unit
  <2>2. ASSUME NEW l \in Labels PROVE AnswerIsTrue(l)'
    BY <1>2, UntouchedLabel DEF AnswersStayTrue, supVars, SupervisionInv
  <2> QED
    BY <2>1, <2>2 DEF SupervisionInv, AnswersStayTrue
<1>3. SupervisionInv /\ [SupervisionNext]_supVars => SupervisionInv'
  BY <1>1, <1>2
<1> QED
  BY SupervisionInvInit, <1>3, PTL DEF SupervisionSpec

(* What the last command answered of a set of roots stays true through crashes, logins,  *)
(* upgrades and commands for other roots, on each platform; of an uninstall that passed  *)
(* a failed call over, what its other calls did (daemon/mod.rs, macos.rs, linux.rs,      *)
(* windows.rs).                                                                          *)
THEOREM AnswersStayTrueAlways == SupervisionSpec => []AnswersStayTrue
<1>1. SupervisionInv => AnswersStayTrue
  BY DEF SupervisionInv
<1> QED
  BY SupervisionInvariant, <1>1, PTL
-----------------------------------------------------------------------------
(* ATLAS.idx: the lines of a file by their tags.                           *)

SeenIn(s, scope) ==
    IF scope = "galaxy" THEN s.entities ELSE {e \in s.entities : e.id = scope \/ e.parent = scope}
IdsIn(s, scope) == {e.id : e \in SeenIn(s, scope)}
EdgesIn(s, scope) == {d \in s.edges : d.from \in IdsIn(s, scope) \/ d.to \in IdsIn(s, scope)}
RecordsIn(s, scope) == {r \in s.records : scope = "galaxy" \/ r.scope \in IdsIn(s, scope)}
SocketsIn(s, scope) == UNION {e.sockets : e \in SeenIn(s, scope)}
ReferencedIn(s, scope) ==
    {r.source : r \in {q \in RecordsIn(s, scope) : q.type # "@summary"}}
      \cup {d.source : d \in EdgesIn(s, scope)} \cup {k.source : k \in SocketsIn(s, scope)}

EntityPart(s, scope)   == {EntityLine(e) : e \in SeenIn(s, scope)}
SummaryPart(s, scope)  == SummaryLines(SeenIn(s, scope), RecordsIn(s, scope))
EdgePart(s, scope)     == {EdgeLine(d) : d \in EdgesIn(s, scope)}
RecordPart(s, scope)   == {RecordLine(r) : r \in {q \in RecordsIn(s, scope) : q.type # "@summary"}}
ClausePart(s, scope)   == ClauseLines(SeenIn(s, scope))
EvidencePart(s, scope) ==
    UNION {{EvidenceLine(e.id, v) : v \in e.evidence \cup e.inherited} : e \in SeenIn(s, scope)}
EdgeEvidencePart(s, scope) ==
    UNION {{EvidenceLine(d.id, v) : v \in d.evidence} : d \in EdgesIn(s, scope)}
GreenPart(s, scope) == UNION {{GreenLine(e.id, g) : g \in e.green} : e \in SeenIn(s, scope)}
ConflictPart(s) == {[tag |-> "@conflict", id |-> c.id, says |-> c.says] : c \in s.conflicts}
ChildPart(s, scope) == IF scope = "galaxy" THEN {} ELSE ChildLines(s, scope)
SourcePart(s, scope) ==
    {SourceLine(x) : x \in {t \in s.sources : t.id \in ReferencedIn(s, scope)}}
SocketPart(s, scope) == {SocketLine(k) : k \in SocketsIn(s, scope)}
FitPart(s, scope)    == {FitLine(k) : k \in {t \in SocketsIn(s, scope) : t.resolution.kind = "fit"}}
HolePart(s, scope)   == {HoleLine(k) : k \in {t \in SocketsIn(s, scope) : t.resolution.kind = "hole"}}
UncertainPart(s, scope) == UncertaintyLines(SeenIn(s, scope))

LEMMA EncodeParts ==
    ASSUME NEW s, NEW scope
    PROVE  Encode(s, scope) =
             [scope |-> IF scope = "galaxy" THEN "galaxy" ELSE "folder",
              snapshot |-> s.id,
              lines |-> EntityPart(s, scope) \cup SummaryPart(s, scope) \cup EdgePart(s, scope)
                          \cup RecordPart(s, scope) \cup ClausePart(s, scope)
                          \cup EvidencePart(s, scope) \cup EdgeEvidencePart(s, scope)
                          \cup GreenPart(s, scope) \cup ConflictPart(s) \cup ChildPart(s, scope)
                          \cup SourcePart(s, scope) \cup SocketPart(s, scope)
                          \cup FitPart(s, scope) \cup HolePart(s, scope)
                          \cup UncertainPart(s, scope)]
BY DEF Encode, SeenIn, IdsIn, EdgesIn, RecordsIn, SocketsIn, ReferencedIn, EntityPart,
       SummaryPart, EdgePart, RecordPart, ClausePart, EvidencePart, EdgeEvidencePart, GreenPart,
       ConflictPart, ChildPart, SourcePart, SocketPart, FitPart, HolePart, UncertainPart

Typed(s) == \A r \in s.records : r.type \in RecordTags

LEMMA TagsOfParts ==
    ASSUME NEW s, NEW scope, Typed(s)
    PROVE  /\ \A l \in EntityPart(s, scope) : l.tag = "@entity"
           /\ \A l \in SummaryPart(s, scope) : l.tag = "@summary"
           /\ \A l \in EdgePart(s, scope) : l.tag = "@edge"
           /\ \A l \in RecordPart(s, scope) : l.tag \in RecordTags \ {"@summary"}
           /\ \A l \in ClausePart(s, scope) : l.tag = "@constraint"
           /\ \A l \in EvidencePart(s, scope) : l.tag = "@evidence"
           /\ \A l \in EdgeEvidencePart(s, scope) : l.tag = "@evidence"
           /\ \A l \in GreenPart(s, scope) : l.tag = "@green"
           /\ \A l \in ConflictPart(s) : l.tag = "@conflict"
           /\ \A l \in ChildPart(s, scope) : l.tag = "@child"
           /\ \A l \in SourcePart(s, scope) : l.tag = "@source"
           /\ \A l \in SocketPart(s, scope) : l.tag = "@socket"
           /\ \A l \in FitPart(s, scope) : l.tag = "@fit"
           /\ \A l \in HolePart(s, scope) : l.tag = "@hole"
           /\ \A l \in UncertainPart(s, scope) : l.tag = "@uncertainty"
<1>1. \A l \in EntityPart(s, scope) : l.tag = "@entity"
  BY DEF EntityPart, EntityLine
<1>2. \A l \in SummaryPart(s, scope) : l.tag = "@summary"
  <2> DEFINE es == SeenIn(s, scope)
             rs == RecordsIn(s, scope)
             own == {[tag |-> "@summary", id |-> e.id, made |-> FALSE, source |-> "parsed",
                      authority |-> None, text |-> e.summary] : e \in {d \in es : d.summary # NoText}}
             guesses == UNION {{[tag |-> "@summary", id |-> <<e.id, "inferred", i>>, made |-> TRUE,
                      source |-> "inferred", authority |-> None, text |-> e.inferred[i]] :
                         i \in DOMAIN e.inferred} : e \in es}
             noted == {[tag |-> "@summary", id |-> r.id, made |-> FALSE, source |-> SummarySource(r.authority),
                      authority |-> r.authority, text |-> r.text] :
                        r \in {q \in rs : q.type = "@summary"}}
  <2>1. SummaryPart(s, scope) = (own \cup guesses) \cup noted
    BY DEF SummaryPart, SummaryLines
  <2>2. \A l \in own : l.tag = "@summary"
    OBVIOUS
  <2>3. \A l \in guesses : l.tag = "@summary"
    OBVIOUS
  <2>4. \A l \in noted : l.tag = "@summary"
    OBVIOUS
  <2> QED
    BY <2>1, <2>2, <2>3, <2>4
<1>3. \A l \in EdgePart(s, scope) : l.tag = "@edge"
  BY DEF EdgePart, EdgeLine
<1>4. \A l \in RecordPart(s, scope) : l.tag \in RecordTags \ {"@summary"}
  BY DEF RecordPart, RecordLine, RecordsIn, Typed
<1>5. \A l \in ClausePart(s, scope) : l.tag = "@constraint"
  BY DEF ClausePart, ClauseLines
<1>6. \A l \in EvidencePart(s, scope) : l.tag = "@evidence"
  BY DEF EvidencePart, EvidenceLine
<1>7. \A l \in EdgeEvidencePart(s, scope) : l.tag = "@evidence"
  BY DEF EdgeEvidencePart, EvidenceLine
<1>8. \A l \in GreenPart(s, scope) : l.tag = "@green"
  BY DEF GreenPart, GreenLine
<1>9. \A l \in ConflictPart(s) : l.tag = "@conflict"
  BY DEF ConflictPart
<1>10. \A l \in ChildPart(s, scope) : l.tag = "@child"
  <2>1. \A l \in ChildLines(s, scope) : l.tag = "@child"
    BY DEF ChildLines
  <2> QED
    BY <2>1 DEF ChildPart
<1>11. \A l \in SourcePart(s, scope) : l.tag = "@source"
  BY DEF SourcePart, SourceLine
<1>12. \A l \in SocketPart(s, scope) : l.tag = "@socket"
  BY DEF SocketPart, SocketLine
<1>13. \A l \in FitPart(s, scope) : l.tag = "@fit"
  BY DEF FitPart, FitLine
<1>14. \A l \in HolePart(s, scope) : l.tag = "@hole"
  BY DEF HolePart, HoleLine
<1>15. \A l \in UncertainPart(s, scope) : l.tag = "@uncertainty"
  BY DEF UncertainPart, UncertaintyLines
<1> QED
  BY <1>1, <1>2, <1>3, <1>4, <1>5, <1>6, <1>7, <1>8, <1>9, <1>10, <1>11, <1>12, <1>13,
     <1>14, <1>15

LEMMA LinesByTag ==
    ASSUME NEW s, NEW scope, Typed(s)
    PROVE  LET file == Encode(s, scope)
           IN  /\ file.snapshot = s.id
               /\ scope = "galaxy" => file.scope = "galaxy"
               /\ Lines(file, "@entity") = EntityPart(s, scope)
               /\ Lines(file, "@edge") = EdgePart(s, scope)
               /\ Lines(file, "@evidence") = EvidencePart(s, scope) \cup EdgeEvidencePart(s, scope)
               /\ Lines(file, "@green") = GreenPart(s, scope)
               /\ Lines(file, "@conflict") = ConflictPart(s)
               /\ Lines(file, "@source") = SourcePart(s, scope)
               /\ Lines(file, "@socket") = SocketPart(s, scope)
               /\ Lines(file, "@fit") = FitPart(s, scope)
               /\ Lines(file, "@hole") = HolePart(s, scope)
               /\ {l \in file.lines : l.tag \in RecordTags}
                    = SummaryPart(s, scope) \cup RecordPart(s, scope) \cup ClausePart(s, scope)
<1> DEFINE file == Encode(s, scope)
<1>1. /\ file.snapshot = s.id
      /\ scope = "galaxy" => file.scope = "galaxy"
      /\ file.lines = EntityPart(s, scope) \cup SummaryPart(s, scope) \cup EdgePart(s, scope)
                          \cup RecordPart(s, scope) \cup ClausePart(s, scope)
                          \cup EvidencePart(s, scope) \cup EdgeEvidencePart(s, scope)
                          \cup GreenPart(s, scope) \cup ConflictPart(s) \cup ChildPart(s, scope)
                          \cup SourcePart(s, scope) \cup SocketPart(s, scope)
                          \cup FitPart(s, scope) \cup HolePart(s, scope)
                          \cup UncertainPart(s, scope)
  BY EncodeParts
<1> HIDE DEF file
<1>2. Lines(file, "@entity") = EntityPart(s, scope)
  BY <1>1, TagsOfParts DEF Lines, RecordTags
<1>3. Lines(file, "@edge") = EdgePart(s, scope)
  BY <1>1, TagsOfParts DEF Lines, RecordTags
<1>4. Lines(file, "@evidence") = EvidencePart(s, scope) \cup EdgeEvidencePart(s, scope)
  BY <1>1, TagsOfParts DEF Lines, RecordTags
<1>5. Lines(file, "@green") = GreenPart(s, scope)
  BY <1>1, TagsOfParts DEF Lines, RecordTags
<1>6. Lines(file, "@conflict") = ConflictPart(s)
  BY <1>1, TagsOfParts DEF Lines, RecordTags
<1>7. Lines(file, "@source") = SourcePart(s, scope)
  BY <1>1, TagsOfParts DEF Lines, RecordTags
<1>8. Lines(file, "@socket") = SocketPart(s, scope)
  BY <1>1, TagsOfParts DEF Lines, RecordTags
<1>9. Lines(file, "@fit") = FitPart(s, scope)
  BY <1>1, TagsOfParts DEF Lines, RecordTags
<1>10. Lines(file, "@hole") = HolePart(s, scope)
  BY <1>1, TagsOfParts DEF Lines, RecordTags
<1>11. {l \in file.lines : l.tag \in RecordTags}
         = SummaryPart(s, scope) \cup RecordPart(s, scope) \cup ClausePart(s, scope)
  BY <1>1, TagsOfParts DEF RecordTags
<1> QED
  BY <1>1, <1>2, <1>3, <1>4, <1>5, <1>6, <1>7, <1>8, <1>9, <1>10, <1>11 DEF file

-----------------------------------------------------------------------------
(* What an entity is decoded to.                                           *)

EvidenceParsed(file, i) ==
    {ParseEvidence(l) : l \in {m \in Lines(file, "@evidence") : m.target = i}}
GreenParsed(file, i) == {ParseGreen(l) : l \in {m \in Lines(file, "@green") : m.target = i}}
SocketsParsed(file, i) ==
    {ParseSocket(file, l) : l \in {m \in Lines(file, "@socket") : m.entity = i}}

\* A socket with its resolution, or with none when another of its identity follows it.
Kept(sockets, k) ==
    [id |-> k.id, copy |-> k.copy, entity |-> k.entity, source |-> k.source, says |-> k.says,
     resolution |-> IF Found(sockets, k) THEN k.resolution ELSE Unresolved]

Revived(e) ==
    [id |-> e.id, scale |-> e.scale, parent |-> e.parent, path |-> e.path, says |-> e.says,
     aside |-> None, summary |-> NoText, inferred |-> <<>>, clauses |-> <<>>,
     uncertainty |-> <<>>, evidence |-> {ParseEvidence(v) : v \in e.evidence \cup e.inherited},
     inherited |-> {}, green |-> {ParseGreen(g) : g \in e.green},
     sockets |-> {Kept(e.sockets, k) : k \in e.sockets}]

LEMMA Attached ==
    ASSUME NEW file, NEW l
    PROVE  AttachEntity(file, ParseEntity(l)) =
             [id |-> l.id, scale |-> l.scale, parent |-> l.parent, path |-> l.path,
              says |-> l.says, aside |-> None, summary |-> NoText, inferred |-> <<>>,
              clauses |-> <<>>, uncertainty |-> <<>>, evidence |-> EvidenceParsed(file, l.id),
              inherited |-> {}, green |-> GreenParsed(file, l.id), sockets |-> SocketsParsed(file, l.id)]
<1> DEFINE e == ParseEntity(l)
<1>1. e = [id |-> l.id, scale |-> l.scale, parent |-> l.parent, path |-> l.path,
           says |-> l.says, aside |-> None, summary |-> NoText, inferred |-> <<>>,
           clauses |-> <<>>, uncertainty |-> <<>>, evidence |-> {}, inherited |-> {},
           green |-> {}, sockets |-> {}]
  BY DEF ParseEntity
<1>2. e.id = l.id
  BY <1>1
<1>3. AttachEntity(file, e) = [e EXCEPT !.green = GreenParsed(file, e.id),
                                        !.evidence = EvidenceParsed(file, e.id),
                                        !.sockets = SocketsParsed(file, e.id)]
  BY DEF AttachEntity, GreenParsed, EvidenceParsed, SocketsParsed
<1> HIDE DEF e
<1>4. AttachEntity(file, e) =
        [id |-> l.id, scale |-> l.scale, parent |-> l.parent, path |-> l.path,
         says |-> l.says, aside |-> None, summary |-> NoText, inferred |-> <<>>,
         clauses |-> <<>>, uncertainty |-> <<>>, evidence |-> EvidenceParsed(file, l.id),
         inherited |-> {}, green |-> GreenParsed(file, l.id), sockets |-> SocketsParsed(file, l.id)]
  BY <1>1, <1>2, <1>3
<1> QED
  BY <1>4 DEF e

\* What encoding and decoding need: equal ids attract the same lines, and of the sockets of one
\* id those that are resolved are resolved to the same, the last of them if any is.
SocketShape(e, k) ==
    /\ k = [id |-> k.id, copy |-> k.copy, entity |-> e.id, source |-> k.source, says |-> k.says,
            resolution |-> k.resolution]
    /\ k.copy \in Nat
    /\ k.resolution = [kind |-> k.resolution.kind, says |-> k.resolution.says]
    /\ k.resolution.kind \in {"fit", "hole", "unresolved"}
    /\ k.resolution.kind = "unresolved" => k.resolution = Unresolved

Coherent(s) ==
    /\ Typed(s)
    /\ \A e, d \in s.entities : e.id = d.id =>
          /\ e.evidence \cup e.inherited = d.evidence \cup d.inherited
          /\ e.green = d.green
          /\ e.sockets = d.sockets
    /\ \A e \in s.entities, d \in s.edges : d.evidence # {} => e.id # d.id
    /\ \A e \in s.entities : \A k \in e.sockets : SocketShape(e, k)
    /\ \A e, d \in s.entities : \A k \in e.sockets, j \in d.sockets :
          k.id = j.id =>
              /\ e.id = d.id
              /\ k.copy <= j.copy /\ k.resolution.kind # "unresolved"
                    => j.resolution = k.resolution

\* The last socket of an id in a file is the last of its entity.
LEMMA LastOfEntity ==
    ASSUME NEW s, NEW scope, Coherent(s), NEW e \in SeenIn(s, scope), NEW k \in e.sockets
    PROVE  /\ Found(SocketPart(s, scope), SocketLine(k)) <=> Found(e.sockets, k)
           /\ Found(e.sockets, k) =>
                \A j \in SocketsIn(s, scope) : j.id = k.id => j \in e.sockets /\ j.copy <= k.copy
<1>1. \A j : SocketLine(j).id = j.id /\ SocketLine(j).copy = j.copy
  BY DEF SocketLine
<1>2. ASSUME NEW j \in SocketsIn(s, scope), j.id = k.id
      PROVE  j \in e.sockets
  <2>1. PICK d \in SeenIn(s, scope) : j \in d.sockets
    BY DEF SocketsIn
  <2>2. d.id = e.id
    BY <1>2, <2>1 DEF Coherent, SeenIn
  <2> QED
    BY <2>1, <2>2 DEF Coherent, SeenIn
<1>3. \A j \in e.sockets : j \in SocketsIn(s, scope)
  BY DEF SocketsIn
<1> QED
  BY <1>1, <1>2, <1>3 DEF Found, SocketPart

LEMMA SocketResolves ==
    ASSUME NEW s, NEW scope, Coherent(s), NEW e \in SeenIn(s, scope), NEW k \in e.sockets,
           Found(e.sockets, k)
    PROVE  Resolution(Encode(s, scope), k.id) = k.resolution
<1> DEFINE file == Encode(s, scope)
           fits == {l \in Lines(file, "@fit") : l.require = k.id}
           holes == {l \in Lines(file, "@hole") : l.socket = k.id}
           r == k.resolution
<1>0. Lines(file, "@fit") = FitPart(s, scope) /\ Lines(file, "@hole") = HolePart(s, scope)
  BY LinesByTag DEF Coherent
<1>1. /\ r = [kind |-> r.kind, says |-> r.says]
      /\ r.kind \in {"fit", "hole", "unresolved"}
      /\ r.kind = "unresolved" => r = Unresolved
  BY DEF Coherent, SeenIn, SocketShape
<1>2. \A j \in SocketsIn(s, scope) :
         j.id = k.id /\ j.resolution.kind # "unresolved" => j.resolution = r
  <2>1. \A j \in SocketsIn(s, scope) : j.id = k.id => j \in e.sockets /\ j.copy <= k.copy
    BY LastOfEntity
  <2> QED
    BY <2>1 DEF Coherent, SeenIn
<1>3. k \in SocketsIn(s, scope)
  BY DEF SocketsIn
<1>4. \A l \in fits : r.kind = "fit" /\ l = FitLine(k)
  BY <1>0, <1>2 DEF FitPart, FitLine
<1>5. \A l \in holes : r.kind = "hole" /\ l = HoleLine(k)
  BY <1>0, <1>2 DEF HolePart, HoleLine
<1>6. r.kind = "fit" => FitLine(k) \in fits
  BY <1>0, <1>3 DEF FitPart, FitLine
<1>7. r.kind = "hole" => HoleLine(k) \in holes
  BY <1>0, <1>3 DEF HolePart, HoleLine
<1>8. Resolution(file, k.id) =
        IF holes # {} THEN [kind |-> "hole", says |-> (CHOOSE l \in holes : TRUE).says]
        ELSE IF fits # {} THEN [kind |-> "fit", says |-> (CHOOSE l \in fits : TRUE).says]
        ELSE Unresolved
  BY DEF Resolution
<1>9. FitLine(k).says = r.says /\ HoleLine(k).says = r.says
  BY DEF FitLine, HoleLine
<1> HIDE DEF fits, holes, file, r
<1>10. CASE r.kind = "hole"
  <2>1. holes = {HoleLine(k)}
    BY <1>5, <1>7, <1>10
  <2>2. (CHOOSE l \in holes : TRUE) = HoleLine(k)
    BY <2>1
  <2> QED
    BY <1>1, <1>8, <1>9, <1>10, <2>1, <2>2 DEF r, file
<1>11. CASE r.kind = "fit"
  <2>1. fits = {FitLine(k)} /\ holes = {}
    BY <1>4, <1>5, <1>6, <1>11
  <2>2. (CHOOSE l \in fits : TRUE) = FitLine(k)
    BY <2>1
  <2> QED
    BY <1>1, <1>8, <1>9, <1>11, <2>1, <2>2 DEF r, file
<1>12. CASE r.kind = "unresolved"
  <2>1. fits = {} /\ holes = {}
    BY <1>4, <1>5, <1>12
  <2> QED
    BY <1>1, <1>8, <1>12, <2>1 DEF r, file
<1> QED
  BY <1>1, <1>10, <1>11, <1>12

LEMMA LinesComeBack ==
    ASSUME NEW s, NEW scope, Coherent(s), NEW e \in SeenIn(s, scope)
    PROVE  LET file == Encode(s, scope)
           IN  /\ EvidenceParsed(file, e.id) = {ParseEvidence(v) : v \in e.evidence \cup e.inherited}
               /\ GreenParsed(file, e.id) = {ParseGreen(g) : g \in e.green}
               /\ SocketsParsed(file, e.id) = {Kept(e.sockets, k) : k \in e.sockets}
<1> DEFINE file == Encode(s, scope)
<1>0. /\ Lines(file, "@evidence") = EvidencePart(s, scope) \cup EdgeEvidencePart(s, scope)
      /\ Lines(file, "@green") = GreenPart(s, scope)
      /\ Lines(file, "@socket") = SocketPart(s, scope)
  BY LinesByTag DEF Coherent
<1>1. e \in s.entities /\ \A d \in SeenIn(s, scope) : d \in s.entities
  BY DEF SeenIn
<1>2. \A d \in SeenIn(s, scope) : d.id = e.id =>
         /\ d.evidence \cup d.inherited = e.evidence \cup e.inherited
         /\ d.green = e.green /\ d.sockets = e.sockets
  BY <1>1 DEF Coherent
<1> HIDE DEF file
<1>3. EvidenceParsed(file, e.id) = {ParseEvidence(v) : v \in e.evidence \cup e.inherited}
  <2>1. ASSUME NEW x \in EvidenceParsed(file, e.id)
        PROVE  \E v \in e.evidence \cup e.inherited : x = ParseEvidence(v)
    <3>1. PICK l \in Lines(file, "@evidence") : l.target = e.id /\ x = ParseEvidence(l)
      BY DEF EvidenceParsed
    <3>2. CASE l \in EvidencePart(s, scope)
      <4>0. PICK d \in SeenIn(s, scope) :
               \E v \in d.evidence \cup d.inherited : l = EvidenceLine(d.id, v)
        BY <3>2 DEF EvidencePart
      <4>1. PICK v \in d.evidence \cup d.inherited : l = EvidenceLine(d.id, v)
        BY <4>0
      <4>2. d.id = e.id /\ ParseEvidence(l) = ParseEvidence(v)
        BY <3>1, <4>1 DEF EvidenceLine, ParseEvidence
      <4> QED
        BY <1>2, <3>1, <4>1, <4>2
    <3>3. CASE l \in EdgeEvidencePart(s, scope)
      <4>1. PICK d \in s.edges : d.evidence # {} /\ l.target = d.id
        BY <3>3 DEF EdgeEvidencePart, EdgesIn, EvidenceLine
      <4> QED
        BY <1>1, <3>1, <4>1 DEF Coherent
    <3> QED
      BY <1>0, <3>1, <3>2, <3>3
  <2>2. ASSUME NEW v \in e.evidence \cup e.inherited
        PROVE  ParseEvidence(v) \in EvidenceParsed(file, e.id)
    <3>1. EvidenceLine(e.id, v) \in EvidencePart(s, scope)
      BY DEF EvidencePart
    <3>2. EvidenceLine(e.id, v).target = e.id /\ ParseEvidence(EvidenceLine(e.id, v)) = ParseEvidence(v)
      BY DEF EvidenceLine, ParseEvidence
    <3> QED
      BY <1>0, <3>1, <3>2 DEF EvidenceParsed
  <2> QED
    BY <2>1, <2>2
<1>4. GreenParsed(file, e.id) = {ParseGreen(g) : g \in e.green}
  <2>1. ASSUME NEW x \in GreenParsed(file, e.id)
        PROVE  \E g \in e.green : x = ParseGreen(g)
    <3>1. PICK l \in GreenPart(s, scope) : l.target = e.id /\ x = ParseGreen(l)
      BY <1>0 DEF GreenParsed
    <3>0. PICK d \in SeenIn(s, scope) : \E g \in d.green : l = GreenLine(d.id, g)
      BY DEF GreenPart
    <3>2. PICK g \in d.green : l = GreenLine(d.id, g)
      BY <3>0
    <3>3. d.id = e.id /\ ParseGreen(l) = ParseGreen(g)
      BY <3>1, <3>2 DEF GreenLine, ParseGreen
    <3> QED
      BY <1>2, <3>1, <3>2, <3>3
  <2>2. ASSUME NEW g \in e.green
        PROVE  ParseGreen(g) \in GreenParsed(file, e.id)
    <3>1. GreenLine(e.id, g) \in GreenPart(s, scope)
      BY DEF GreenPart
    <3>2. GreenLine(e.id, g).target = e.id /\ ParseGreen(GreenLine(e.id, g)) = ParseGreen(g)
      BY DEF GreenLine, ParseGreen
    <3> QED
      BY <1>0, <3>1, <3>2 DEF GreenParsed
  <2> QED
    BY <2>1, <2>2
<1>5. SocketsParsed(file, e.id) = {Kept(e.sockets, k) : k \in e.sockets}
  <2>0. ASSUME NEW d \in SeenIn(s, scope), NEW k \in d.sockets
        PROVE  /\ SocketLine(k).entity = d.id
               /\ ParseSocket(file, SocketLine(k)) = Kept(d.sockets, k)
    <3>1. k.entity = d.id
      <4>1. k = [id |-> k.id, copy |-> k.copy, entity |-> d.id, source |-> k.source,
                 says |-> k.says, resolution |-> k.resolution]
        BY <1>1 DEF Coherent, SocketShape
      <4> QED
        BY <4>1
    <3>2. ASSUME Found(d.sockets, k)
          PROVE  Resolution(file, k.id) = k.resolution
      <4>1. Resolution(Encode(s, scope), k.id) = k.resolution
        BY <3>2, SocketResolves
      <4> QED
        BY <4>1 DEF file
    <3> DEFINE l == SocketLine(k)
    <3>3. /\ l.entity = k.entity /\ l.id = k.id /\ l.copy = k.copy
          /\ l.source = k.source /\ l.says = k.says
      BY DEF SocketLine
    <3>4. Found(Lines(file, "@socket"), l) <=> Found(d.sockets, k)
      BY <1>0, LastOfEntity
    <3> HIDE DEF l
    <3>5. ParseSocket(file, l) =
            [id |-> k.id, copy |-> k.copy, entity |-> k.entity, source |-> k.source,
             says |-> k.says,
             resolution |-> IF Found(d.sockets, k) THEN k.resolution ELSE Unresolved]
      BY <3>2, <3>3, <3>4, Zenon DEF ParseSocket
    <3> QED
      BY <3>1, <3>3, <3>5 DEF Kept, l
  <2>1. ASSUME NEW x \in SocketsParsed(file, e.id)
        PROVE  \E k \in e.sockets : x = Kept(e.sockets, k)
    <3>1. PICK l \in SocketPart(s, scope) : l.entity = e.id /\ x = ParseSocket(file, l)
      BY <1>0 DEF SocketsParsed
    <3>0. PICK d \in SeenIn(s, scope) : \E k \in d.sockets : l = SocketLine(k)
      BY DEF SocketPart, SocketsIn
    <3>2. PICK k \in d.sockets : l = SocketLine(k)
      BY <3>0
    <3> QED
      BY <1>2, <2>0, <3>1, <3>2
  <2>2. ASSUME NEW k \in e.sockets
        PROVE  Kept(e.sockets, k) \in SocketsParsed(file, e.id)
    <3>1. SocketLine(k) \in SocketPart(s, scope)
      BY DEF SocketPart, SocketsIn
    <3> QED
      BY <1>0, <2>0, <3>1 DEF SocketsParsed
  <2> QED
    BY <2>1, <2>2
<1> QED
  BY <1>3, <1>4, <1>5 DEF file

SameSays(c) == [id |-> c.id, says |-> c.says]
SourcesIn(s, scope) == {t \in s.sources : t.id \in ReferencedIn(s, scope)}

LEMMA DecodeEncode ==
    ASSUME NEW s, NEW scope, Coherent(s)
    PROVE  Decode(Encode(s, scope)) =
             [id |-> s.id,
              entities |-> {Revived(e) : e \in SeenIn(s, scope)},
              edges |-> {ParseEdge(d) : d \in EdgesIn(s, scope)},
              records |-> {ParseRecord(l) :
                             l \in SummaryPart(s, scope) \cup RecordPart(s, scope)
                                     \cup ClausePart(s, scope)},
              conflicts |-> {SameSays(c) : c \in s.conflicts},
              sources |-> {SameSays(x) : x \in SourcesIn(s, scope)}]
<1> DEFINE file == Encode(s, scope)
<1>1. /\ file.snapshot = s.id
      /\ Lines(file, "@entity") = EntityPart(s, scope)
      /\ Lines(file, "@edge") = EdgePart(s, scope)
      /\ Lines(file, "@conflict") = ConflictPart(s)
      /\ Lines(file, "@source") = SourcePart(s, scope)
      /\ {l \in file.lines : l.tag \in RecordTags}
           = SummaryPart(s, scope) \cup RecordPart(s, scope) \cup ClausePart(s, scope)
  BY LinesByTag DEF Coherent
<1>2. Decode(file) =
        [id |-> file.snapshot,
         entities |-> {AttachEntity(file, ParseEntity(l)) : l \in EntityPart(s, scope)},
         edges |-> {ParseEdge(l) : l \in EdgePart(s, scope)},
         records |-> {ParseRecord(l) : l \in SummaryPart(s, scope) \cup RecordPart(s, scope)
                                               \cup ClausePart(s, scope)},
         conflicts |-> {SameSays(l) : l \in ConflictPart(s)},
         sources |-> {SameSays(l) : l \in SourcePart(s, scope)}]
  <2> HIDE DEF file
  <2> QED
    BY <1>1 DEF Decode, SameSays
<1>3. ASSUME NEW e \in SeenIn(s, scope)
      PROVE  AttachEntity(file, ParseEntity(EntityLine(e))) = Revived(e)
  <2>1. /\ EvidenceParsed(file, e.id) = {ParseEvidence(v) : v \in e.evidence \cup e.inherited}
        /\ GreenParsed(file, e.id) = {ParseGreen(g) : g \in e.green}
        /\ SocketsParsed(file, e.id) = {Kept(e.sockets, k) : k \in e.sockets}
    BY LinesComeBack
  <2> DEFINE l == EntityLine(e)
  <2>2. /\ l.id = e.id /\ l.scale = e.scale /\ l.parent = e.parent /\ l.path = e.path
        /\ l.says = e.says
    BY DEF EntityLine
  <2> HIDE DEF l, file
  <2>3. AttachEntity(file, ParseEntity(l)) =
          [id |-> l.id, scale |-> l.scale, parent |-> l.parent, path |-> l.path,
           says |-> l.says, aside |-> None, summary |-> NoText, inferred |-> <<>>,
           clauses |-> <<>>, uncertainty |-> <<>>, evidence |-> EvidenceParsed(file, l.id),
           inherited |-> {}, green |-> GreenParsed(file, l.id), sockets |-> SocketsParsed(file, l.id)]
    BY Attached
  <2>4. AttachEntity(file, ParseEntity(l)) = Revived(e)
    BY <2>1, <2>2, <2>3 DEF Revived
  <2> QED
    BY <2>4 DEF l
<1>4. {AttachEntity(file, ParseEntity(l)) : l \in EntityPart(s, scope)}
        = {Revived(e) : e \in SeenIn(s, scope)}
  <2> HIDE DEF file
  <2> QED
    BY <1>3 DEF EntityPart
<1>5. {ParseEdge(l) : l \in EdgePart(s, scope)} = {ParseEdge(d) : d \in EdgesIn(s, scope)}
  <2>1. \A d : ParseEdge(EdgeLine(d)) = ParseEdge(d)
    BY DEF ParseEdge, EdgeLine
  <2> QED
    BY <2>1 DEF EdgePart
<1>6. {SameSays(l) : l \in ConflictPart(s)} = {SameSays(c) : c \in s.conflicts}
  <2>1. \A c : SameSays([tag |-> "@conflict", id |-> c.id, says |-> c.says]) = SameSays(c)
    BY DEF SameSays
  <2> QED
    BY <2>1 DEF ConflictPart
<1>7. {SameSays(l) : l \in SourcePart(s, scope)} = {SameSays(x) : x \in SourcesIn(s, scope)}
  <2>1. \A x : SameSays(SourceLine(x)) = SameSays(x)
    BY DEF SameSays, SourceLine
  <2> QED
    BY <2>1 DEF SourcePart, SourcesIn
<1> HIDE DEF file
<1>8. Decode(file) =
             [id |-> s.id,
              entities |-> {Revived(e) : e \in SeenIn(s, scope)},
              edges |-> {ParseEdge(d) : d \in EdgesIn(s, scope)},
              records |-> {ParseRecord(l) :
                             l \in SummaryPart(s, scope) \cup RecordPart(s, scope)
                                     \cup ClausePart(s, scope)},
              conflicts |-> {SameSays(c) : c \in s.conflicts},
              sources |-> {SameSays(x) : x \in SourcesIn(s, scope)}]
  BY <1>1, <1>2, <1>4, <1>5, <1>6, <1>7
<1> QED
  BY <1>8 DEF file

-----------------------------------------------------------------------------
(* Decoded snapshots lose nothing more.                                    *)

IsSummary(r) == r.type = "@summary"

\* A decoded snapshot has nothing but what a line can carry.
Plain(x) ==
    /\ Coherent(x)
    /\ x = [id |-> x.id, entities |-> x.entities, edges |-> x.edges, records |-> x.records,
            conflicts |-> x.conflicts, sources |-> x.sources]
    /\ \A e \in x.entities : e = Revived(e)
    /\ \A d \in x.edges : d = ParseEdge(d)
    /\ \A r \in x.records :
          /\ IsSummary(r) => r.scope = None
          /\ r.authority = IF r.authority = None THEN "system" ELSE r.authority
          /\ r.state = IF r.state = None THEN "active" ELSE r.state
    /\ \A c \in x.conflicts : c = SameSays(c)
    /\ \A t \in x.sources : t = SameSays(t)

LEMMA ResolutionShape ==
    ASSUME NEW file, NEW i
    PROVE  LET r == Resolution(file, i)
           IN  /\ r = [kind |-> r.kind, says |-> r.says]
               /\ r.kind \in {"fit", "hole", "unresolved"}
               /\ r.kind = "unresolved" => r = Unresolved
<1> DEFINE fits == {l \in Lines(file, "@fit") : l.require = i}
           holes == {l \in Lines(file, "@hole") : l.socket = i}
           fit == (CHOOSE l \in fits : TRUE).says
           hole == (CHOOSE l \in holes : TRUE).says
<1>1. Resolution(file, i) =
        IF holes # {} THEN [kind |-> "hole", says |-> hole]
        ELSE IF fits # {} THEN [kind |-> "fit", says |-> fit]
        ELSE Unresolved
  BY DEF Resolution
<1> HIDE DEF fits, holes, fit, hole
<1> QED
  BY <1>1 DEF Unresolved

\* The socket lines of a file: numbered, and of one entity if they are of one id.
Numbered(file) ==
    \A l \in Lines(file, "@socket") :
        /\ l.copy \in Nat
        /\ \A m \in Lines(file, "@socket") : l.id = m.id => l.entity = m.entity

LEMMA EncodeNumbered ==
    ASSUME NEW s, NEW scope, Coherent(s)
    PROVE  Numbered(Encode(s, scope))
<1> DEFINE file == Encode(s, scope)
<1>1. Lines(file, "@socket") = {SocketLine(k) : k \in SocketsIn(s, scope)}
  BY LinesByTag DEF Coherent, SocketPart
<1>2. \A k : /\ SocketLine(k).id = k.id /\ SocketLine(k).copy = k.copy
             /\ SocketLine(k).entity = k.entity
  BY DEF SocketLine
<1>3. ASSUME NEW k \in SocketsIn(s, scope)
      PROVE  \E e \in s.entities : k \in e.sockets /\ k.entity = e.id /\ k.copy \in Nat
  <2>1. PICK e \in s.entities : k \in e.sockets
    BY DEF SocketsIn, SeenIn
  <2>2. /\ k = [id |-> k.id, copy |-> k.copy, entity |-> e.id, source |-> k.source,
                says |-> k.says, resolution |-> k.resolution]
        /\ k.copy \in Nat
    BY <2>1 DEF Coherent, SocketShape
  <2>3. k.entity = e.id
    BY <2>2
  <2> QED
    BY <2>1, <2>2, <2>3
<1>4. \A k, j \in SocketsIn(s, scope) : k.id = j.id => k.entity = j.entity
  BY <1>3 DEF Coherent
<1> HIDE DEF file
<1>5. Numbered(file)
  BY <1>1, <1>2, <1>3, <1>4 DEF Numbered
<1> QED
  BY <1>5 DEF file

LEMMA DecodePlain ==
    ASSUME NEW file, Numbered(file)
    PROVE  Plain(Decode(file))
<1> DEFINE x == Decode(file)
           L == Lines(file, "@socket")
<1>1. x = [id |-> file.snapshot,
           entities |-> {AttachEntity(file, ParseEntity(l)) : l \in Lines(file, "@entity")},
           edges |-> {ParseEdge(l) : l \in Lines(file, "@edge")},
           records |-> {ParseRecord(l) : l \in {m \in file.lines : m.tag \in RecordTags}},
           conflicts |-> {[id |-> l.id, says |-> l.says] : l \in Lines(file, "@conflict")},
           sources |-> {[id |-> l.id, says |-> l.says] : l \in Lines(file, "@source")}]
  BY DEF Decode
<1> HIDE DEF x
<1>2. \A e \in x.entities :
         /\ e = [id |-> e.id, scale |-> e.scale, parent |-> e.parent, path |-> e.path,
                 says |-> e.says, aside |-> None, summary |-> NoText, inferred |-> <<>>,
                 clauses |-> <<>>, uncertainty |-> <<>>, evidence |-> EvidenceParsed(file, e.id),
                 inherited |-> {}, green |-> GreenParsed(file, e.id),
                 sockets |-> SocketsParsed(file, e.id)]
  <2> TAKE e \in x.entities
  <2>1. PICK l : e = AttachEntity(file, ParseEntity(l))
    BY <1>1
  <2>2. e = [id |-> l.id, scale |-> l.scale, parent |-> l.parent, path |-> l.path,
              says |-> l.says, aside |-> None, summary |-> NoText, inferred |-> <<>>,
              clauses |-> <<>>, uncertainty |-> <<>>, evidence |-> EvidenceParsed(file, l.id),
              inherited |-> {}, green |-> GreenParsed(file, l.id), sockets |-> SocketsParsed(file, l.id)]
    BY <2>1, Attached
  <2> QED
    BY <2>2
<1>3. \A e \in x.entities : /\ e.evidence = EvidenceParsed(file, e.id) /\ e.inherited = {}
                            /\ e.green = GreenParsed(file, e.id)
                            /\ e.sockets = SocketsParsed(file, e.id)
  <2> TAKE e \in x.entities
  <2> QED
    BY <1>2
<1>4. \A d \in x.edges : d = ParseEdge(d) /\ d.evidence = {}
  BY <1>1 DEF ParseEdge
<1>5. \A i : \A k \in SocketsParsed(file, i) :
         /\ k = [id |-> k.id, copy |-> k.copy, entity |-> i, source |-> k.source,
                 says |-> k.says, resolution |-> k.resolution]
         /\ k.copy \in Nat
         /\ \E l \in L : l.id = k.id /\ l.copy = k.copy /\ l.entity = i
         /\ k.resolution = IF Found(L, k) THEN Resolution(file, k.id) ELSE Unresolved
  <2> TAKE i
  <2> TAKE k \in SocketsParsed(file, i)
  <2>1. PICK l \in L : l.entity = i /\ k = ParseSocket(file, l)
    BY DEF SocketsParsed
  <2>2. k = [id |-> l.id, copy |-> l.copy, entity |-> i, source |-> l.source, says |-> l.says,
             resolution |-> IF Found(L, l) THEN Resolution(file, l.id) ELSE Unresolved]
    BY <2>1 DEF ParseSocket
  <2>3. l.copy \in Nat
    BY DEF Numbered
  <2> HIDE DEF L
  <2>4. k.id = l.id /\ k.copy = l.copy
    BY <2>2
  <2>5. Found(L, k) <=> Found(L, l)
    BY <2>4 DEF Found
  <2> QED
    BY <2>1, <2>2, <2>3, <2>4, <2>5
<1>6. Coherent(x)
  <2>1. Typed(x)
    BY <1>1 DEF Typed, ParseRecord
  <2>2. \A e, d \in x.entities : e.id = d.id =>
          /\ e.evidence \cup e.inherited = d.evidence \cup d.inherited
          /\ e.green = d.green
          /\ e.sockets = d.sockets
    BY <1>3
  <2>3. \A e \in x.entities : \A k \in e.sockets : SocketShape(e, k)
    <3> TAKE e \in x.entities
    <3> TAKE k \in e.sockets
    <3>1. k \in SocketsParsed(file, e.id)
      BY <1>3
    <3>2. k.resolution = Resolution(file, k.id) \/ k.resolution = Unresolved
      BY <1>5, <3>1
    <3>3. /\ k.resolution = [kind |-> k.resolution.kind, says |-> k.resolution.says]
          /\ k.resolution.kind \in {"fit", "hole", "unresolved"}
          /\ k.resolution.kind = "unresolved" => k.resolution = Unresolved
      <4>1. CASE k.resolution = Resolution(file, k.id)
        BY <4>1, ResolutionShape
      <4>2. CASE k.resolution = Unresolved
        BY <4>2 DEF Unresolved
      <4> QED
        BY <3>2, <4>1, <4>2
    <3> QED
      BY <1>5, <3>1, <3>3 DEF SocketShape
  <2>4. ASSUME NEW e \in x.entities, NEW d \in x.entities, NEW k \in e.sockets,
               NEW j \in d.sockets, k.id = j.id
        PROVE  /\ e.id = d.id
               /\ k.copy <= j.copy /\ k.resolution.kind # "unresolved"
                    => j.resolution = k.resolution
    <3>1. k \in SocketsParsed(file, e.id) /\ j \in SocketsParsed(file, d.id)
      BY <1>3
    <3>2. e.id = d.id
      BY <1>5, <2>4, <3>1 DEF Numbered
    <3>3. ASSUME k.copy <= j.copy, k.resolution.kind # "unresolved"
          PROVE  j.resolution = k.resolution
      <4>1. Found(L, k)
        BY <1>5, <3>1, <3>3 DEF Unresolved
      <4>2. \A l \in L : l.copy \in Nat
        BY DEF Numbered
      <4>3. k.copy \in Nat /\ j.copy \in Nat
        BY <1>5, <3>1
      <4>4. Found(L, j)
        <5> HIDE DEF L
        <5> QED
          BY <2>4, <3>3, <4>1, <4>2, <4>3 DEF Found
      <4> QED
        BY <1>5, <2>4, <3>1, <4>1, <4>4
    <3> QED
      BY <3>2, <3>3
  <2> QED
    BY <1>4, <2>1, <2>2, <2>3, <2>4 DEF Coherent
<1>7. \A e \in x.entities : e = Revived(e)
  <2> TAKE e \in x.entities
  <2>1. {ParseEvidence(v) : v \in e.evidence \cup e.inherited} = e.evidence
    <3>1. \A v \in EvidenceParsed(file, e.id) : ParseEvidence(v) = v
      BY DEF EvidenceParsed, ParseEvidence
    <3> QED
      BY <1>3, <3>1
  <2>2. {ParseGreen(g) : g \in e.green} = e.green
    <3>1. \A g \in GreenParsed(file, e.id) : ParseGreen(g) = g
      BY DEF GreenParsed, ParseGreen
    <3> QED
      BY <1>3, <3>1
  <2>3. {Kept(e.sockets, k) : k \in e.sockets} = e.sockets
    <3>1. ASSUME NEW k \in e.sockets
          PROVE  Kept(e.sockets, k) = k
      <4>1. /\ k = [id |-> k.id, copy |-> k.copy, entity |-> e.id, source |-> k.source,
                    says |-> k.says, resolution |-> k.resolution]
            /\ k.resolution = IF Found(L, k) THEN Resolution(file, k.id) ELSE Unresolved
        BY <1>3, <1>5
      <4>2. Found(L, k) => Found(e.sockets, k)
        <5>1. \A j \in e.sockets : \E l \in L : l.id = j.id /\ l.copy = j.copy
          BY <1>3, <1>5
        <5> QED
          BY <5>1 DEF Found
      <4>3. k.resolution = IF Found(e.sockets, k) THEN k.resolution ELSE Unresolved
        BY <4>1, <4>2
      <4>4. k.entity = e.id
        BY <4>1
      <4> QED
        BY <4>1, <4>3, <4>4, Zenon DEF Kept
    <3> QED
      BY <3>1
  <2> QED
    BY <1>2, <1>3, <2>1, <2>2, <2>3 DEF Revived
<1>8. \A r \in x.records :
          /\ IsSummary(r) => r.scope = None
          /\ r.authority = IF r.authority = None THEN "system" ELSE r.authority
          /\ r.state = IF r.state = None THEN "active" ELSE r.state
  BY <1>1 DEF ParseRecord, IsSummary
<1>9. /\ \A c \in x.conflicts : c = SameSays(c)
      /\ \A t \in x.sources : t = SameSays(t)
  BY <1>1 DEF SameSays
<1>10. x = [id |-> x.id, entities |-> x.entities, edges |-> x.edges, records |-> x.records,
            conflicts |-> x.conflicts, sources |-> x.sources]
  BY <1>1
<1>11. Plain(x)
  BY <1>4, <1>6, <1>7, <1>8, <1>9, <1>10 DEF Plain
<1> QED
  BY <1>11 DEF x

SummaryNote(r) ==
    [tag |-> "@summary", id |-> r.id, made |-> FALSE, source |-> SummarySource(r.authority),
     authority |-> r.authority, text |-> r.text]

LEMMA NotesOfPlain ==
    ASSUME NEW es, NEW rs, \A e \in es : e = Revived(e)
    PROVE  /\ SummaryLines(es, rs) = {SummaryNote(r) : r \in {q \in rs : q.type = "@summary"}}
           /\ ClauseLines(es) = {}
<1>1. \A e \in es : e.summary = NoText /\ DOMAIN e.inferred = {} /\ DOMAIN e.clauses = {}
  <2> TAKE e \in es
  <2>1. Revived(e).summary = NoText /\ Revived(e).inferred = <<>> /\ Revived(e).clauses = <<>>
    BY DEF Revived
  <2> QED
    BY <2>1
<1> DEFINE own == {[tag |-> "@summary", id |-> e.id, made |-> FALSE, source |-> "parsed",
                    authority |-> None, text |-> e.summary] :
                      e \in {d \in es : d.summary # NoText}}
           guesses == UNION {{[tag |-> "@summary", id |-> <<e.id, "inferred", i>>, made |-> TRUE,
                               source |-> "inferred", authority |-> None,
                               text |-> e.inferred[i]] : i \in DOMAIN e.inferred} : e \in es}
           noted == {SummaryNote(r) : r \in {q \in rs : q.type = "@summary"}}
<1>2. SummaryLines(es, rs) = (own \cup guesses) \cup noted
  BY DEF SummaryLines, SummaryNote
<1>3. own = {}
  BY <1>1
<1>4. guesses = {}
  BY <1>1
<1>5. ClauseLines(es) = {}
  BY <1>1 DEF ClauseLines
<1> QED
  BY <1>2, <1>3, <1>4, <1>5

LEMMA RecordComesBack ==
    ASSUME NEW x, NEW r \in x.records, Plain(x)
    PROVE  /\ IsSummary(r) =>
                LET p == ParseRecord(SummaryNote(r))
                IN  IsSummary(p) /\ p.scope = r.scope /\ SummaryNote(p) = SummaryNote(r)
           /\ ~IsSummary(r) =>
                LET p == ParseRecord(RecordLine(r))
                IN  /\ ~IsSummary(p) /\ p.scope = r.scope /\ p.source = r.source
                    /\ RecordLine(p) = RecordLine(r)
<1>1. /\ IsSummary(r) => r.scope = None
      /\ r.authority = IF r.authority = None THEN "system" ELSE r.authority
      /\ r.state = IF r.state = None THEN "active" ELSE r.state
  BY DEF Plain
<1>2. CASE IsSummary(r)
  <2> DEFINE l == SummaryNote(r)
             p == ParseRecord(l)
  <2>1. /\ l.tag = "@summary" /\ l.id = r.id /\ l.made = FALSE /\ l.authority = r.authority
        /\ l.text = r.text
    BY DEF SummaryNote
  <2> HIDE DEF l
  <2>2. /\ p.type = "@summary" /\ p.id = r.id /\ p.scope = None /\ p.text = r.text
        /\ p.authority = r.authority
    BY <1>1, <2>1 DEF ParseRecord, RecordIdOf
  <2> HIDE DEF p
  <2>3. IsSummary(p) /\ p.scope = r.scope /\ SummaryNote(p) = SummaryNote(r)
    BY <1>1, <1>2, <2>2 DEF IsSummary, SummaryNote
  <2> QED
    BY <1>2, <2>3 DEF p, l
<1>3. CASE ~IsSummary(r)
  <2> DEFINE l == RecordLine(r)
             p == ParseRecord(l)
  <2>1. /\ l.tag = r.type /\ l.id = r.id /\ l.made = FALSE /\ l.authority = r.authority
        /\ l.text = r.text /\ l.scope = r.scope /\ l.source = r.source
        /\ l.state = IF r.type \in {"@purpose", "@constraint"} THEN None ELSE r.state
    BY DEF RecordLine
  <2> HIDE DEF l
  <2>2. /\ p.type = r.type /\ p.id = r.id /\ p.scope = r.scope /\ p.text = r.text
        /\ p.authority = r.authority /\ p.source = r.source
        /\ r.type \notin {"@purpose", "@constraint"} => p.state = r.state
    BY <1>1, <1>3, <2>1 DEF ParseRecord, RecordIdOf, IsSummary
  <2> HIDE DEF p
  <2>3. ~IsSummary(p) /\ RecordLine(p) = RecordLine(r)
    BY <1>3, <2>2 DEF IsSummary, RecordLine
  <2> QED
    BY <1>3, <2>2, <2>3 DEF p, l
<1> QED
  BY <1>2, <1>3

LEMMA PlainDecodes ==
    ASSUME NEW x, NEW scope, Plain(x)
    PROVE  LET y == Decode(Encode(x, scope))
           IN  /\ y.id = x.id
               /\ y.entities = SeenIn(x, scope)
               /\ y.edges = EdgesIn(x, scope)
               /\ y.conflicts = x.conflicts
               /\ y.sources = SourcesIn(x, scope)
               /\ y.records =
                    {ParseRecord(SummaryNote(r)) : r \in {q \in RecordsIn(x, scope) : IsSummary(q)}}
                    \cup {ParseRecord(RecordLine(r)) :
                            r \in {q \in RecordsIn(x, scope) : ~IsSummary(q)}}
<1> DEFINE y == Decode(Encode(x, scope))
<1>1. y = [id |-> x.id,
           entities |-> {Revived(e) : e \in SeenIn(x, scope)},
           edges |-> {ParseEdge(d) : d \in EdgesIn(x, scope)},
           records |-> {ParseRecord(l) :
                          l \in SummaryPart(x, scope) \cup RecordPart(x, scope)
                                  \cup ClausePart(x, scope)},
           conflicts |-> {SameSays(c) : c \in x.conflicts},
           sources |-> {SameSays(t) : t \in SourcesIn(x, scope)}]
  BY DecodeEncode DEF Plain
<1> HIDE DEF y
<1>2. {Revived(e) : e \in SeenIn(x, scope)} = SeenIn(x, scope)
  <2>1. \A e \in SeenIn(x, scope) : e = Revived(e)
    BY DEF Plain, SeenIn
  <2> QED
    BY <2>1
<1>3. {ParseEdge(d) : d \in EdgesIn(x, scope)} = EdgesIn(x, scope)
  <2>1. \A d \in EdgesIn(x, scope) : d = ParseEdge(d)
    BY DEF Plain, EdgesIn
  <2> QED
    BY <2>1
<1>4. {SameSays(c) : c \in x.conflicts} = x.conflicts
  <2>1. \A c \in x.conflicts : c = SameSays(c)
    BY DEF Plain
  <2> QED
    BY <2>1
<1>5. {SameSays(t) : t \in SourcesIn(x, scope)} = SourcesIn(x, scope)
  <2>1. \A t \in SourcesIn(x, scope) : t = SameSays(t)
    BY DEF Plain, SourcesIn
  <2> QED
    BY <2>1
<1>6. /\ SummaryPart(x, scope)
           = {SummaryNote(r) : r \in {q \in RecordsIn(x, scope) : IsSummary(q)}}
      /\ RecordPart(x, scope)
           = {RecordLine(r) : r \in {q \in RecordsIn(x, scope) : ~IsSummary(q)}}
      /\ ClausePart(x, scope) = {}
  <2>1. \A e \in SeenIn(x, scope) : e = Revived(e)
    BY DEF Plain, SeenIn
  <2>2. /\ SummaryLines(SeenIn(x, scope), RecordsIn(x, scope))
             = {SummaryNote(r) : r \in {q \in RecordsIn(x, scope) : q.type = "@summary"}}
        /\ ClauseLines(SeenIn(x, scope)) = {}
    BY <2>1, NotesOfPlain
  <2> QED
    BY <2>2 DEF SummaryPart, ClausePart, RecordPart, IsSummary
<1>7. {ParseRecord(l) : l \in SummaryPart(x, scope) \cup RecordPart(x, scope)
                                \cup ClausePart(x, scope)}
        = {ParseRecord(SummaryNote(r)) : r \in {q \in RecordsIn(x, scope) : IsSummary(q)}}
          \cup {ParseRecord(RecordLine(r)) :
                  r \in {q \in RecordsIn(x, scope) : ~IsSummary(q)}}
  BY <1>6
<1>8. /\ y.id = x.id
      /\ y.entities = SeenIn(x, scope)
      /\ y.edges = EdgesIn(x, scope)
      /\ y.conflicts = x.conflicts
      /\ y.sources = SourcesIn(x, scope)
      /\ y.records =
           {ParseRecord(SummaryNote(r)) : r \in {q \in RecordsIn(x, scope) : IsSummary(q)}}
           \cup {ParseRecord(RecordLine(r)) :
                   r \in {q \in RecordsIn(x, scope) : ~IsSummary(q)}}
  BY <1>1, <1>2, <1>3, <1>4, <1>5, <1>7
<1> QED
  BY <1>8 DEF y

LEMMA PlainAgain ==
    ASSUME NEW x, NEW scope, Plain(x)
    PROVE  Encode(Decode(Encode(x, scope)), scope) = Encode(x, scope)
<1> DEFINE y == Decode(Encode(x, scope))
           R == RecordsIn(x, scope)
           notes == {r \in R : IsSummary(r)}
           others == {r \in R : ~IsSummary(r)}
<1>1. /\ y.id = x.id
      /\ y.entities = SeenIn(x, scope)
      /\ y.edges = EdgesIn(x, scope)
      /\ y.conflicts = x.conflicts
      /\ y.sources = SourcesIn(x, scope)
      /\ y.records = {ParseRecord(SummaryNote(r)) : r \in notes}
                       \cup {ParseRecord(RecordLine(r)) : r \in others}
  BY PlainDecodes
<1>p. Plain(y)
  BY DecodePlain, EncodeNumbered DEF Plain
<1> HIDE DEF y
<1>2. SeenIn(y, scope) = SeenIn(x, scope)
  BY <1>1 DEF SeenIn
<1>3. IdsIn(y, scope) = IdsIn(x, scope)
  BY <1>2 DEF IdsIn
<1>4. EdgesIn(y, scope) = EdgesIn(x, scope)
  BY <1>1, <1>3 DEF EdgesIn
<1>5. SocketsIn(y, scope) = SocketsIn(x, scope)
  BY <1>2 DEF SocketsIn
<1>6. \A r \in R : /\ r \in x.records
                   /\ scope = "galaxy" \/ r.scope \in IdsIn(x, scope)
  BY DEF RecordsIn
<1>7. /\ \A r \in notes : LET p == ParseRecord(SummaryNote(r))
                          IN  IsSummary(p) /\ p.scope = r.scope /\ SummaryNote(p) = SummaryNote(r)
      /\ \A r \in others : LET p == ParseRecord(RecordLine(r))
                           IN  /\ ~IsSummary(p) /\ p.scope = r.scope /\ p.source = r.source
                               /\ RecordLine(p) = RecordLine(r)
  BY <1>6, RecordComesBack
<1> HIDE DEF R
<1>8. RecordsIn(y, scope) = y.records
  <2>1. \A p \in y.records : scope = "galaxy" \/ p.scope \in IdsIn(y, scope)
    <3> TAKE p \in y.records
    <3>1. CASE \E r \in notes : p = ParseRecord(SummaryNote(r))
      BY <1>3, <1>6, <1>7, <3>1
    <3>2. CASE \E r \in others : p = ParseRecord(RecordLine(r))
      BY <1>3, <1>6, <1>7, <3>2
    <3> QED
      BY <1>1, <3>1, <3>2
  <2> QED
    BY <2>1 DEF RecordsIn
<1>9. /\ {q \in y.records : IsSummary(q)} = {ParseRecord(SummaryNote(r)) : r \in notes}
      /\ {q \in y.records : ~IsSummary(q)} = {ParseRecord(RecordLine(r)) : r \in others}
  <2> HIDE DEF notes, others
  <2> QED
    BY <1>1, <1>7
<1>10. SummaryPart(y, scope) = SummaryPart(x, scope)
  <2>1. /\ \A e \in SeenIn(x, scope) : e = Revived(e)
        /\ \A e \in SeenIn(y, scope) : e = Revived(e)
    BY <1>2 DEF Plain, SeenIn
  <2>2. /\ SummaryPart(x, scope) = {SummaryNote(r) : r \in notes}
        /\ SummaryPart(y, scope) = {SummaryNote(r) : r \in {q \in y.records : IsSummary(q)}}
    BY <1>8, <2>1, NotesOfPlain DEF SummaryPart, IsSummary, R
  <2> HIDE DEF notes, others
  <2>3. {SummaryNote(p) : p \in {ParseRecord(SummaryNote(r)) : r \in notes}}
          = {SummaryNote(r) : r \in notes}
    BY <1>7
  <2> QED
    BY <1>9, <2>2, <2>3
<1>11. RecordPart(y, scope) = RecordPart(x, scope)
  <2>2. /\ RecordPart(x, scope) = {RecordLine(r) : r \in others}
        /\ RecordPart(y, scope) = {RecordLine(r) : r \in {q \in y.records : ~IsSummary(q)}}
    BY <1>8 DEF RecordPart, IsSummary, R
  <2> HIDE DEF notes, others
  <2>3. {RecordLine(p) : p \in {ParseRecord(RecordLine(r)) : r \in others}}
          = {RecordLine(r) : r \in others}
    BY <1>7
  <2> QED
    BY <1>9, <2>2, <2>3
<1>12. ReferencedIn(y, scope) = ReferencedIn(x, scope)
  <2>1. /\ {q \in RecordsIn(x, scope) : q.type # "@summary"} = others
        /\ {q \in RecordsIn(y, scope) : q.type # "@summary"} = {q \in y.records : ~IsSummary(q)}
    BY <1>8 DEF IsSummary, R
  <2> HIDE DEF notes, others
  <2>2. {p.source : p \in {ParseRecord(RecordLine(r)) : r \in others}} = {r.source : r \in others}
    BY <1>7
  <2>3. {r.source : r \in {q \in RecordsIn(y, scope) : q.type # "@summary"}}
          = {r.source : r \in {q \in RecordsIn(x, scope) : q.type # "@summary"}}
    BY <1>9, <2>1, <2>2
  <2> QED
    BY <1>4, <1>5, <2>3 DEF ReferencedIn
<1>13. SourcePart(y, scope) = SourcePart(x, scope)
  BY <1>1, <1>12 DEF SourcePart, SourcesIn
<1>14. ChildPart(y, scope) = ChildPart(x, scope)
  <2>1. CASE scope = "galaxy"
    BY <2>1 DEF ChildPart
  <2>2. CASE scope # "galaxy"
    <3>1. {e \in y.entities : e.parent = scope /\ e.scale # MoonScale /\ e.path # None}
            = {e \in x.entities : e.parent = scope /\ e.scale # MoonScale /\ e.path # None}
      BY <1>1, <2>2 DEF SeenIn
    <3>2. ChildLines(y, scope) = ChildLines(x, scope)
      BY <3>1, Zenon DEF ChildLines
    <3> QED
      BY <2>2, <3>2 DEF ChildPart
  <2> QED
    BY <2>1, <2>2
<1>15. /\ EntityPart(y, scope) = EntityPart(x, scope)
       /\ EdgePart(y, scope) = EdgePart(x, scope)
       /\ ClausePart(y, scope) = ClausePart(x, scope)
       /\ EvidencePart(y, scope) = EvidencePart(x, scope)
       /\ EdgeEvidencePart(y, scope) = EdgeEvidencePart(x, scope)
       /\ GreenPart(y, scope) = GreenPart(x, scope)
       /\ ConflictPart(y) = ConflictPart(x)
       /\ SocketPart(y, scope) = SocketPart(x, scope)
       /\ FitPart(y, scope) = FitPart(x, scope)
       /\ HolePart(y, scope) = HolePart(x, scope)
       /\ UncertainPart(y, scope) = UncertainPart(x, scope)
  BY <1>1, <1>2, <1>4, <1>5, Zenon
     DEF EntityPart, EdgePart, ClausePart, EvidencePart, EdgeEvidencePart, GreenPart,
         ConflictPart, SocketPart, FitPart, HolePart, UncertainPart
<1>16. Encode(y, scope) = Encode(x, scope)
  BY <1>1, <1>10, <1>11, <1>13, <1>14, <1>15, EncodeParts
<1> QED
  BY <1>16 DEF y

\* A text, decoded and encoded, is the same when decoded and encoded again.
LEMMA EveryFileSettles ==
    ASSUME NEW file, NEW scope, Numbered(file)
    PROVE  Settles(file, scope)
<1>1. Plain(Decode(file))
  BY DecodePlain
<1> DEFINE x == Decode(file)
<1>2. Encode(Decode(Encode(x, scope)), scope) = Encode(x, scope)
  <2> HIDE DEF x
  <2> QED
    BY <1>1, PlainAgain DEF x
<1> QED
  BY <1>2 DEF Settles

-----------------------------------------------------------------------------
(* The portable part.                                                      *)

\* What the snapshots have in common that are stored, a scan's and a rebuild's.
Orderly(s) ==
    /\ s = [id |-> s.id, entities |-> s.entities, edges |-> s.edges, records |-> s.records,
            conflicts |-> s.conflicts, sources |-> s.sources]
    /\ Coherent(s)
    /\ \A e, d \in s.entities : e.id = d.id => e = d
    /\ \A e \in s.entities, d \in s.edges : e.id # d.id
    /\ \A d \in s.edges : \E e \in s.entities : e.id = d.from

LEMMA WellFormedIsOrderly ==
    ASSUME NEW s, WellFormed(s)
    PROVE  Orderly(s)
<1>1. Typed(s)
  BY DEF WellFormed, Typed
<1>2. \A e, d \in s.entities : e.id = d.id => e = d
  BY DEF WellFormed
<1>3. \A e \in s.entities, d \in s.edges : e.id # d.id
  BY DEF WellFormed
<1>4. \A e \in s.entities : \A k \in e.sockets : SocketShape(e, k)
  <2> TAKE e \in s.entities
  <2> TAKE k \in e.sockets
  <2>1. /\ k = [id |-> k.id, copy |-> k.copy, entity |-> e.id, source |-> k.source,
                says |-> k.says,
                resolution |-> [kind |-> k.resolution.kind, says |-> k.resolution.says]]
        /\ k.copy \in Nat
        /\ k.resolution.kind \in {"fit", "hole", "unresolved"}
        /\ k.resolution.kind = "unresolved" => k.resolution = Unresolved
    BY DEF WellFormed
  <2>2. k.resolution = [kind |-> k.resolution.kind, says |-> k.resolution.says]
    BY <2>1
  <2>3. k = [id |-> k.id, copy |-> k.copy, entity |-> e.id, source |-> k.source,
             says |-> k.says, resolution |-> k.resolution]
    BY <2>1, <2>2, Zenon
  <2> QED
    BY <2>1, <2>2, <2>3 DEF SocketShape
<1>5. \A e, d \in s.entities : \A k \in e.sockets, j \in d.sockets :
          k.id = j.id => e.id = d.id /\ k.resolution = j.resolution
  BY DEF WellFormed
<1>6. Coherent(s)
  BY <1>1, <1>2, <1>3, <1>4, <1>5 DEF Coherent
<1> QED
  BY <1>2, <1>3, <1>6 DEF WellFormed, Orderly

\* What Portable keeps of an entity and of an edge.
PortableEntity(e) ==
    [id |-> e.id, scale |-> e.scale, parent |-> e.parent, path |-> e.path, says |-> e.says,
     sockets |-> KeptSockets(e.sockets), green |-> {<<g.axes, g.overall>> : g \in e.green},
     evidence |-> {v.says : v \in e.evidence \cup e.inherited}]
PortableEdge(d) ==
    [id |-> d.id, from |-> d.from, to |-> d.to, source |-> d.source, says |-> d.says]

LEMMA PortableParts ==
    ASSUME NEW s
    PROVE  Portable(s) = [id |-> s.id, entities |-> {PortableEntity(e) : e \in s.entities},
                          edges |-> {PortableEdge(d) : d \in s.edges}]
BY DEF Portable, PortableEntity, PortableEdge

\* What is kept of sockets is kept once more as it is.
LEMMA KeptTwice ==
    ASSUME NEW S, \A k \in S : k = [id |-> k.id, copy |-> k.copy, entity |-> k.entity,
                                   source |-> k.source, says |-> k.says,
                                   resolution |-> k.resolution]
    PROVE  /\ KeptSockets(S) = {Kept(S, k) : k \in S}
           /\ KeptSockets({Kept(S, k) : k \in S}) = KeptSockets(S)
<1> DEFINE T == {Kept(S, k) : k \in S}
           AllSockets(U) == \A k \in U : k = [id |-> k.id, copy |-> k.copy, entity |-> k.entity,
                                         source |-> k.source, says |-> k.says,
                                         resolution |-> k.resolution]
<1>1. ASSUME NEW U, AllSockets(U)
      PROVE  KeptSockets(U) = {Kept(U, k) : k \in U}
  <2>1. ASSUME NEW k \in U
        PROVE  [k EXCEPT !.resolution = IF Found(U, k) THEN @ ELSE Unresolved] = Kept(U, k)
    <3> DEFINE r == IF Found(U, k) THEN k.resolution ELSE Unresolved
    <3>1. k = [id |-> k.id, copy |-> k.copy, entity |-> k.entity, source |-> k.source,
               says |-> k.says, resolution |-> k.resolution]
      BY <1>1
    <3>2. [k EXCEPT !.resolution = IF Found(U, k) THEN @ ELSE Unresolved]
            = [k EXCEPT !.resolution = r]
      OBVIOUS
    <3>3. Kept(U, k) = [id |-> k.id, copy |-> k.copy, entity |-> k.entity,
                        source |-> k.source, says |-> k.says, resolution |-> r]
      BY DEF Kept
    <3> HIDE DEF r
    <3>4. [k EXCEPT !.resolution = r]
            = [id |-> k.id, copy |-> k.copy, entity |-> k.entity, source |-> k.source,
               says |-> k.says, resolution |-> r]
      BY <3>1
    <3> QED
      BY <3>2, <3>3, <3>4
  <2> QED
    BY <2>1 DEF KeptSockets
<1>2. \A k : /\ Kept(S, k).id = k.id /\ Kept(S, k).copy = k.copy
             /\ Kept(S, k).entity = k.entity /\ Kept(S, k).source = k.source
             /\ Kept(S, k).says = k.says
             /\ Kept(S, k).resolution = IF Found(S, k) THEN k.resolution ELSE Unresolved
  BY DEF Kept
<1>3. AllSockets(T)
  <2>1. \A k : LET j == Kept(S, k)
               IN  j = [id |-> j.id, copy |-> j.copy, entity |-> j.entity,
                        source |-> j.source, says |-> j.says, resolution |-> j.resolution]
    BY DEF Kept
  <2> QED
    BY <2>1
<1>4. ASSUME NEW k \in S
      PROVE  Kept(T, Kept(S, k)) = Kept(S, k)
  <2> DEFINE j == Kept(S, k)
  <2>1. Found(T, j) <=> Found(S, k)
    BY <1>2 DEF Found
  <2>2. Kept(T, j) = [id |-> j.id, copy |-> j.copy, entity |-> j.entity, source |-> j.source,
                      says |-> j.says,
                      resolution |-> IF Found(T, j) THEN j.resolution ELSE Unresolved]
    BY DEF Kept
  <2>3. j.resolution = IF Found(T, j) THEN j.resolution ELSE Unresolved
    BY <1>2, <2>1
  <2>4. j = [id |-> j.id, copy |-> j.copy, entity |-> j.entity, source |-> j.source,
             says |-> j.says, resolution |-> j.resolution]
    BY DEF Kept
  <2> HIDE DEF j, T
  <2>5. Kept(T, j) = j
    BY <2>2, <2>3, <2>4, Zenon
  <2> QED
    BY <2>5 DEF j
<1>5. {Kept(T, j) : j \in T} = T
  <2>1. {Kept(T, j) : j \in T} = {Kept(T, Kept(S, k)) : k \in S}
    OBVIOUS
  <2> QED
    BY <1>4, <2>1
<1> QED
  <2>1. KeptSockets(S) = T
    BY <1>1
  <2>2. KeptSockets(T) = {Kept(T, j) : j \in T}
    BY <1>1, <1>3
  <2> QED
    BY <1>5, <2>1, <2>2

LEMMA RevivedIsPortable ==
    ASSUME NEW e, \A k \in e.sockets : SocketShape(e, k)
    PROVE  PortableEntity(Revived(e)) = PortableEntity(e)
<1> DEFINE r == Revived(e)
<1>1. /\ r.id = e.id /\ r.scale = e.scale /\ r.parent = e.parent /\ r.path = e.path
      /\ r.says = e.says /\ r.inherited = {}
      /\ r.sockets = {Kept(e.sockets, k) : k \in e.sockets}
      /\ r.green = {ParseGreen(g) : g \in e.green}
      /\ r.evidence = {ParseEvidence(v) : v \in e.evidence \cup e.inherited}
  BY DEF Revived
<1> HIDE DEF r
<1>2. {<<g.axes, g.overall>> : g \in r.green} = {<<g.axes, g.overall>> : g \in e.green}
  <2>1. \A g : ParseGreen(g).axes = g.axes /\ ParseGreen(g).overall = g.overall
    BY DEF ParseGreen
  <2> QED
    BY <1>1, <2>1
<1>3. {v.says : v \in r.evidence \cup r.inherited} = {v.says : v \in e.evidence \cup e.inherited}
  <2>1. \A v : ParseEvidence(v).says = v.says
    BY DEF ParseEvidence
  <2> QED
    BY <1>1, <2>1
<1>5. KeptSockets(r.sockets) = KeptSockets(e.sockets)
  <2>1. \A k \in e.sockets : k = [id |-> k.id, copy |-> k.copy, entity |-> k.entity,
                                  source |-> k.source, says |-> k.says,
                                  resolution |-> k.resolution]
    <3> TAKE k \in e.sockets
    <3>1. k = [id |-> k.id, copy |-> k.copy, entity |-> e.id, source |-> k.source,
               says |-> k.says, resolution |-> k.resolution]
      BY DEF SocketShape
    <3>2. k.entity = e.id
      BY <3>1
    <3> QED
      BY <3>1, <3>2, Zenon
  <2> QED
    BY <1>1, <2>1, KeptTwice
<1>4. PortableEntity(r) = PortableEntity(e)
  BY <1>1, <1>2, <1>3, <1>5 DEF PortableEntity
<1> QED
  BY <1>4 DEF r

\* A file keeps the portable part of what is stored, and what is decoded can be stored.
LEMMA FileIsPortable ==
    ASSUME NEW s, Orderly(s)
    PROVE  LET x == Decode(Encode(s, "galaxy"))
           IN  Plain(x) /\ Orderly(x) /\ Portable(x) = Portable(s)
<1> DEFINE x == Decode(Encode(s, "galaxy"))
<1>1. Coherent(s)
  BY DEF Orderly
<1>2. /\ x.id = s.id
      /\ x.entities = {Revived(e) : e \in SeenIn(s, "galaxy")}
      /\ x.edges = {ParseEdge(d) : d \in EdgesIn(s, "galaxy")}
  BY <1>1, DecodeEncode
<1>3. Plain(x)
  BY <1>1, DecodePlain, EncodeNumbered
<1> HIDE DEF x
<1>4. x.entities = {Revived(e) : e \in s.entities}
  BY <1>2 DEF SeenIn
<1>5. x.edges = {ParseEdge(d) : d \in s.edges}
  <2>1. \A d \in s.edges : d \in EdgesIn(s, "galaxy")
    BY DEF Orderly, EdgesIn, IdsIn, SeenIn
  <2>2. EdgesIn(s, "galaxy") = s.edges
    BY <2>1 DEF EdgesIn
  <2> QED
    BY <1>2, <2>2
<1>6. Orderly(x)
  <2>1. \A e : Revived(e).id = e.id
    BY DEF Revived
  <2>2. \A e, d \in x.entities : e.id = d.id => e = d
    BY <1>4, <2>1 DEF Orderly
  <2>3. \A e \in x.entities, d \in x.edges : e.id # d.id
    BY <1>4, <1>5, <2>1 DEF Orderly, ParseEdge
  <2>4. \A d \in x.edges : \E e \in x.entities : e.id = d.from
    BY <1>4, <1>5, <2>1 DEF Orderly, ParseEdge
  <2> QED
    BY <1>3, <2>2, <2>3, <2>4 DEF Orderly, Plain
<1>7. Portable(x) = Portable(s)
  <2>1. {PortableEntity(e) : e \in x.entities} = {PortableEntity(e) : e \in s.entities}
    <3>1. \A e \in s.entities : \A k \in e.sockets : SocketShape(e, k)
      BY <1>1 DEF Coherent
    <3>2. \A e \in s.entities : PortableEntity(Revived(e)) = PortableEntity(e)
      BY <3>1, RevivedIsPortable
    <3> QED
      BY <1>4, <3>2
  <2>2. {PortableEdge(d) : d \in x.edges} = {PortableEdge(d) : d \in s.edges}
    <3>1. \A d : PortableEdge(ParseEdge(d)) = PortableEdge(d)
      BY DEF PortableEdge, ParseEdge
    <3> QED
      BY <1>5, <3>1
  <2> QED
    BY <1>2, <2>1, <2>2, PortableParts
<1> QED
  BY <1>3, <1>6, <1>7 DEF x

\* The tables of the store: entities and edges.
LEMMA StoredParts ==
    ASSUME NEW s, s = [id |-> s.id, entities |-> s.entities, edges |-> s.edges,
                       records |-> s.records, conflicts |-> s.conflicts, sources |-> s.sources]
    PROVE  /\ Stored(s) = [id |-> s.id, entities |-> s.entities, edges |-> s.edges,
                           records |-> {}, conflicts |-> {}, sources |-> {}]
           /\ Portable(Stored(s)) = Portable(s)
           /\ Orderly(s) => Orderly(Stored(s))
           /\ Plain(s) => Plain(Stored(s))
<1> DEFINE t == Stored(s)
<1>1. t = [id |-> s.id, entities |-> s.entities, edges |-> s.edges, records |-> {},
           conflicts |-> {}, sources |-> {}]
  BY Zenon DEF Stored
<1> HIDE DEF t
<1>2. Portable(t) = Portable(s)
  BY <1>1, PortableParts
<1>0. Coherent(s) => Coherent(t)
  BY <1>1 DEF Coherent, Typed
<1>3. Orderly(s) => Orderly(t)
  BY <1>0, <1>1 DEF Orderly
<1>4. Plain(s) => Plain(t)
  BY <1>0, <1>1 DEF Plain
<1> QED
  BY <1>1, <1>2, <1>3, <1>4 DEF t

\* A database that a rebuild filled comes back from its projection as it is.
LEMMA RebuiltComesBack ==
    ASSUME NEW x, Plain(x), Orderly(x)
    PROVE  Stored(Decode(Encode(Stored(x), "galaxy"))) = Stored(x)
<1> DEFINE t == Stored(x)
           y == Decode(Encode(t, "galaxy"))
<1>0. x = [id |-> x.id, entities |-> x.entities, edges |-> x.edges, records |-> x.records,
           conflicts |-> x.conflicts, sources |-> x.sources]
  BY DEF Plain
<1>1. /\ t = [id |-> x.id, entities |-> x.entities, edges |-> x.edges, records |-> {},
              conflicts |-> {}, sources |-> {}]
      /\ Plain(t) /\ Orderly(t)
  BY <1>0, StoredParts
<1> HIDE DEF t
<1>2. y.id = t.id /\ y.entities = SeenIn(t, "galaxy") /\ y.edges = EdgesIn(t, "galaxy")
  BY <1>1, PlainDecodes
<1>3. SeenIn(t, "galaxy") = t.entities /\ EdgesIn(t, "galaxy") = t.edges
  BY <1>1 DEF Orderly, EdgesIn, IdsIn, SeenIn
<1>4. Plain(y)
  BY <1>1, DecodePlain, EncodeNumbered DEF Plain
<1> HIDE DEF y
<1>5. Stored(y) = [id |-> y.id, entities |-> y.entities, edges |-> y.edges, records |-> {},
                   conflicts |-> {}, sources |-> {}]
  BY <1>4, StoredParts DEF Plain
<1>6. Stored(y) = t
  BY <1>1, <1>2, <1>3, <1>5
<1> QED
  BY <1>6 DEF y, t

-----------------------------------------------------------------------------
(* The rebuild.                                                            *)

\* The root's file decodes to the portable part of what was compiled, and the database is
\* that part: as the scan stored it, or as a rebuild decoded it.
IdxInv ==
    /\ WellFormed(compiled)
    /\ rootIdx = [scope |-> "galaxy", snapshot |-> rootIdx.snapshot, lines |-> rootIdx.lines]
    /\ Numbered(rootIdx)
    /\ Orderly(Decode(rootIdx))
    /\ Portable(Decode(rootIdx)) = Portable(compiled)
    /\ database # None =>
          /\ Orderly(database)
          /\ Portable(database) = Portable(compiled)
          /\ rebuilt => \E x : Plain(x) /\ Orderly(x) /\ database = Stored(x)

LEMMA EncodeIsRoot ==
    ASSUME NEW s
    PROVE  LET file == Encode(s, "galaxy")
           IN  file = [scope |-> "galaxy", snapshot |-> file.snapshot, lines |-> file.lines]
<1> DEFINE file == Encode(s, "galaxy")
<1>1. \E L : file = [scope |-> "galaxy", snapshot |-> s.id, lines |-> L]
  BY EncodeParts
<1> HIDE DEF file
<1>2. file = [scope |-> "galaxy", snapshot |-> file.snapshot, lines |-> file.lines]
  BY <1>1
<1> QED
  BY <1>2 DEF file

LEMMA CompiledIsPortable ==
    ASSUME NEW s \in Snapshots
    PROVE  /\ WellFormed(s) /\ Orderly(Stored(s)) /\ Portable(Stored(s)) = Portable(s)
           /\ Numbered(Encode(s, "galaxy")) /\ Orderly(Decode(Encode(s, "galaxy")))
           /\ Portable(Decode(Encode(s, "galaxy"))) = Portable(s)
<1>1. WellFormed(s)
  BY SnapshotsAssumption
<1>3. Orderly(s)
  BY <1>1, WellFormedIsOrderly
<1>4. Numbered(Encode(s, "galaxy"))
  BY <1>3, EncodeNumbered DEF Orderly
<1>2. s = [id |-> s.id, entities |-> s.entities, edges |-> s.edges, records |-> s.records,
           conflicts |-> s.conflicts, sources |-> s.sources]
  BY <1>1 DEF WellFormed
<1> QED
  BY <1>1, <1>2, <1>3, <1>4, StoredParts, FileIsPortable

LEMMA IdxStep == IdxInv /\ [IdxNext]_idxVars => IdxInv'
<1> SUFFICES ASSUME IdxInv, [IdxNext]_idxVars
             PROVE  IdxInv'
  OBVIOUS
<1>1. CASE Compile
  <2>1. /\ compiled' \in Snapshots
        /\ database' = Stored(compiled') /\ rootIdx' = Encode(compiled', "galaxy")
        /\ rebuilt' = FALSE
    BY <1>1 DEF Compile
  <2> QED
    BY <2>1, CompiledIsPortable, EncodeIsRoot DEF IdxInv
<1>2. CASE Reproject
  <2>1. /\ database # None /\ rootIdx' = Encode(database, "galaxy")
        /\ UNCHANGED <<compiled, database, rebuilt>>
    BY <1>2 DEF Reproject
  <2>2. Orderly(database) /\ Portable(database) = Portable(compiled)
    BY <2>1 DEF IdxInv
  <2>3. /\ Orderly(Decode(rootIdx')) /\ Portable(Decode(rootIdx')) = Portable(database)
        /\ Numbered(rootIdx')
    BY <2>1, <2>2, FileIsPortable, EncodeNumbered DEF Orderly
  <2> QED
    BY <2>1, <2>2, <2>3, EncodeIsRoot DEF IdxInv
<1>3. CASE Foreign
  <2>1. /\ rootIdx' = [scope |-> "galaxy", snapshot |-> rootIdx.snapshot,
                       lines |-> rootIdx.lines \cup {[tag |-> "@future"]}]
        /\ UNCHANGED <<compiled, database, rebuilt>>
    BY <1>3 DEF Foreign, IdxInv
  <2>2. \A tag \in {"@entity", "@edge", "@conflict", "@source", "@green", "@evidence",
                     "@socket", "@fit", "@hole"} : Lines(rootIdx', tag) = Lines(rootIdx, tag)
    BY <2>1 DEF Lines
  <2>3. {m \in rootIdx'.lines : m.tag \in RecordTags} = {m \in rootIdx.lines : m.tag \in RecordTags}
    BY <2>1 DEF RecordTags
  <2>4. \A e : AttachEntity(rootIdx', e) = AttachEntity(rootIdx, e)
    <3>1. \A i : Resolution(rootIdx', i) = Resolution(rootIdx, i)
      BY <2>2 DEF Resolution
    <3>2. \A l : ParseSocket(rootIdx', l) = ParseSocket(rootIdx, l)
      BY <2>2, <3>1 DEF ParseSocket
    <3> QED
      BY <2>2, <3>2 DEF AttachEntity
  <2>5. Decode(rootIdx') = Decode(rootIdx)
    BY <2>1, <2>2, <2>3, <2>4 DEF Decode
  <2>6. Numbered(rootIdx')
    BY <2>2 DEF IdxInv, Numbered
  <2> QED
    BY <2>1, <2>5, <2>6 DEF IdxInv
<1>4. CASE LoseDatabase
  BY <1>4 DEF LoseDatabase, IdxInv
<1>5. CASE Rebuild
  <2>1. /\ database' = Stored(Decode(rootIdx)) /\ UNCHANGED <<compiled, rootIdx>>
    BY <1>5 DEF Rebuild
  <2> DEFINE x == Decode(rootIdx)
  <2>2. Plain(x) /\ Orderly(x) /\ Portable(x) = Portable(compiled)
    BY DecodePlain DEF IdxInv
  <2> HIDE DEF x
  <2>3. Orderly(Stored(x)) /\ Portable(Stored(x)) = Portable(x)
    BY <2>2, StoredParts DEF Plain
  <2>4. database' = Stored(x)
    BY <2>1 DEF x
  <2> QED
    BY <2>1, <2>2, <2>3, <2>4 DEF IdxInv
<1>6. CASE UNCHANGED idxVars
  BY <1>6 DEF idxVars, IdxInv
<1> QED
  BY <1>1, <1>2, <1>3, <1>4, <1>5, <1>6 DEF IdxNext

\* The database and the root's file keep the portable part of what was compiled.
THEOREM IdxInvariant == IdxSpec => []IdxInv
<1>1. IdxInit => IdxInv
  <2> SUFFICES ASSUME IdxInit
               PROVE  IdxInv
    OBVIOUS
  <2>1. /\ compiled \in Snapshots /\ database = Stored(compiled)
        /\ rootIdx = Encode(compiled, "galaxy") /\ rebuilt = FALSE
    BY DEF IdxInit
  <2> QED
    BY <2>1, CompiledIsPortable, EncodeIsRoot DEF IdxInv
<1> QED
  BY <1>1, IdxStep, PTL DEF IdxSpec

\* Whatever is projected, lost and rebuilt, the database and the text hold the portable part
\* of what the scan compiled, in which the last socket of an identity has its resolution,
\* and lose nothing after the first rebuild; the text of the root and of every folder settles
\* when it is decoded and encoded once (rebuild.rs, encode.rs, decode.rs).
THEOREM RebuildKeepsAlways == IdxSpec => []RebuildKeeps
<1>1. IdxInv => RebuildKeeps
  <2> SUFFICES ASSUME IdxInv
               PROVE  RebuildKeeps
    OBVIOUS
  <2>1. ASSUME database # None
        PROVE  /\ Portable(database) = Portable(compiled)
               /\ rebuilt => Stored(Decode(Encode(database, "galaxy"))) = database
    BY <2>1, RebuiltComesBack DEF IdxInv
  <2>2. Portable(Decode(rootIdx)) = Portable(compiled)
    BY DEF IdxInv
  <2>3. /\ Settles(rootIdx, "galaxy")
        /\ \A e \in compiled.entities : Settles(Encode(compiled, e.id), e.id)
    BY EveryFileSettles, EncodeNumbered, WellFormedIsOrderly DEF IdxInv, Orderly
  <2> QED
    BY <2>1, <2>2, <2>3 DEF RebuildKeeps
<1> QED
  BY <1>1, IdxInvariant, PTL
=============================================================================
