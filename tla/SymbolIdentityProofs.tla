------------------------ MODULE SymbolIdentityProofs ------------------------
(***************************************************************************)
(* Theorems about SymbolIdentity, for any names, constructs and orders of  *)
(* the ids, and files of any length.                                       *)
(*                                                                         *)
(* The inductive invariant joins to the type invariant that no stored      *)
(* entity is consumed twice (CarriedOnce), that the stored ids are unique  *)
(* (StoredOnce), and what phase 1 has settled so far (LoneMatched).        *)
(* Repetition needs more: while the text is the stored one, phase 1 hands  *)
(* the kindred out by rank (MatchedInOrder), which leaves them stored in   *)
(* that order (StoredInOrder), so that the next repetition finds each in   *)
(* its place (MatchedInPlace).                                             *)
(***************************************************************************)
EXTENDS SymbolIdentity, SequenceTheorems, FiniteSetTheorems, TLAPS

-----------------------------------------------------------------------------
(* Texts and fresh ids.                                                    *)

\* A text is a sequence of at most MaxDecls declarations.
LEMMA TextIsSeq ==
    ASSUME NEW t \in Text
    PROVE  /\ t \in Seq(Decl)
           /\ DOMAIN t = 1..Len(t)
           /\ Len(t) \in Nat /\ Len(t) <= MaxDecls
<1>1. PICK n \in 0..MaxDecls : t \in [1..n -> Decl]
    BY DEF Text
<1>2. n \in Nat
    BY <1>1, BoundsAssumption
<1>3. t \in Seq(Decl) /\ Len(t) = n
    BY <1>1, <1>2, SeqDef
<1> QED
    BY <1>1, <1>2, <1>3, BoundsAssumption

LEMMA EmptyIsText == <<>> \in Text
<1>1. <<>> \in [1..0 -> Decl]
    OBVIOUS
<1>2. 0 \in 0..MaxDecls
    BY BoundsAssumption
<1> QED
    BY <1>1, <1>2 DEF Text

\* The id minted for a declaration is an id.
LEMMA FreshIsId ==
    ASSUME next \in Text, NEW i \in DOMAIN next
    PROVE  Fresh(i) \in Id
<1>1. i \in 1..Len(next) /\ Len(next) \in Nat /\ Len(next) <= MaxDecls /\ next[i] \in Decl
    BY TextIsSeq, ElementOfSeq
<1> DEFINE before == 1..i - 1
<1>2. IsFiniteSet(before) /\ Cardinality(before) = i - 1
    <2>1. i \in Int /\ 1 \in Int /\ i - 1 \in Int /\ i >= 1
        BY <1>1
    <2>2. IsFiniteSet(before) /\ Cardinality(before) = IF 1 > i - 1 THEN 0 ELSE (i - 1) - 1 + 1
        BY <2>1, FS_Interval
    <2> HIDE DEF before
    <2> QED
        BY <2>1, <2>2
<1>3. Earlier(i) \in SUBSET before
    BY DEF Earlier
<1>4. Cardinality(Earlier(i)) \in Nat /\ Cardinality(Earlier(i)) <= i - 1
    BY <1>2, <1>3, FS_Subset, FS_CardinalityType
<1>5. Cardinality(Earlier(i)) \in 0..MaxDecls
    BY <1>1, <1>4, BoundsAssumption
<1> QED
    BY <1>1, <1>5 DEF Fresh, Id, Decl

\* Fresh ids never collide: of two declarations that share a name and a line,
\* the later has more of them before it.
LEMMA FreshIsFresh ==
    ASSUME next \in Text,
           NEW i \in DOMAIN next, NEW j \in DOMAIN next, i < j
    PROVE  Fresh(i) # Fresh(j)
<1>1. i \in 1..Len(next) /\ j \in 1..Len(next) /\ Len(next) \in Nat
    BY TextIsSeq
<1> SUFFICES ASSUME Fresh(i) = Fresh(j)
             PROVE  FALSE
    OBVIOUS
<1>2. /\ next[i].name = next[j].name /\ next[i].line = next[j].line
      /\ Cardinality(Earlier(i)) = Cardinality(Earlier(j))
    BY DEF Fresh
<1>3. Earlier(i) \subseteq Earlier(j)
    BY <1>1, <1>2 DEF Earlier
<1>4. i \in Earlier(j) /\ i \notin Earlier(i)
    BY <1>1, <1>2 DEF Earlier
<1>5. IsFiniteSet(Earlier(j))
    <2>1. IsFiniteSet(1..j - 1)
        BY <1>1, FS_Interval
    <2> QED
        BY <2>1, FS_Subset DEF Earlier
<1>6. Earlier(j) = Earlier(i)
    BY <1>2, <1>3, <1>5, FS_Subset
<1> QED
    BY <1>4, <1>6

-----------------------------------------------------------------------------
(* The inductive invariant.                                                *)

\* The stored ids are unique.
StoredOnce ==
    \A p, q \in DOMAIN store : store[p].id = store[q].id => p = q

\* Stored entity p and declaration i have one name and one kind.
Same(p, i) == /\ store[p].decl.name = next[i].name
              /\ Kind[store[p].decl.label] = Kind[next[i].label]

\* ... and are the only ones to have them.
Lone(p, i) == /\ Same(p, i)
              /\ \A q \in DOMAIN store : Same(q, i) => q = p
              /\ \A j \in DOMAIN next : Same(p, j) => j = i

\* In a file of kind File, phase 1 matches by name and kind, in the order of the text,
\* and whatever stands alone on both sides is matched when it ends.
LoneMatched ==
    Reconciled =>
        /\ phase = "move" => \A i \in DOMAIN next :
              /\ match[i] # 0 => i < at /\ Same(match[i], i)
              /\ i < at => \A p \in DOMAIN store : Lone(p, i) => match[i] = p
        /\ phase \in {"rename", "finish"} => \A i \in DOMAIN next :
              \A p \in DOMAIN store : Lone(p, i) => match[i] = p

Inv == TypeOK /\ CarriedOnce /\ StoredOnce /\ LoneMatched

-----------------------------------------------------------------------------
(* Type correctness.                                                       *)

\* The domains of the sequences.
LEMMA Domains ==
    ASSUME TypeOK
    PROVE  /\ Len(store) \in Nat /\ DOMAIN store = 1..Len(store)
           /\ Len(next) \in Nat /\ DOMAIN next = 1..Len(next)
           /\ DOMAIN match = DOMAIN next
           /\ 0 \notin DOMAIN store
           /\ \A p \in DOMAIN store : store[p] \in Entity
           /\ \A i \in DOMAIN next : next[i] \in Decl
<1> USE DEF TypeOK
<1>1. Len(store) \in Nat /\ DOMAIN store = 1..Len(store)
    BY LenProperties
<1>2. \A p \in DOMAIN store : store[p] \in Entity
    BY <1>1, ElementOfSeq
<1>3. \A i \in DOMAIN next : next[i] \in Decl
    BY TextIsSeq, ElementOfSeq
<1> QED
    BY <1>1, <1>2, <1>3, TextIsSeq

LEMMA ResultType ==
    ASSUME TypeOK
    PROVE  /\ Result \in Seq(Entity)
           /\ DOMAIN Result = DOMAIN next
           /\ \A i \in DOMAIN next :
                 /\ Result[i].id = IdOf(i)
                 /\ Result[i].decl = next[i]
                 /\ Result[i].summary = Carried(IdOf(i))
<1>1. \A i \in DOMAIN next : IdOf(i) \in Id
    <2> TAKE i \in DOMAIN next
    <2>1. CASE match[i] = 0
        BY <2>1, FreshIsId DEF IdOf, TypeOK
    <2>2. CASE match[i] # 0
        <3>1. match[i] \in DOMAIN store
            BY <2>2, Domains DEF TypeOK
        <3>2. store[match[i]].id \in Id
            BY <3>1, Domains DEF Entity
        <3> QED
            BY <2>2, <3>2 DEF IdOf
    <2> QED
        BY <2>1, <2>2
<1>2. \A i \in DOMAIN next : Carried(IdOf(i)) \in BOOLEAN
    BY DEF Carried
<1>3. \A i \in DOMAIN next :
          [id |-> IdOf(i), decl |-> next[i], summary |-> Carried(IdOf(i))] \in Entity
    BY <1>1, <1>2, Domains DEF Entity
<1>4. Result \in [1..Len(next) -> Entity]
    BY <1>3, Domains DEF Result
<1>5. Result \in Seq(Entity)
    BY <1>4, Domains, SeqDef
<1> QED
    BY <1>5 DEF Result

-----------------------------------------------------------------------------
(* The steps.                                                              *)

LEMMA InitInv == Init => Inv
<1> SUFFICES ASSUME Init PROVE Inv
    OBVIOUS
<1>1. DOMAIN next = {} /\ DOMAIN store = {} /\ Len(next) = 0 /\ Len(store) = 0
    BY DEF Init
<1>2. TypeOK
    <2>1. store \in Seq(Entity) /\ next \in Text
        BY EmptyIsText, EmptySeq DEF Init
    <2>2. match \in [DOMAIN next -> 0..Len(store)]
        BY <1>1 DEF Init
    <2>3. at \in 1..Len(next) + 1
        BY <1>1 DEF Init
    <2> QED
        BY <2>1, <2>2, <2>3 DEF Init, TypeOK, Phases
<1> QED
    BY <1>1, <1>2 DEF Inv, CarriedOnce, StoredOnce, LoneMatched

LEMMA ParseInv ==
    ASSUME Inv, NEW t \in Texts, Parse(t)
    PROVE  Inv'
<1>1. t \in Text /\ Len(t) \in Nat
    BY TextsAssumption, TextIsSeq
<1>2. TypeOK'
    <2>1. match' \in [DOMAIN next' -> 0..Len(store')]
        <3>1. 0 \in 0..Len(store)
            BY Domains DEF Inv
        <3> QED
            BY <3>1 DEF Parse
    <2>2. at' \in 1..Len(next') + 1
        BY <1>1 DEF Parse
    <2> QED
        BY <1>1, <2>1, <2>2 DEF Parse, Inv, TypeOK, Phases
<1>3. CarriedOnce' /\ StoredOnce'
    BY DEF Parse, Inv, CarriedOnce, StoredOnce
<1>4. LoneMatched'
    <2>1. \A i \in DOMAIN next' : match'[i] = 0 /\ ~(i < at')
        BY <1>1, TextIsSeq DEF Parse
    <2> QED
        BY <2>1 DEF Parse, LoneMatched
<1> QED
    BY <1>2, <1>3, <1>4 DEF Inv

\* A step of a phase that matches the declaration it looks at with a free
\* stored entity, or with none.
LEMMA MatchInv ==
    ASSUME Inv, at \in DOMAIN next,
           \/ UNCHANGED match
           \/ \E p \in Free : match' = [match EXCEPT ![at] = p],
           UNCHANGED <<store, next, rank, fileKind, steady>>,
           phase' \in Phases, at' \in 1..Len(next) + 1
    PROVE  TypeOK' /\ CarriedOnce' /\ StoredOnce'
<1>1. CASE UNCHANGED match
    BY <1>1 DEF Inv, TypeOK, CarriedOnce, StoredOnce
<1>2. CASE \E p \in Free : match' = [match EXCEPT ![at] = p]
    <2>1. PICK p \in Free : match' = [match EXCEPT ![at] = p]
        BY <1>2
    <2>2. p \in DOMAIN store /\ p \in 0..Len(store) /\ \A i \in DOMAIN next : match[i] # p
        BY Domains DEF Inv, Free, Consumed
    <2>3. TypeOK'
        BY <2>1, <2>2 DEF Inv, TypeOK
    <2>4. CarriedOnce'
        BY <2>1, <2>2 DEF Inv, TypeOK, CarriedOnce
    <2> QED
        BY <2>3, <2>4 DEF Inv, StoredOnce
<1> QED
    BY <1>1, <1>2

LEMMA ProceedType ==
    ASSUME TypeOK, at \in DOMAIN next, NEW after \in Phases, Proceed(after)
    PROVE  /\ phase' \in Phases
           /\ at' \in 1..Len(next) + 1
           /\ at < Len(next) => at' = at + 1 /\ phase' = phase
           /\ ~(at < Len(next)) => at = Len(next) /\ at' = 1 /\ phase' = after
           /\ UNCHANGED <<store, next, rank, fileKind, steady>>
<1>1. at \in 1..Len(next) /\ Len(next) \in Nat /\ at \in Int
    BY Domains
<1> QED
    BY <1>1 DEF Proceed, TypeOK

\* What phase 1 does to the declaration it looks at.
LEMMA MoveMatch ==
    ASSUME Inv, Move
    PROVE  \/ UNCHANGED match /\ ~\E p \in Free : Same(p, at)
           \/ \E p \in Free : Same(p, at) /\ match' = [match EXCEPT ![at] = p]
BY DEF Move, SameName, Same

LEMMA MoveInv ==
    ASSUME Inv, Move
    PROVE  Inv'
<1> Reconciled
    BY DEF Move
<1>1. /\ phase = "move" /\ at \in DOMAIN next
      /\ at \in 1..Len(next) /\ Len(next) \in Nat /\ at \in Int
    BY Domains DEF Move, Inv
<1>2. Proceed("rename") /\ "rename" \in Phases
    BY DEF Move, Phases
<1>3. /\ phase' \in Phases
      /\ at' \in 1..Len(next) + 1
      /\ at < Len(next) => at' = at + 1 /\ phase' = "move"
      /\ ~(at < Len(next)) => at = Len(next) /\ phase' = "rename"
      /\ UNCHANGED <<store, next, rank, fileKind, steady>>
    BY <1>1, <1>2, ProceedType DEF Inv
<1>4. TypeOK' /\ CarriedOnce' /\ StoredOnce'
    BY <1>1, <1>3, MoveMatch, MatchInv
<1>5. match[at] = 0
    BY <1>1 DEF Inv, LoneMatched
<1>6. /\ \A i \in DOMAIN next : match'[i] # 0 => i <= at /\ Same(match'[i], i)
      /\ \A i \in DOMAIN next : i # at => match'[i] = match[i]
    <2>1. CASE UNCHANGED match
        BY <1>1, <2>1, Domains DEF Inv, LoneMatched
    <2>2. ASSUME NEW p \in Free, Same(p, at), match' = [match EXCEPT ![at] = p]
          PROVE  /\ \A i \in DOMAIN next : match'[i] # 0 => i <= at /\ Same(match'[i], i)
                 /\ \A i \in DOMAIN next : i # at => match'[i] = match[i]
        <3>1. DOMAIN match = DOMAIN next /\ \A i \in DOMAIN next : i \in Int
            BY Domains DEF Inv
        <3> QED
            BY <1>1, <2>2, <3>1 DEF Inv, LoneMatched
    <2> QED
        BY <2>1, <2>2, MoveMatch
<1>7. \A p \in DOMAIN store : Lone(p, at) => match'[at] = p
    <2> SUFFICES ASSUME NEW p \in DOMAIN store, Lone(p, at)
                 PROVE  match'[at] = p
        OBVIOUS
    <2>1. p # 0 /\ Same(p, at)
        BY Domains DEF Inv, Lone
    <2>2. p \in Free
        <3> SUFFICES ASSUME NEW j \in DOMAIN next, match[j] = p
                     PROVE  FALSE
            BY DEF Free, Consumed
        <3>1. Same(p, j)
            BY <1>1, <2>1 DEF Inv, LoneMatched
        <3>2. j = at
            BY <3>1 DEF Lone
        <3> QED
            BY <1>5, <2>1, <3>2
    <2>3. PICK q \in Free : Same(q, at) /\ match' = [match EXCEPT ![at] = q]
        BY <2>1, <2>2, MoveMatch
    <2>4. q = p
        BY <2>3 DEF Lone, Free
    <2> QED
        BY <1>1, <2>3, <2>4, Domains DEF Inv
<1>8. \A i \in DOMAIN next : i <= at => \A p \in DOMAIN store : Lone(p, i) => match'[i] = p
    BY <1>1, <1>6, <1>7, Domains DEF Inv, LoneMatched
<1>9. LoneMatched'
    <2>1. \A p, i : (Same(p, i) <=> Same(p, i)') /\ (Lone(p, i) <=> Lone(p, i)')
        BY <1>3 DEF Same, Lone
    <2>2. \A i \in DOMAIN next : i \in Int /\ i <= Len(next)
        BY Domains DEF Inv
    <2>3. CASE at < Len(next)
        BY <1>1, <1>3, <1>6, <1>8, <2>1, <2>2, <2>3 DEF LoneMatched
    <2>4. CASE ~(at < Len(next))
        BY <1>1, <1>3, <1>8, <2>1, <2>2, <2>4 DEF LoneMatched
    <2> QED
        BY <2>3, <2>4
<1> QED
    BY <1>4, <1>9 DEF Inv

LEMMA RenameInv ==
    ASSUME Inv, Rename
    PROVE  Inv'
<1> Reconciled
    BY DEF Rename
<1>1. /\ phase = "rename" /\ at \in DOMAIN next
      /\ Proceed("finish") /\ "finish" \in Phases
    BY DEF Rename, Phases
<1>2. /\ phase' \in {"rename", "finish"} /\ phase' \in Phases
      /\ at' \in 1..Len(next) + 1
      /\ UNCHANGED <<store, next, rank, fileKind, steady>>
    BY <1>1, ProceedType DEF Inv
<1>3. \/ UNCHANGED match
      \/ match[at] = 0 /\ \E p \in Free : match' = [match EXCEPT ![at] = p]
    <2> DEFINE found == {p \in Free : SameShape(p)}
    <2>1. CASE match[at] = 0 /\ Cardinality(found) = 1
        <3>1. IsFiniteSet(DOMAIN store)
            BY Domains, FS_Interval DEF Inv
        <3>2. IsFiniteSet(found)
            BY <3>1, FS_Subset DEF Free
        <3>3. PICK x : found = {x}
            BY <2>1, <3>2, FS_Singleton
        <3>4. (CHOOSE p \in found : TRUE) \in found
            BY <3>3
        <3> QED
            BY <2>1, <3>4 DEF Rename
    <2>2. CASE ~(match[at] = 0 /\ Cardinality(found) = 1)
        BY <2>2 DEF Rename
    <2> QED
        BY <2>1, <2>2
<1>4. TypeOK' /\ CarriedOnce' /\ StoredOnce'
    BY <1>1, <1>2, <1>3, MatchInv
<1>5. \A p, i : Lone(p, i) <=> Lone(p, i)'
    BY <1>2 DEF Same, Lone
<1>6. \A i \in DOMAIN next : match[i] # 0 => match'[i] = match[i]
    BY <1>1, <1>3, Domains DEF Inv
<1>7. \A i \in DOMAIN next : \A p \in DOMAIN store : Lone(p, i) => match[i] = p /\ p # 0
    BY <1>1, Domains DEF Inv, LoneMatched
<1>8. LoneMatched'
    BY <1>2, <1>5, <1>6, <1>7 DEF LoneMatched
<1> QED
    BY <1>4, <1>8 DEF Inv

LEMMA SkipInv ==
    ASSUME Inv, Skip
    PROVE  Inv'
<1>1. DOMAIN next = {} \/ ~Reconciled'
    BY DEF Skip, Reconciled
<1>2. LoneMatched'
    BY <1>1 DEF Skip, LoneMatched
<1> QED
    BY <1>2 DEF Skip, Inv, TypeOK, Phases, CarriedOnce, StoredOnce

LEMMA AcceptInv ==
    ASSUME Inv, Accept
    PROVE  Inv'
<1>1. TypeOK'
    <2>1. next' \in Text /\ DOMAIN next' = {} /\ Len(next') = 0
        BY EmptyIsText DEF Accept
    <2>2. store' \in Seq(Entity)
        BY ResultType DEF Accept, Inv
    <2>3. steady' \in BOOLEAN
        BY DEF Accept, SameText
    <2>4. match' \in [DOMAIN next' -> 0..Len(store')]
        BY <2>1 DEF Accept
    <2>5. at' \in 1..Len(next') + 1
        BY <2>1 DEF Accept
    <2> QED
        BY <2>1, <2>2, <2>3, <2>4, <2>5 DEF Accept, Inv, TypeOK, Phases
<1>2. StoredOnce'
    BY ResultType DEF Accept, Distinct, Inv, StoredOnce
<1> QED
    BY <1>1, <1>2 DEF Accept, Inv, CarriedOnce, LoneMatched

LEMMA RejectInv ==
    ASSUME Inv, Reject
    PROVE  Inv'
<1>1. TypeOK'
    <2>1. next' \in Text /\ DOMAIN next' = {} /\ Len(next') = 0
        BY EmptyIsText DEF Reject
    <2>2. match' \in [DOMAIN next' -> 0..Len(store')]
        BY <2>1 DEF Reject
    <2>3. at' \in 1..Len(next') + 1
        BY <2>1 DEF Reject
    <2> QED
        BY <2>1, <2>2, <2>3 DEF Reject, Inv, TypeOK, Phases
<1> QED
    BY <1>1 DEF Reject, Inv, CarriedOnce, StoredOnce, LoneMatched

\* A summary changes nothing else of the store.
LEMMA SummariseStore ==
    ASSUME Inv, NEW p \in DOMAIN store, Summarise(p)
    PROVE  /\ store' \in Seq(Entity) /\ Len(store') = Len(store)
           /\ DOMAIN store' = DOMAIN store
           /\ \A q \in DOMAIN store :
                 /\ store'[q].id = store[q].id
                 /\ store'[q].decl = store[q].decl
                 /\ store[q].summary => store'[q].summary
<1>1. store' = [store EXCEPT ![p] = [store[p] EXCEPT !.summary = TRUE]]
    BY DEF Summarise
<1>2. /\ store \in Seq(Entity) /\ p \in 1..Len(store)
      /\ \A q \in DOMAIN store : store[q] \in Entity
    BY Domains DEF Inv, TypeOK
<1> DEFINE entity == [store[p] EXCEPT !.summary = TRUE]
<1>3. /\ entity \in Entity /\ entity.id = store[p].id
      /\ entity.decl = store[p].decl /\ entity.summary
    BY <1>2 DEF Entity
<1> HIDE DEF entity
<1>4. store' \in Seq(Entity) /\ Len(store') = Len(store) /\ DOMAIN store' = DOMAIN store
    BY <1>1, <1>2, <1>3, ExceptSeq DEF entity
<1>5. \A q \in DOMAIN store : store'[q] = IF q = p THEN entity ELSE store[q]
    BY <1>1 DEF entity
<1> QED
    BY <1>3, <1>4, <1>5

LEMMA SummariseInv ==
    ASSUME Inv, NEW p \in DOMAIN store, Summarise(p)
    PROVE  Inv'
<1>1. TypeOK'
    BY SummariseStore DEF Summarise, Inv, TypeOK
<1>2. StoredOnce'
    BY SummariseStore DEF Inv, StoredOnce
<1> QED
    BY <1>1, <1>2 DEF Summarise, Inv, CarriedOnce, LoneMatched

LEMMA StepInv == Inv /\ [Next]_vars => Inv'
<1> SUFFICES ASSUME Inv, [Next]_vars
             PROVE  Inv'
    OBVIOUS
<1>1. CASE Next
    BY <1>1, ParseInv, MoveInv, RenameInv, SkipInv, AcceptInv, RejectInv,
       SummariseInv DEF Next
<1>2. CASE UNCHANGED vars
    BY <1>2 DEF vars, Inv, TypeOK, CarriedOnce, StoredOnce, LoneMatched, Lone, Same, Reconciled
<1> QED
    BY <1>1, <1>2

LEMMA Invariance == Spec => []Inv
<1> QED
    BY InitInv, StepInv, PTL DEF Spec

-----------------------------------------------------------------------------
(* The theorems.                                                           *)

\* Every variable has its type.
THEOREM TypeCorrect == Spec => []TypeOK
<1>1. Inv => TypeOK
    BY DEF Inv
<1> QED
    BY <1>1, Invariance, PTL

\* reconcile_identity gives no stored identity to two declarations.
THEOREM NoIdentityIsCarriedTwice == Spec => []CarriedOnce
<1>1. Inv => CarriedOnce
    BY DEF Inv
<1> QED
    BY <1>1, Invariance, PTL

\* The hierarchy rejects a scan only because an id that was just minted is one
\* that another declaration has carried on: two minted ids differ, and so do
\* two carried ones.
THEOREM OnlyReuseRejects == Spec => []RejectedOnlyForReuse
<1>1. Inv => RejectedOnlyForReuse
    <2> SUFFICES ASSUME Inv, phase = "finish", ~Distinct
                 PROVE  \E i, j \in DOMAIN next : /\ match[i] = 0 /\ match[j] # 0
                                                  /\ Fresh(i) = store[match[j]].id
        BY DEF RejectedOnlyForReuse
    <2>1. PICK i, j \in DOMAIN next : i # j /\ IdOf(i) = IdOf(j)
        BY DEF Distinct
    <2>2. CASE match[i] = 0 /\ match[j] = 0
        <3>1. Fresh(i) = Fresh(j)
            BY <2>1, <2>2 DEF IdOf
        <3>2. i < j \/ j < i
            BY <2>1, Domains DEF Inv
        <3> QED
            BY <3>1, <3>2, FreshIsFresh DEF Inv, TypeOK
    <2>3. CASE match[i] # 0 /\ match[j] # 0
        <3>1. match[i] \in DOMAIN store /\ match[j] \in DOMAIN store
            BY <2>3, Domains DEF Inv, TypeOK
        <3>2. match[i] = match[j]
            BY <2>1, <2>3, <3>1 DEF IdOf, Inv, StoredOnce
        <3> QED
            BY <2>1, <2>3, <3>2 DEF Inv, CarriedOnce
    <2>4. CASE match[i] = 0 /\ match[j] # 0
        BY <2>1, <2>4 DEF IdOf
    <2>5. CASE match[i] # 0 /\ match[j] = 0
        BY <2>1, <2>5 DEF IdOf
    <2> QED
        BY <2>2, <2>3, <2>4, <2>5
<1> QED
    BY <1>1, Invariance, PTL

\* If there is one entity like a declaration, two that are like it are the same.
LEMMA AlikeOnce ==
    ASSUME NEW entities, NEW d, IsFiniteSet(DOMAIN entities), Alike(entities, d) = 1,
           NEW p \in DOMAIN entities, NEW q \in DOMAIN entities,
           entities[p].decl.name = d.name, entities[q].decl.name = d.name,
           Kind[entities[p].decl.label] = Kind[d.label],
           Kind[entities[q].decl.label] = Kind[d.label]
    PROVE  p = q
<1> DEFINE like == {i \in DOMAIN entities :
                      /\ entities[i].decl.name = d.name
                      /\ Kind[entities[i].decl.label] = Kind[d.label]}
<1>1. IsFiniteSet(like)
    BY FS_Subset
<1>2. PICK x : like = {x}
    BY <1>1, FS_Singleton DEF Alike
<1> QED
    BY <1>2

\* A declaration that stands alone in its name and kind, before and after a
\* scan, keeps its id and its summary.
THEOREM MovesKeepIdentity == Spec => MovedKeepsIdentity
<1> DEFINE Step == \A p \in DOMAIN store : \A i \in DOMAIN store' :
          /\ fileKind = "File"
          /\ store[p].decl.name = store'[i].decl.name
          /\ Kind[store[p].decl.label] = Kind[store'[i].decl.label]
          /\ Alike(store, store[p].decl) = 1
          /\ Alike(store', store[p].decl) = 1
          => /\ store'[i].id = store[p].id
             /\ store[p].summary => store'[i].summary
<1>1. ASSUME Inv, Next
      PROVE  Step
    <2> SUFFICES ASSUME NEW p \in DOMAIN store, NEW i \in DOMAIN store', Reconciled,
                        store[p].decl.name = store'[i].decl.name,
                        Kind[store[p].decl.label] = Kind[store'[i].decl.label],
                        Alike(store, store[p].decl) = 1,
                        Alike(store', store[p].decl) = 1
                 PROVE  /\ store'[i].id = store[p].id
                        /\ store[p].summary => store'[i].summary
        BY DEF Reconciled
    <2>1. IsFiniteSet(DOMAIN store)
        BY <1>1, Domains, FS_Interval DEF Inv
    <2>2. CASE UNCHANGED store
        <3>1. i = p
            BY <2>1, <2>2, AlikeOnce
        <3> QED
            BY <2>2, <3>1
    <2>3. ASSUME NEW q \in DOMAIN store, Summarise(q)
          PROVE  /\ store'[i].id = store[p].id
                 /\ store[p].summary => store'[i].summary
        <3>1. i \in DOMAIN store /\ store'[i].decl = store[i].decl
            BY <1>1, <2>3, SummariseStore
        <3>2. i = p
            BY <2>1, <3>1, AlikeOnce
        <3> QED
            BY <1>1, <2>3, <3>2, SummariseStore
    <2>4. CASE Accept
        <3>1. /\ store' = Result /\ DOMAIN store' = DOMAIN next
              /\ phase = "finish"
              /\ \A j \in DOMAIN next : store'[j].decl = next[j]
            BY <1>1, <2>4, ResultType DEF Accept, Inv
        <3>2. IsFiniteSet(DOMAIN store')
            BY <1>1, <3>1, Domains, FS_Interval DEF Inv
        <3>3. Lone(p, i)
            <4>1. Same(p, i)
                BY <3>1 DEF Same
            <4>2. ASSUME NEW q \in DOMAIN store, Same(q, i)
                  PROVE  q = p
                BY <2>1, <3>1, <4>1, <4>2, AlikeOnce DEF Same
            <4>3. ASSUME NEW j \in DOMAIN next, Same(p, j)
                  PROVE  j = i
                BY <3>1, <3>2, <4>1, <4>3, AlikeOnce DEF Same
            <4> QED
                BY <4>1, <4>2, <4>3 DEF Lone
        <3>4. match[i] = p /\ p # 0
            BY <1>1, <3>1, <3>3, Domains DEF Inv, LoneMatched
        <3>5. IdOf(i) = store[p].id
            BY <3>4 DEF IdOf
        <3>6. store'[i].id = IdOf(i) /\ store'[i].summary = Carried(IdOf(i))
            BY <1>1, <3>1, ResultType DEF Inv
        <3> QED
            BY <3>5, <3>6 DEF Carried
    <2> QED
        BY <1>1, <2>2, <2>3, <2>4
           DEF Next, Parse, Move, Rename, Skip, Reject, Proceed
<1>2. ASSUME Inv, [Next]_vars
      PROVE  [Step]_vars
    BY <1>1, <1>2
<1> QED
    BY <1>2, Invariance, PTL DEF Spec, MovedKeepsIdentity

-----------------------------------------------------------------------------
(* Repetition.                                                             *)

\* Two declarations of one name and one kind.
Kindred(d, e) == d.name = e.name /\ Kind[d.label] = Kind[e.label]

\* The place of a stored entity in the order in which the store hands them out.
Rank(p) == rank[store[p].id]

\* Phase 1 is past declaration i.
Looked(i) == phase = "move" => i < at

\* Scanning the stored text again, phase 1 finds an entity for every declaration, among
\* kindred ones by increasing rank, and what is free still ranks higher.
MatchedInOrder ==
    Reconciled /\ SameText => \A i \in DOMAIN next : Looked(i) =>
        /\ match[i] # 0 /\ Same(match[i], i)
        /\ \A j \in DOMAIN next : i < j /\ Looked(j) /\ Kindred(next[i], next[j]) =>
              Rank(match[i]) < Rank(match[j])
        /\ \A p \in Free : Same(p, i) => Rank(match[i]) < Rank(p)

\* So once the text was repeated, kindred entities rank in the order of the text ...
StoredInOrder ==
    Reconciled /\ steady => \A p, q \in DOMAIN store :
        p < q /\ Kindred(store[p].decl, store[q].decl) => Rank(p) < Rank(q)

\* ... and the next repetition matches every declaration with its own.
MatchedInPlace ==
    Reconciled /\ steady /\ SameText => \A i \in DOMAIN next : Looked(i) => match[i] = i

RestsEmpty == phase = "idle" => next = <<>>

Settling == MatchedInOrder /\ StoredInOrder /\ MatchedInPlace /\ RestsEmpty

\* Different stored entities have different ranks.
LEMMA RanksDiffer ==
    ASSUME Inv
    PROVE  \A p, q \in DOMAIN store :
              /\ Rank(p) \in Nat
              /\ Rank(p) = Rank(q) => p = q
<1> TAKE p, q \in DOMAIN store
<1>1. store[p].id \in Id /\ store[q].id \in Id
    BY Domains DEF Inv, Entity
<1>2. rank \in [Id -> Nat] /\ \A x, y \in Id : rank[x] = rank[y] => x = y
    BY OrdersAssumption DEF Inv, TypeOK
<1> QED
    BY <1>1, <1>2 DEF Inv, StoredOnce, Rank

\* While the text is the stored one, phase 1 does not run out of entities: those of a
\* name and kind are as many as the declarations, and the ones before took one each.
LEMMA SomeoneIsFree ==
    ASSUME Inv, Reconciled, phase = "move", at \in DOMAIN next, SameText
    PROVE  \E p \in Free : Same(p, at)
<1> SUFFICES ASSUME \A p \in Free : ~Same(p, at)
             PROVE  FALSE
    OBVIOUS
<1> DEFINE Group == {p \in DOMAIN store : Same(p, at)}
           Before == {j \in Group \ {at} : match[j] \in Group}
           took == [j \in Before |-> match[j]]
<1>1. DOMAIN store = DOMAIN next /\ \A i \in DOMAIN next : next[i] = store[i].decl
    BY Domains DEF Inv, SameText
<1>2. at \in Group
    BY <1>1 DEF Same
<1>3. IsFiniteSet(Group)
    <2>1. IsFiniteSet(DOMAIN store)
        BY Domains, FS_Interval DEF Inv
    <2>2. Group \in SUBSET DOMAIN store
        OBVIOUS
    <2> HIDE DEF Group
    <2> QED
        BY <2>1, <2>2, FS_Subset
<1>4. \A p \in Group : \E j \in Before : took[j] = p
    <2> TAKE p \in Group
    <2>1. PICK j \in DOMAIN next : match[j] = p
        BY DEF Free, Consumed
    <2>2. p # 0
        BY Domains DEF Inv
    <2>3. j < at /\ Same(p, j)
        BY <2>1, <2>2 DEF Inv, LoneMatched
    <2>4. j # at
        BY <2>3, Domains DEF Inv
    <2>5. j \in Group
        BY <1>1, <2>3 DEF Same
    <2> QED
        BY <2>1, <2>4, <2>5
<1>5. took \in [Before -> Group]
    OBVIOUS
<1>6. took \in Surjection(Before, Group)
    BY <1>4, <1>5, Zenon DEF Surjection
<1>7. IsFiniteSet(Group \ {at}) /\ Cardinality(Group \ {at}) = Cardinality(Group) - 1
    BY <1>2, <1>3, FS_RemoveElement
<1>8. Before \in SUBSET (Group \ {at})
    OBVIOUS
<1> HIDE DEF took, Before, Group
<1>9. IsFiniteSet(Before) /\ Cardinality(Before) <= Cardinality(Group \ {at})
    BY <1>7, <1>8, FS_Subset
<1>10. Cardinality(Group) <= Cardinality(Before)
    BY <1>6, <1>9, FS_Surjection
<1>11. Cardinality(Group) \in Nat /\ Cardinality(Before) \in Nat
    BY <1>3, <1>9, FS_CardinalityType
<1> QED
    BY <1>7, <1>9, <1>10, <1>11

\* Nothing of the store, the text and the ranks changes, and phase 1 looks at one
\* declaration.
LEMMA MoveSettles ==
    ASSUME Inv, Settling, Move
    PROVE  Settling'
<1> Reconciled
    BY DEF Move
<1>1. /\ phase = "move" /\ at \in DOMAIN next
      /\ at \in 1..Len(next) /\ Len(next) \in Nat /\ at \in Int
    BY Domains DEF Move, Inv
<1>2. Proceed("rename") /\ "rename" \in Phases
    BY DEF Move, Phases
<1>3. /\ at < Len(next) => at' = at + 1 /\ phase' = "move"
      /\ ~(at < Len(next)) => at = Len(next) /\ phase' = "rename"
      /\ UNCHANGED <<store, next, rank, fileKind, steady>>
    BY <1>1, <1>2, ProceedType DEF Inv
<1>4. /\ (SameText' <=> SameText) /\ (StoredInOrder' <=> StoredInOrder)
      /\ \A p, i : Same(p, i)' <=> Same(p, i)
      /\ \A p : Rank(p)' = Rank(p)
    BY <1>3 DEF SameText, StoredInOrder, Same, Rank, Kindred, Reconciled
<1>5. \A i \in DOMAIN next : (Looked(i)' <=> i <= at) /\ (Looked(i) <=> i < at)
    BY <1>1, <1>3, Domains DEF Inv, Looked
<1>6. RestsEmpty'
    BY <1>3 DEF RestsEmpty
<1> SUFFICES ASSUME SameText
             PROVE  MatchedInOrder' /\ MatchedInPlace'
    BY <1>4, <1>6 DEF Settling, MatchedInOrder, MatchedInPlace
<1>7. DOMAIN store = DOMAIN next /\ \A i \in DOMAIN next : i \in Int /\ next[i] = store[i].decl
    BY Domains DEF Inv, SameText
<1>8. PICK p \in Free : /\ Same(p, at)
                        /\ \A q \in Free : Same(q, at) => Rank(p) <= Rank(q)
                        /\ match' = [match EXCEPT ![at] = p]
    BY <1>1, SomeoneIsFree DEF Move, SameName, Same, Rank
<1>9. /\ p \in DOMAIN store /\ p # 0
      /\ match'[at] = p
      /\ \A i \in DOMAIN next : i # at => match'[i] = match[i]
      /\ Free' = Free \ {p}
    <2>1. DOMAIN match = DOMAIN next /\ p \in DOMAIN store /\ p # 0
        BY Domains DEF Free, Inv
    <2>2. match[at] = 0
        BY <1>1 DEF Inv, LoneMatched
    <2>3. 0 \notin DOMAIN store
        BY Domains DEF Inv
    <2>4. match'[at] = p /\ \A i \in DOMAIN next : i # at => match'[i] = match[i]
        BY <1>1, <1>8, <2>1
    <2>5. Free' = Free \ {p}
        BY <1>1, <1>3, <2>2, <2>3, <2>4 DEF Free, Consumed
    <2> QED
        BY <2>1, <2>4, <2>5
<1>10. \A i \in DOMAIN next : i < at =>
          /\ match[i] # 0 /\ Same(match[i], i)
          /\ \A j \in DOMAIN next : i < j /\ j < at /\ Kindred(next[i], next[j]) =>
                Rank(match[i]) < Rank(match[j])
          /\ \A q \in Free : Same(q, i) => Rank(match[i]) < Rank(q)
    BY <1>5 DEF Settling, MatchedInOrder
<1>11. \A i \in DOMAIN next : Kindred(next[i], next[at]) => Same(p, i)
    BY <1>8 DEF Same, Kindred
<1>12. MatchedInOrder'
    <2> SUFFICES ASSUME NEW i \in DOMAIN next, i <= at
                 PROVE  /\ match'[i] # 0 /\ Same(match'[i], i)
                        /\ \A j \in DOMAIN next : i < j /\ j <= at /\ Kindred(next[i], next[j]) =>
                              Rank(match'[i]) < Rank(match'[j])
                        /\ \A q \in Free \ {p} : Same(q, i) => Rank(match'[i]) < Rank(q)
        <3>1. DOMAIN next' = DOMAIN next /\ next' = next
            BY <1>3
        <3> QED
            BY <1>4, <1>5, <1>9, <3>1 DEF MatchedInOrder, Kindred
    <2>1. CASE i = at
        <3>1. \A q \in Free \ {p} : Same(q, i) => Rank(p) < Rank(q)
            BY <1>8, <1>9, <2>1, RanksDiffer DEF Free
        <3> QED
            BY <1>1, <1>7, <1>8, <1>9, <2>1, <3>1
    <2>2. CASE i # at
        <3>1. i < at /\ match'[i] = match[i]
            BY <1>1, <1>7, <1>9, <2>2
        <3>2. ASSUME NEW j \in DOMAIN next, i < j, j <= at, Kindred(next[i], next[j])
              PROVE  Rank(match'[i]) < Rank(match'[j])
            <4>1. CASE j = at
                BY <1>8, <1>9, <1>10, <1>11, <3>1, <3>2, <4>1
            <4>2. CASE j # at
                <5>1. j < at /\ match'[j] = match[j]
                    BY <1>1, <1>7, <1>9, <3>2, <4>2
                <5> QED
                    BY <1>10, <3>1, <3>2, <5>1
            <4> QED
                BY <4>1, <4>2
        <3> QED
            BY <1>10, <3>1, <3>2
    <2> QED
        BY <2>1, <2>2
<1>13. MatchedInPlace'
    <2> SUFFICES ASSUME steady, NEW i \in DOMAIN next, i <= at
                 PROVE  match'[i] = i
        BY <1>3, <1>5 DEF MatchedInPlace
    <2>1. \A j \in DOMAIN next : j < at => match[j] = j
        BY <1>5 DEF Settling, MatchedInPlace
    <2>2. CASE i # at
        BY <1>1, <1>7, <1>9, <2>1, <2>2
    <2>3. CASE i = at
        <3>1. at \in Free
            <4> SUFFICES ASSUME NEW j \in DOMAIN next, match[j] = at
                         PROVE  FALSE
                BY <1>1, <1>7 DEF Free, Consumed
            <4>1. at # 0
                BY <1>1
            <4>2. j < at
                BY <1>1, <4>1 DEF Inv, LoneMatched
            <4> QED
                BY <1>1, <1>7, <2>1, <4>2
        <3>2. Same(at, at)
            BY <1>1, <1>7 DEF Same
        <3>3. p >= at
            <4>1. ~(p < at)
                BY <1>7, <1>8, <1>9, <2>1 DEF Free, Consumed
            <4> QED
                BY <1>1, <1>7, <1>9, <4>1
        <3>4. p > at => Rank(at) < Rank(p)
            <4>1. Kindred(store[at].decl, store[p].decl)
                BY <1>1, <1>7, <1>8, <1>9 DEF Same, Kindred
            <4> QED
                BY <1>1, <1>7, <1>9, <4>1, Zenon DEF Settling, StoredInOrder
        <3>5. Rank(p) <= Rank(at)
            BY <1>8, <3>1, <3>2
        <3>6. Rank(p) \in Nat /\ Rank(at) \in Nat
            BY <1>1, <1>7, <1>9, RanksDiffer
        <3> QED
            BY <1>1, <1>7, <1>9, <2>3, <3>3, <3>4, <3>5, <3>6
    <2> QED
        BY <2>2, <2>3
<1> QED
    BY <1>12, <1>13

\* Phase 2 has nothing to look for.
LEMMA RenameSettles ==
    ASSUME Inv, Settling, Rename
    PROVE  Settling'
<1> Reconciled
    BY DEF Rename
<1>1. /\ phase = "rename" /\ at \in DOMAIN next
      /\ Proceed("finish") /\ "finish" \in Phases
    BY DEF Rename, Phases
<1>2. /\ phase' \in {"rename", "finish"}
      /\ UNCHANGED <<store, next, rank, fileKind, steady>>
    BY <1>1, ProceedType DEF Inv
<1>3. \A i : Looked(i) /\ Looked(i)'
    BY <1>1, <1>2 DEF Looked
<1>4. SameText => UNCHANGED match
    <2> SUFFICES ASSUME SameText
                 PROVE  match[at] # 0
        BY DEF Rename
    <2> QED
        BY <1>1, <1>3 DEF Settling, MatchedInOrder
<1>5. RestsEmpty' /\ (StoredInOrder' <=> StoredInOrder)
    BY <1>2 DEF RestsEmpty, StoredInOrder, Rank, Reconciled
<1>6. SameText' <=> SameText
    BY <1>2 DEF SameText
<1>7. CASE ~SameText
    BY <1>5, <1>6, <1>7 DEF Settling, MatchedInOrder, MatchedInPlace
<1>8. CASE SameText
    <2>1. MatchedInOrder'
        BY <1>2, <1>3, <1>4, <1>6, <1>8
           DEF Settling, MatchedInOrder, Same, Rank, Free, Consumed
    <2>2. MatchedInPlace'
        BY <1>2, <1>3, <1>4, <1>6, <1>8 DEF Settling, MatchedInPlace
    <2> QED
        BY <1>5, <2>1, <2>2 DEF Settling
<1> QED
    BY <1>7, <1>8

\* A repetition stores the entities in the order in which they were matched.
LEMMA AcceptSettles ==
    ASSUME Inv, Settling, Accept
    PROVE  Settling'
<1>1. DOMAIN next' = {} /\ next' = <<>> /\ rank' = rank /\ phase = "finish"
    BY DEF Accept
<1>2. MatchedInOrder' /\ MatchedInPlace' /\ RestsEmpty'
    BY <1>1 DEF MatchedInOrder, MatchedInPlace, RestsEmpty
<1>3. StoredInOrder'
    <2> SUFFICES ASSUME Reconciled, SameText, NEW p \in DOMAIN store', NEW q \in DOMAIN store',
                        p < q, Kindred(store'[p].decl, store'[q].decl)
                 PROVE  Rank(p)' < Rank(q)'
        BY DEF Accept, StoredInOrder, Reconciled
    <2>1. /\ p \in DOMAIN next /\ store'[p].id = IdOf(p) /\ store'[p].decl = next[p]
          /\ q \in DOMAIN next /\ store'[q].id = IdOf(q) /\ store'[q].decl = next[q]
        BY ResultType DEF Accept, Inv
    <2>2. Looked(p) /\ Looked(q)
        BY <1>1 DEF Looked
    <2>3. match[p] # 0 /\ match[q] # 0 /\ Rank(match[p]) < Rank(match[q])
        BY <2>1, <2>2 DEF Settling, MatchedInOrder
    <2> QED
        BY <1>1, <2>1, <2>3 DEF IdOf, Rank
<1> QED
    BY <1>2, <1>3 DEF Settling

\* A summary changes neither ids nor the text.
LEMMA SummariseSettles ==
    ASSUME Inv, Settling, NEW p \in DOMAIN store, Summarise(p)
    PROVE  Settling'
<1>1. DOMAIN next = {} /\ next' = next /\ next = <<>>
    BY DEF Summarise, Settling, RestsEmpty
<1>2. MatchedInOrder' /\ MatchedInPlace' /\ RestsEmpty'
    BY <1>1 DEF MatchedInOrder, MatchedInPlace, RestsEmpty
<1>3. StoredInOrder'
    BY SummariseStore DEF Summarise, Settling, StoredInOrder, Rank, Reconciled
<1> QED
    BY <1>2, <1>3 DEF Settling

\* The order of the store is what a repetition leaves, and what makes the next one match
\* in place.
LEMMA Settles == Spec => []Settling
<1>1. Init => Settling
    <2> SUFFICES ASSUME Init PROVE Settling
        OBVIOUS
    <2>1. DOMAIN next = {} /\ DOMAIN store = {} /\ next = <<>>
        BY DEF Init
    <2> QED
        BY <2>1 DEF Settling, MatchedInOrder, StoredInOrder, MatchedInPlace, RestsEmpty
<1>2. Inv /\ Settling /\ [Next]_vars => Settling'
    <2> SUFFICES ASSUME Inv, Settling, [Next]_vars
                 PROVE  Settling'
        OBVIOUS
    <2>1. ASSUME NEW t \in Texts, Parse(t)
          PROVE  Settling'
        <3>1. /\ \A i \in DOMAIN next' : ~Looked(i)'
              /\ phase' = "move" /\ UNCHANGED <<store, rank, fileKind, steady>>
            BY <2>1, TextsAssumption, TextIsSeq DEF Parse, Looked
        <3>2. MatchedInOrder' /\ MatchedInPlace'
            BY <3>1 DEF MatchedInOrder, MatchedInPlace
        <3> QED
            BY <3>1, <3>2 DEF Settling, StoredInOrder, RestsEmpty, Rank, Reconciled
    <2>2. CASE Skip \/ Reject
        <3>1. /\ DOMAIN next' = {} \/ ~Reconciled'
              /\ phase' = "idle" => next' = <<>>
              /\ UNCHANGED <<store, rank, fileKind, steady>>
            BY <2>2 DEF Skip, Reject, Reconciled
        <3> QED
            BY <3>1 DEF Settling, MatchedInOrder, StoredInOrder, MatchedInPlace, RestsEmpty,
                        Rank, Reconciled
    <2>3. CASE UNCHANGED vars
        BY <2>3 DEF vars, Settling, MatchedInOrder, StoredInOrder, MatchedInPlace, RestsEmpty,
                    Rank, Looked, SameText, Same, Free, Consumed, Reconciled
    <2> QED
        BY <2>1, <2>2, <2>3, MoveSettles, RenameSettles, AcceptSettles, SummariseSettles DEF Next
<1> QED
    BY <1>1, <1>2, Invariance, PTL DEF Spec

\* In a file of another kind nothing is matched, and the stored ids are those that the
\* stored text mints.
Minted ==
    ~Reconciled =>
        /\ \A i \in DOMAIN next : match[i] = 0
        /\ \A p \in DOMAIN store : store[p].id =
              [name |-> store[p].decl.name, line |-> store[p].decl.line,
               occurrence |-> Cardinality({j \in 1..p - 1 :
                                              /\ store[j].decl.name = store[p].decl.name
                                              /\ store[j].decl.line = store[p].decl.line})]

LEMMA AlwaysMinted == Spec => []Minted
<1>1. Init => Minted
    <2> SUFFICES ASSUME Init PROVE Minted
        OBVIOUS
    <2>1. DOMAIN next = {} /\ DOMAIN store = {}
        BY DEF Init
    <2> QED
        BY <2>1 DEF Minted
<1>2. Inv /\ Minted /\ [Next]_vars => Minted'
    <2> SUFFICES ASSUME Inv, Minted, [Next]_vars, ~Reconciled'
                 PROVE  Minted'
        BY DEF Minted
    <2>1. ~Reconciled /\ \A i \in DOMAIN next : match[i] = 0
        BY DEF Minted, Reconciled, Next, vars, Parse, Move, Rename, Skip, Accept, Reject,
               Summarise, Proceed
    <2>2. ASSUME UNCHANGED <<store, fileKind>>, \A i \in DOMAIN next' : match'[i] = 0
          PROVE  Minted'
        BY <2>2 DEF Minted, Reconciled
    <2>3. ASSUME NEW t \in Texts, Parse(t) PROVE Minted'
        BY <2>2, <2>3 DEF Parse
    <2>4. CASE Skip \/ UNCHANGED vars
        BY <2>1, <2>2, <2>4 DEF Skip, vars
    <2>5. CASE Reject
        <3>1. DOMAIN next' = {}
            BY <2>5 DEF Reject
        <3> QED
            BY <2>2, <2>5, <3>1 DEF Reject
    <2>6. ASSUME NEW p \in DOMAIN store, Summarise(p) PROVE Minted'
        <3>1. /\ DOMAIN store' = DOMAIN store
              /\ \A q \in DOMAIN store : /\ store'[q].id = store[q].id
                                         /\ store'[q].decl = store[q].decl
            BY <2>6, SummariseStore
        <3>2. \A q \in DOMAIN store : \A j \in 1..q - 1 : j \in DOMAIN store
            BY Domains DEF Inv
        <3>3. \A q \in DOMAIN store :
                 {j \in 1..q - 1 : /\ store'[j].decl.name = store'[q].decl.name
                                   /\ store'[j].decl.line = store'[q].decl.line}
                 = {j \in 1..q - 1 : /\ store[j].decl.name = store[q].decl.name
                                     /\ store[j].decl.line = store[q].decl.line}
            BY <3>1, <3>2
        <3>4. UNCHANGED <<next, match, fileKind>>
            BY <2>6 DEF Summarise
        <3> QED
            BY <2>1, <3>1, <3>3, <3>4 DEF Minted
    <2>7. CASE Accept
        <3>1. /\ DOMAIN next' = {} /\ DOMAIN store' = DOMAIN next
              /\ \A i \in DOMAIN next : store'[i].id = IdOf(i) /\ store'[i].decl = next[i]
            BY <2>7, ResultType DEF Accept, Inv
        <3>2. \A q \in DOMAIN next : \A j \in 1..q - 1 : j \in DOMAIN next
            BY Domains DEF Inv
        <3>3. \A q \in DOMAIN next :
                 {j \in 1..q - 1 : /\ store'[j].decl.name = store'[q].decl.name
                                   /\ store'[j].decl.line = store'[q].decl.line}
                 = Earlier(q)
            BY <3>1, <3>2 DEF Earlier
        <3>4. \A q \in DOMAIN next : IdOf(q) = Fresh(q)
            BY <2>1 DEF IdOf
        <3> QED
            BY <3>1, <3>3, <3>4 DEF Minted, Fresh
    <2> QED
        BY <2>3, <2>4, <2>5, <2>6, <2>7 DEF Next, Move, Rename, Reconciled, Proceed
<1> QED
    BY <1>1, <1>2, Invariance, PTL DEF Spec

\* One repetition of a text is enough: after it, scanning it again gives back the ids and
\* the summaries that are stored, whatever order the ids sort in (reconcile_identity).
THEOREM RepetitionsSettle == Spec => []RepetitionSettles
<1>1. Inv /\ Settling /\ Minted => RepetitionSettles
    <2> SUFFICES ASSUME Inv, Settling, Minted, steady, SameText, phase = "finish"
                 PROVE  Distinct /\ Result = store
        BY DEF RepetitionSettles
    <2>1. /\ DOMAIN store = DOMAIN next /\ \A i \in DOMAIN next : next[i] = store[i].decl
          /\ DOMAIN store = 1..Len(store) /\ 0 \notin DOMAIN store
          /\ \A i \in DOMAIN store : store[i] \in Entity
        BY Domains DEF Inv, SameText
    <2>2. \A i \in DOMAIN next : IdOf(i) = store[i].id
        <3>1. CASE Reconciled
            BY <2>1, <3>1 DEF Settling, MatchedInPlace, Looked, IdOf
        <3>2. CASE ~Reconciled
            <4>1. \A q \in DOMAIN store : \A j \in 1..q - 1 : j \in DOMAIN store
                BY Domains DEF Inv
            <4>2. \A q \in DOMAIN store :
                     {j \in 1..q - 1 : /\ store[j].decl.name = store[q].decl.name
                                       /\ store[j].decl.line = store[q].decl.line}
                     = Earlier(q)
                BY <2>1, <4>1 DEF Earlier
            <4>3. \A q \in DOMAIN store : store[q].id = Fresh(q)
                BY <2>1, <3>2, <4>2 DEF Minted, Fresh
            <4> QED
                BY <2>1, <3>2, <4>3 DEF Minted, IdOf
        <3> QED
            BY <3>1, <3>2
    <2>3. Distinct
        BY <2>1, <2>2 DEF Distinct, Inv, StoredOnce
    <2>4. \A i \in DOMAIN next : Carried(store[i].id) = store[i].summary
        <3> TAKE i \in DOMAIN next
        <3>1. store[i].summary \in BOOLEAN
            BY <2>1 DEF Entity
        <3>2. Carried(store[i].id) <=> store[i].summary
            BY <2>1 DEF Carried, Inv, StoredOnce
        <3> QED
            BY <3>1, <3>2 DEF Carried
    <2>5. \A i \in DOMAIN next :
              [id |-> IdOf(i), decl |-> next[i], summary |-> Carried(IdOf(i))] = store[i]
        BY <2>1, <2>2, <2>4 DEF Entity
    <2>6. store = [i \in DOMAIN next |-> store[i]]
        BY <2>1 DEF Inv, TypeOK
    <2> QED
        BY <2>3, <2>5, <2>6 DEF Result
<1> QED
    BY <1>1, Invariance, Settles, AlwaysMinted, PTL
=============================================================================
