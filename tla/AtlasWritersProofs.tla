-------------------------- MODULE AtlasWritersProofs --------------------------
(***************************************************************************)
(* Proofs about AtlasWriters, for any number of processes, trees, kinds of *)
(* evidence and commands: what each process holds at each of its calls,    *)
(* who writes a file by itself, and what is still as it was read.          *)
(***************************************************************************)
EXTENDS AtlasWriters, SequenceTheorems, TLAPS

From(c, k) == SubSeq(Script[c], k, Len(Script[c]))
Suffix(c, s) == \E k \in 1..(Len(Script[c]) + 1) : s = From(c, k)

(* What a process may hold in memory, and what it has left to do. *)
Work == [cmd : Cmd \union {"none"}, got : Snapshot \union {None},
         mine : SUBSET Record, log : SUBSET Record, ok : BOOLEAN]

Placed(p) ==
    /\ Running(p) => work[p].cmd \in Cmd /\ work[p].ok /\ Suffix(work[p].cmd, todo[p])
    /\ ~Running(p) => work[p] \in {Idle, Passed} /\ mark[p] = {}
    /\ Running(p) /\ ~At(p, "loadId") /\ ~At(p, "readIdx") /\ ~At(p, "index") =>
          work[p].got \in Snapshot
    /\ At(p, "loadEntities") \/ At(p, "loadEdges") => store # None
    /\ grip[p] # "closed" <=> At(p, "fill")

IdxContent == Snapshot \union {None} \union Unreadable
LogContent == {None} \union Unreadable \union {Log(r) : r \in SUBSET Record}

Fit(t) == IF t = "idx" THEN IdxContent ELSE LogContent

FilesTyped ==
    /\ file \in [Target -> [final : Content, temp : Content]]
    /\ \A t \in Target : file[t] \in [final : Fit(t), temp : Fit(t)]

Shape ==
    /\ tree \in Trees
    /\ store \in Snapshot \union {None}
    /\ FilesTyped
    /\ todo = [p \in Procs |-> todo[p]]
    /\ work \in [Procs -> Work]
    /\ grip \in [Procs -> {"closed", "temp", "final", "gone"}]
    /\ spent \in [commands : 0..MaxCommands, edits : 0..MaxEdits, faults : 0..MaxFaults]
    /\ alone \subseteq Procs /\ mark \in [Procs -> SUBSET Mark]
    /\ suspect \in BOOLEAN /\ bad \subseteq Target
    /\ \A p \in Procs : Placed(p)

(* Who writes a file undisturbed is the only one that writes it. *)
Writes(p, t) ==
    /\ Writing(p, t) /\ "clashed" \notin mark[p] =>
        /\ \A q \in Procs \ {p} : ~Writing(q, t)
        /\ AtFile(p, "fill", t) => file[t].temp = Blank /\ grip[p] = "temp"
        /\ AtFile(p, "rename", t) => file[t].temp = Output(p, t)
    /\ AtFile(p, "fill", t) /\ grip[p] = "final" => t \in bad

WriteInv == FilesAreWhole /\ \A p \in Procs, t \in Target : Writes(p, t)

(* Nothing but a command that was straddled holds a mixture. *)
IsOne(s) == s.ents = s.id /\ s.edges = s.id

Late(p) ==
    \/ \E call \in {"create", "fill", "rename"} : AtFile(p, call, "idx")
    \/ At(p, "replace") /\ work[p].cmd # "evidence"
    \/ /\ work[p].cmd = "compile"
       /\ At(p, "readLog") \/ \E call \in {"create", "fill", "rename"} : AtFile(p, call, "log")

Holds(p) ==
    /\ Running(p) /\ work[p].got # None =>
          IsOne(work[p].got) \/ ("straddled" \in mark[p] /\ ~Late(p))
    /\ (At(p, "loadEntities") \/ At(p, "loadEdges")) /\ "straddled" \notin mark[p] =>
          store # None /\ work[p].got.id = store.id

OneInv ==
    ~suspect =>
        /\ StoreIsOneSnapshot
        /\ \A c \in {file["idx"].final, file["idx"].temp} : c \in Snapshot => IsOne(c)
        /\ \A p \in Procs : Holds(p)

(* What was read since is still so. *)
Fresh(p) ==
    "fresh" \in mark[p] =>
        /\ Running(p) /\ ~At(p, "loadId") /\ ~At(p, "loadEntities") /\ ~At(p, "readIdx")
        /\ store # None /\ work[p].got # None /\ work[p].got.told = store.told

\* Nor has the log that p read changed, while p has its own to write.
LogFresh(p) ==
    "logFresh" \in mark[p] =>
        /\ \E call \in {"create", "fill", "rename"} : AtFile(p, call, "log")
        /\ \A r \in Records : \E n \in work[p].log : SameKey(r, n)

FreshInv == \A p \in Procs : Fresh(p) /\ LogFresh(p)

(* A pass by itself. *)
Found == {r \in Records : r.at = "file" /\ r.id = tree}
Made(s) == s = [id |-> tree, ents |-> tree, edges |-> tree, notes |-> Found, told |-> s.told]

Repairing(p) ==
    work[p].cmd = "scan" =>
        /\ At(p, "replace") => Made(work[p].got)
        /\ At(p, "create") => Made(work[p].got) /\ store = work[p].got
        /\ At(p, "fill") \/ At(p, "rename") =>
              Made(work[p].got) /\ store = work[p].got /\ "clashed" \notin mark[p]
        /\ ~Running(p) /\ work[p] = Passed =>
              Made(store) /\ file["idx"] = [final |-> store, temp |-> None]

AloneInv == \A p \in alone : Repairing(p) /\ \A q \in Procs \ {p} : ~Running(q)

-----------------------------------------------------------------------------
(* The scripts, written out. *)
LEMMA Joined ==
    ASSUME NEW S, NEW s \in Seq(S), NEW t \in Seq(S), NEW z \in Seq(S),
           Len(z) = Len(s) + Len(t),
           \A i \in 1..Len(s) : z[i] = s[i],
           \A i \in 1..Len(t) : z[Len(s) + i] = t[i]
    PROVE  s \o t = z
<1> DEFINE w == s \o t
<1>1. /\ w \in Seq(S) /\ Len(w) = Len(s) + Len(t)
      /\ \A i \in 1..(Len(s) + Len(t)) : w[i] = IF i <= Len(s) THEN s[i] ELSE t[i - Len(s)]
  BY ConcatProperties, Zenon
<1> HIDE DEF w
<1>2. ASSUME NEW i \in 1..Len(z) PROVE w[i] = z[i]
  <2>1. CASE i <= Len(s)
    BY <1>1, <2>1
  <2>2. CASE i > Len(s)
    <3>1. i - Len(s) \in 1..Len(t) /\ Len(s) + (i - Len(s)) = i
      BY <2>2
    <3> QED
      BY <1>1, <2>2, <3>1
  <2> QED
    BY <2>1, <2>2
<1>3. w = z
  BY <1>1, <1>2, SeqEqual, Zenon
<1> QED
  BY <1>3 DEF w

LEMMA Join3And1 ==
    ASSUME NEW a, NEW b, NEW c, NEW d
    PROVE  <<a, b, c>> \o <<d>> = <<a, b, c, d>>
<1> DEFINE S == {a, b, c, d}
           x == <<a, b, c>>
           y == <<d>>
           z == <<a, b, c, d>>
<1>1. x \in Seq(S) /\ y \in Seq(S) /\ z \in Seq(S) /\ Len(x) = 3 /\ Len(y) = 1 /\ Len(z) = 4
  OBVIOUS
<1>2. z[1] = x[1] /\ z[2] = x[2] /\ z[3] = x[3] /\ z[4] = y[1]
  OBVIOUS
<1> HIDE DEF S, x, y, z
<1>3. /\ Len(z) = Len(x) + Len(y)
      /\ \A i \in 1..Len(x) : z[i] = x[i]
      /\ \A i \in 1..Len(y) : z[Len(x) + i] = y[i]
  BY <1>1, <1>2
<1>4. x \o y = z
  BY <1>1, <1>3, Joined, Zenon
<1> QED
  BY <1>4 DEF x, y, z

LEMMA Join3And2 ==
    ASSUME NEW a, NEW b, NEW c, NEW d, NEW e
    PROVE  <<a, b, c>> \o <<d, e>> = <<a, b, c, d, e>>
<1> DEFINE S == {a, b, c, d, e}
           x == <<a, b, c>>
           y == <<d, e>>
           z == <<a, b, c, d, e>>
<1>1. x \in Seq(S) /\ y \in Seq(S) /\ z \in Seq(S) /\ Len(x) = 3 /\ Len(y) = 2 /\ Len(z) = 5
  OBVIOUS
<1>2. z[1] = x[1] /\ z[2] = x[2] /\ z[3] = x[3] /\ z[4] = y[1] /\ z[5] = y[2]
  OBVIOUS
<1> HIDE DEF S, x, y, z
<1>3. /\ Len(z) = Len(x) + Len(y)
      /\ \A i \in 1..Len(x) : z[i] = x[i]
      /\ \A i \in 1..Len(y) : z[Len(x) + i] = y[i]
  BY <1>1, <1>2
<1>4. x \o y = z
  BY <1>1, <1>3, Joined, Zenon
<1> QED
  BY <1>4 DEF x, y, z

LEMMA Join4And3 ==
    ASSUME NEW a, NEW b, NEW c, NEW d, NEW e, NEW f, NEW g
    PROVE  <<a, b, c, d>> \o <<e, f, g>> = <<a, b, c, d, e, f, g>>
<1> DEFINE S == {a, b, c, d, e, f, g}
           x == <<a, b, c, d>>
           y == <<e, f, g>>
           z == <<a, b, c, d, e, f, g>>
<1>1. x \in Seq(S) /\ y \in Seq(S) /\ z \in Seq(S) /\ Len(x) = 4 /\ Len(y) = 3 /\ Len(z) = 7
  OBVIOUS
<1>2. z[1] = x[1] /\ z[2] = x[2] /\ z[3] = x[3] /\ z[4] = x[4] /\ z[5] = y[1]
        /\ z[6] = y[2] /\ z[7] = y[3]
  OBVIOUS
<1> HIDE DEF S, x, y, z
<1>3. /\ Len(z) = Len(x) + Len(y)
      /\ \A i \in 1..Len(x) : z[i] = x[i]
      /\ \A i \in 1..Len(y) : z[Len(x) + i] = y[i]
  BY <1>1, <1>2
<1>4. x \o y = z
  BY <1>1, <1>3, Joined, Zenon
<1> QED
  BY <1>4 DEF x, y, z

LEMMA Join5And3 ==
    ASSUME NEW a, NEW b, NEW c, NEW d, NEW e, NEW f, NEW g, NEW h
    PROVE  <<a, b, c, d, e>> \o <<f, g, h>> = <<a, b, c, d, e, f, g, h>>
<1> DEFINE S == {a, b, c, d, e, f, g, h}
           x == <<a, b, c, d, e>>
           y == <<f, g, h>>
           z == <<a, b, c, d, e, f, g, h>>
<1>1. x \in Seq(S) /\ y \in Seq(S) /\ z \in Seq(S) /\ Len(x) = 5 /\ Len(y) = 3 /\ Len(z) = 8
  OBVIOUS
<1>2. z[1] = x[1] /\ z[2] = x[2] /\ z[3] = x[3] /\ z[4] = x[4] /\ z[5] = x[5]
        /\ z[6] = y[1] /\ z[7] = y[2] /\ z[8] = y[3]
  OBVIOUS
<1> HIDE DEF S, x, y, z
<1>3. /\ Len(z) = Len(x) + Len(y)
      /\ \A i \in 1..Len(x) : z[i] = x[i]
      /\ \A i \in 1..Len(y) : z[Len(x) + i] = y[i]
  BY <1>1, <1>2
<1>4. x \o y = z
  BY <1>1, <1>3, Joined, Zenon
<1> QED
  BY <1>4 DEF x, y, z

LEMMA Join7And1 ==
    ASSUME NEW a, NEW b, NEW c, NEW d, NEW e, NEW f, NEW g, NEW h
    PROVE  <<a, b, c, d, e, f, g>> \o <<h>> = <<a, b, c, d, e, f, g, h>>
<1> DEFINE S == {a, b, c, d, e, f, g, h}
           x == <<a, b, c, d, e, f, g>>
           y == <<h>>
           z == <<a, b, c, d, e, f, g, h>>
<1>1. x \in Seq(S) /\ y \in Seq(S) /\ z \in Seq(S) /\ Len(x) = 7 /\ Len(y) = 1 /\ Len(z) = 8
  OBVIOUS
<1>2. z[1] = x[1] /\ z[2] = x[2] /\ z[3] = x[3] /\ z[4] = x[4] /\ z[5] = x[5]
        /\ z[6] = x[6] /\ z[7] = x[7] /\ z[8] = y[1]
  OBVIOUS
<1> HIDE DEF S, x, y, z
<1>3. /\ Len(z) = Len(x) + Len(y)
      /\ \A i \in 1..Len(x) : z[i] = x[i]
      /\ \A i \in 1..Len(y) : z[Len(x) + i] = y[i]
  BY <1>1, <1>2
<1>4. x \o y = z
  BY <1>1, <1>3, Joined, Zenon
<1> QED
  BY <1>4 DEF x, y, z

LEMMA Join8And3 ==
    ASSUME NEW a, NEW b, NEW c, NEW d, NEW e, NEW f, NEW g, NEW h, NEW i, NEW j, NEW k
    PROVE  <<a, b, c, d, e, f, g, h>> \o <<i, j, k>> = <<a, b, c, d, e, f, g, h, i, j, k>>
<1> DEFINE S == {a, b, c, d, e, f, g, h, i, j, k}
           x == <<a, b, c, d, e, f, g, h>>
           y == <<i, j, k>>
           z == <<a, b, c, d, e, f, g, h, i, j, k>>
<1>1. x \in Seq(S) /\ y \in Seq(S) /\ z \in Seq(S) /\ Len(x) = 8 /\ Len(y) = 3 /\ Len(z) = 11
  OBVIOUS
<1>2. z[1] = x[1] /\ z[2] = x[2] /\ z[3] = x[3] /\ z[4] = x[4] /\ z[5] = x[5]
        /\ z[6] = x[6] /\ z[7] = x[7] /\ z[8] = x[8] /\ z[9] = y[1] /\ z[10] = y[2] /\ z[11] = y[3]
  OBVIOUS
<1> HIDE DEF S, x, y, z
<1>3. /\ Len(z) = Len(x) + Len(y)
      /\ \A n \in 1..Len(x) : z[n] = x[n]
      /\ \A n \in 1..Len(y) : z[Len(x) + n] = y[n]
  BY <1>1, <1>2
<1>4. x \o y = z
  BY <1>1, <1>3, Joined, Zenon
<1> QED
  BY <1>4 DEF x, y, z

LEMMA LoadIs ==
    Load = <<<<"loadId", "store">>, <<"loadEntities", "store">>, <<"loadEdges", "store">>>>
BY DEF Load, On

LEMMA SaveIs ==
    /\ Save("idx") = <<<<"create", "idx">>, <<"fill", "idx">>, <<"rename", "idx">>>>
    /\ Save("log") = <<<<"create", "log">>, <<"fill", "log">>, <<"rename", "log">>>>
BY DEF Save, On

LEMMA ScanIs ==
    Script["scan"] =
        <<<<"loadId", "store">>, <<"loadEntities", "store">>, <<"loadEdges", "store">>,
          <<"index", "tree">>, <<"replace", "store">>, <<"create", "idx">>, <<"fill", "idx">>,
          <<"rename", "idx">>>>
<1> DEFINE c1 == <<"loadId", "store">>          c2 == <<"loadEntities", "store">>
           c3 == <<"loadEdges", "store">>       c4 == <<"index", "tree">>
           c5 == <<"replace", "store">>         c6 == <<"create", "idx">>
           c7 == <<"fill", "idx">>              c8 == <<"rename", "idx">>
           s1 == Load \o <<c4, c5>>
           s2 == s1 \o Save("idx")
<1>1. Script["scan"] = s2
  BY DEF Script
<1>2. /\ Load = <<c1, c2, c3>>
      /\ Save("idx") = <<c6, c7, c8>>
  BY LoadIs, SaveIs
<1> HIDE DEF c1, c2, c3, c4, c5, c6, c7, c8
<1>3. s1 = <<c1, c2, c3, c4, c5>>
  <2>1. <<c1, c2, c3>> \o <<c4, c5>> = <<c1, c2, c3, c4, c5>>
    BY Join3And2, SMT
  <2> QED
    BY <2>1, <1>2
<1> HIDE DEF s1
<1>4. s2 = <<c1, c2, c3, c4, c5, c6, c7, c8>>
  <2>1. <<c1, c2, c3, c4, c5>> \o <<c6, c7, c8>> = <<c1, c2, c3, c4, c5, c6, c7, c8>>
    BY Join5And3, SMT
  <2> QED
    BY <2>1, <1>2, <1>3
<1> HIDE DEF s2
<1> QED
  BY <1>1, <1>4 DEF c1, c2, c3, c4, c5, c6, c7, c8

LEMMA LaneIs ==
    Script["lane"] =
        <<<<"loadId", "store">>, <<"loadEntities", "store">>, <<"loadEdges", "store">>,
          <<"ask", "store">>, <<"create", "idx">>, <<"fill", "idx">>, <<"rename", "idx">>>>
<1> DEFINE c1 == <<"loadId", "store">>          c2 == <<"loadEntities", "store">>
           c3 == <<"loadEdges", "store">>       c4 == <<"ask", "store">>
           c5 == <<"create", "idx">>            c6 == <<"fill", "idx">>
           c7 == <<"rename", "idx">>
           s1 == Load \o <<c4>>
           s2 == s1 \o Save("idx")
<1>1. Script["lane"] = s2
  BY DEF Script
<1>2. /\ Load = <<c1, c2, c3>>
      /\ Save("idx") = <<c5, c6, c7>>
  BY LoadIs, SaveIs
<1> HIDE DEF c1, c2, c3, c4, c5, c6, c7
<1>3. s1 = <<c1, c2, c3, c4>>
  <2>1. <<c1, c2, c3>> \o <<c4>> = <<c1, c2, c3, c4>>
    BY Join3And1, SMT
  <2> QED
    BY <2>1, <1>2
<1> HIDE DEF s1
<1>4. s2 = <<c1, c2, c3, c4, c5, c6, c7>>
  <2>1. <<c1, c2, c3, c4>> \o <<c5, c6, c7>> = <<c1, c2, c3, c4, c5, c6, c7>>
    BY Join4And3, SMT
  <2> QED
    BY <2>1, <1>2, <1>3
<1> HIDE DEF s2
<1> QED
  BY <1>1, <1>4 DEF c1, c2, c3, c4, c5, c6, c7

LEMMA EvidenceIs ==
    Script["evidence"] =
        <<<<"loadId", "store">>, <<"loadEntities", "store">>, <<"loadEdges", "store">>,
          <<"readLog", "log">>, <<"create", "log">>, <<"fill", "log">>, <<"rename", "log">>,
          <<"replace", "store">>, <<"create", "idx">>, <<"fill", "idx">>, <<"rename", "idx">>>>
<1> DEFINE c1 == <<"loadId", "store">>          c2 == <<"loadEntities", "store">>
           c3 == <<"loadEdges", "store">>       c4 == <<"readLog", "log">>
           c5 == <<"create", "log">>            c6 == <<"fill", "log">>
           c7 == <<"rename", "log">>            c8 == <<"replace", "store">>
           c9 == <<"create", "idx">>            c10 == <<"fill", "idx">>
           c11 == <<"rename", "idx">>
           s1 == Load \o <<c4>>
           s2 == s1 \o Save("log")
           s3 == s2 \o <<c8>>
           s4 == s3 \o Save("idx")
<1>1. Script["evidence"] = s4
  BY DEF Script
<1>2. /\ Load = <<c1, c2, c3>>
      /\ Save("log") = <<c5, c6, c7>>
      /\ Save("idx") = <<c9, c10, c11>>
  BY LoadIs, SaveIs
<1> HIDE DEF c1, c2, c3, c4, c5, c6, c7, c8, c9, c10, c11
<1>3. s1 = <<c1, c2, c3, c4>>
  <2>1. <<c1, c2, c3>> \o <<c4>> = <<c1, c2, c3, c4>>
    BY Join3And1, SMT
  <2> QED
    BY <2>1, <1>2
<1> HIDE DEF s1
<1>4. s2 = <<c1, c2, c3, c4, c5, c6, c7>>
  <2>1. <<c1, c2, c3, c4>> \o <<c5, c6, c7>> = <<c1, c2, c3, c4, c5, c6, c7>>
    BY Join4And3, SMT
  <2> QED
    BY <2>1, <1>2, <1>3
<1> HIDE DEF s2
<1>5. s3 = <<c1, c2, c3, c4, c5, c6, c7, c8>>
  <2>1. <<c1, c2, c3, c4, c5, c6, c7>> \o <<c8>> = <<c1, c2, c3, c4, c5, c6, c7, c8>>
    BY Join7And1, SMT
  <2> QED
    BY <2>1, <1>2, <1>4
<1> HIDE DEF s3
<1>6. s4 = <<c1, c2, c3, c4, c5, c6, c7, c8, c9, c10, c11>>
  <2>1. <<c1, c2, c3, c4, c5, c6, c7, c8>> \o <<c9, c10, c11>> = <<c1, c2, c3, c4, c5, c6, c7, c8, c9, c10, c11>>
    BY Join8And3, SMT
  <2> QED
    BY <2>1, <1>2, <1>5
<1> HIDE DEF s4
<1> QED
  BY <1>1, <1>6 DEF c1, c2, c3, c4, c5, c6, c7, c8, c9, c10, c11

LEMMA CompileIs ==
    Script["compile"] =
        <<<<"loadId", "store">>, <<"loadEntities", "store">>, <<"loadEdges", "store">>,
          <<"build", "store">>, <<"create", "idx">>, <<"fill", "idx">>, <<"rename", "idx">>,
          <<"readLog", "log">>, <<"create", "log">>, <<"fill", "log">>, <<"rename", "log">>>>
<1> DEFINE c1 == <<"loadId", "store">>          c2 == <<"loadEntities", "store">>
           c3 == <<"loadEdges", "store">>       c4 == <<"build", "store">>
           c5 == <<"create", "idx">>            c6 == <<"fill", "idx">>
           c7 == <<"rename", "idx">>            c8 == <<"readLog", "log">>
           c9 == <<"create", "log">>            c10 == <<"fill", "log">>
           c11 == <<"rename", "log">>
           s1 == Load \o <<c4>>
           s2 == s1 \o Save("idx")
           s3 == s2 \o <<c8>>
           s4 == s3 \o Save("log")
<1>1. Script["compile"] = s4
  BY DEF Script
<1>2. /\ Load = <<c1, c2, c3>>
      /\ Save("idx") = <<c5, c6, c7>>
      /\ Save("log") = <<c9, c10, c11>>
  BY LoadIs, SaveIs
<1> HIDE DEF c1, c2, c3, c4, c5, c6, c7, c8, c9, c10, c11
<1>3. s1 = <<c1, c2, c3, c4>>
  <2>1. <<c1, c2, c3>> \o <<c4>> = <<c1, c2, c3, c4>>
    BY Join3And1, SMT
  <2> QED
    BY <2>1, <1>2
<1> HIDE DEF s1
<1>4. s2 = <<c1, c2, c3, c4, c5, c6, c7>>
  <2>1. <<c1, c2, c3, c4>> \o <<c5, c6, c7>> = <<c1, c2, c3, c4, c5, c6, c7>>
    BY Join4And3, SMT
  <2> QED
    BY <2>1, <1>2, <1>3
<1> HIDE DEF s2
<1>5. s3 = <<c1, c2, c3, c4, c5, c6, c7, c8>>
  <2>1. <<c1, c2, c3, c4, c5, c6, c7>> \o <<c8>> = <<c1, c2, c3, c4, c5, c6, c7, c8>>
    BY Join7And1, SMT
  <2> QED
    BY <2>1, <1>2, <1>4
<1> HIDE DEF s3
<1>6. s4 = <<c1, c2, c3, c4, c5, c6, c7, c8, c9, c10, c11>>
  <2>1. <<c1, c2, c3, c4, c5, c6, c7, c8>> \o <<c9, c10, c11>> = <<c1, c2, c3, c4, c5, c6, c7, c8, c9, c10, c11>>
    BY Join8And3, SMT
  <2> QED
    BY <2>1, <1>2, <1>5
<1> HIDE DEF s4
<1> QED
  BY <1>1, <1>6 DEF c1, c2, c3, c4, c5, c6, c7, c8, c9, c10, c11

LEMMA RebuildIs == Script["rebuild"] = <<<<"readIdx", "idx">>, <<"replace", "store">>>>
BY DEF Script

LEMMA CmdIs == Cmd = {"scan", "lane", "evidence", "compile", "rebuild"}
BY DEF Cmd, Script

LEMMA ScriptTyped == \A c \in Cmd : Script[c] \in Seq(Calls) /\ Len(Script[c]) \in Nat \ {0}
<1> SUFFICES ASSUME NEW c \in Cmd PROVE Script[c] \in Seq(Calls) /\ Len(Script[c]) \in Nat \ {0}
  OBVIOUS
<1>1. \A i \in DOMAIN Script[c] : Script[c][i] \in Calls
  BY DEF Calls
<1> DEFINE Counts(n) == Len(Script[c]) = n /\ DOMAIN Script[c] = 1..n
                          /\ Script[c] = [i \in 1..n |-> Script[c][i]]
<1>2. CASE c = "scan"
  <2>1. Counts(8)
    BY <1>2, ScanIs
  <2> QED
    BY <2>1, <1>1
<1>3. CASE c = "lane"
  <2>1. Counts(7)
    BY <1>3, LaneIs
  <2> QED
    BY <2>1, <1>1
<1>4. CASE c = "evidence"
  <2>1. Counts(11)
    BY <1>4, EvidenceIs
  <2> QED
    BY <2>1, <1>1
<1>5. CASE c = "compile"
  <2>1. Counts(11)
    BY <1>5, CompileIs
  <2> QED
    BY <2>1, <1>1
<1>6. CASE c = "rebuild"
  <2>1. Counts(2)
    BY <1>6, RebuildIs
  <2> QED
    BY <2>1, <1>1
<1> QED
  BY <1>2, <1>3, <1>4, <1>5, <1>6, CmdIs

(* How a suffix of a script goes on. *)
LEMMA SuffixGoes ==
    ASSUME NEW c \in Cmd, NEW k \in 1..Len(Script[c])
    PROVE  /\ From(c, k) \in Seq(Calls) /\ From(c, k) # <<>>
           /\ Head(From(c, k)) = Script[c][k] /\ Tail(From(c, k)) = From(c, k + 1)
           /\ Suffix(c, From(c, k + 1)) /\ Suffix(c, From(c, k))
           /\ From(c, k + 1) = <<>> <=> k = Len(Script[c])
           /\ k < Len(Script[c]) => Head(From(c, k + 1)) = Script[c][k + 1]
<1> DEFINE s == Script[c]
           n == Len(s)
<1>1. s \in Seq(Calls) /\ n \in Nat \ {0}
  BY ScriptTyped
<1> HIDE DEF s
<1>2. k \in 1..n /\ n \in k..n /\ k + 1 \in 1..(n + 1) /\ n + 1 \in Int
  BY <1>1 DEF s
<1>3. /\ Head(SubSeq(s, k, n)) = s[k] /\ Tail(SubSeq(s, k, n)) = SubSeq(s, k + 1, n)
      /\ k < n => Head(SubSeq(s, k + 1, n)) = s[k + 1]
  <2>1. k < n => k + 1 \in 1..n /\ n \in (k + 1)..n
    BY <1>1, <1>2
  <2> QED
    BY <1>1, <1>2, <2>1, HeadTailOfSubSeq, Zenon
<1>4. /\ SubSeq(s, k, n) \in Seq(Calls) /\ Len(SubSeq(s, k, n)) = n - k + 1
      /\ Len(SubSeq(s, k + 1, n)) = n - k
      /\ SubSeq(s, k + 1, n) \in Seq(Calls)
  BY <1>1, <1>2
<1>5. From(c, k) = SubSeq(s, k, n) /\ From(c, k + 1) = SubSeq(s, k + 1, n)
  BY DEF From, s
<1>6. \A x \in Seq(Calls) : x = <<>> <=> Len(x) = 0
  OBVIOUS
<1>7. Suffix(c, From(c, k + 1)) /\ Suffix(c, From(c, k))
  BY <1>1, <1>2 DEF Suffix, s
<1> HIDE DEF n
<1>8. n - k + 1 # 0 /\ (n - k = 0 <=> k = n)
  BY <1>1, <1>2
<1> QED
  BY <1>2, <1>3, <1>4, <1>5, <1>6, <1>7, <1>8, <1>1 DEF s, n

(* Which call follows which in which script. *)
LEMMA ScriptTable ==
    ASSUME NEW c \in Cmd, NEW k \in 1..Len(Script[c])
    PROVE  LET h == Script[c][k]
               Then(x) == k < Len(Script[c]) /\ Script[c][k + 1] = x
               Last == k = Len(Script[c])
           IN  /\ h[1] = "loadId" => c # "rebuild" /\ Then(<<"loadEntities", "store">>)
               /\ h[1] = "loadEntities" => c # "rebuild" /\ Then(<<"loadEdges", "store">>)
               /\ h[1] = "loadEdges" =>
                     \/ c = "scan" /\ Then(<<"index", "tree">>)
                     \/ c = "lane" /\ Then(<<"ask", "store">>)
                     \/ c = "evidence" /\ Then(<<"readLog", "log">>)
                     \/ c = "compile" /\ Then(<<"build", "store">>)
               /\ h[1] = "index" => c = "scan" /\ Then(<<"replace", "store">>)
               /\ h[1] = "ask" => c = "lane" /\ Then(<<"create", "idx">>)
               /\ h[1] = "build" => c = "compile" /\ Then(<<"create", "idx">>)
               /\ h[1] = "readLog" => c \in {"evidence", "compile"} /\ Then(<<"create", "log">>)
               /\ h[1] = "readIdx" => c = "rebuild" /\ Then(<<"replace", "store">>)
               /\ h[1] = "replace" =>
                     \/ c = "rebuild" /\ Last
                     \/ c \in {"scan", "evidence"} /\ Then(<<"create", "idx">>)
<1>0. c \in {"scan", "lane", "evidence", "compile", "rebuild"}
  BY CmdIs
<1>1. CASE c = "scan"
  <2>1. Len(Script[c]) = 8
    BY <1>1, ScanIs
  <2> QED
    BY <1>1, <2>1, ScanIs
<1>2. CASE c = "lane"
  BY <1>2, LaneIs
<1>3. CASE c = "evidence"
  BY <1>3, EvidenceIs
<1>4. CASE c = "compile"
  BY <1>4, CompileIs
<1>5. CASE c = "rebuild"
  BY <1>5, RebuildIs
<1> QED
  BY <1>0, <1>1, <1>2, <1>3, <1>4, <1>5

LEMMA SaveTable ==
    ASSUME NEW c \in Cmd, NEW k \in 1..Len(Script[c])
    PROVE  LET h == Script[c][k]
               Then(x) == k < Len(Script[c]) /\ Script[c][k + 1] = x
               Last == k = Len(Script[c])
           IN  /\ h[1] = "create" => h = <<"create", "idx">> \/ h = <<"create", "log">>
               /\ h[1] = "fill" => h = <<"fill", "idx">> \/ h = <<"fill", "log">>
               /\ h = <<"create", "idx">> =>
                     c \in {"scan", "lane", "evidence", "compile"} /\ Then(<<"fill", "idx">>)
               /\ h = <<"create", "log">> => c \in {"evidence", "compile"} /\ Then(<<"fill", "log">>)
               /\ h = <<"fill", "idx">> => Then(<<"rename", "idx">>)
               /\ h = <<"fill", "log">> => Then(<<"rename", "log">>)
               /\ h = <<"rename", "idx">> =>
                     \/ c = "compile" /\ Then(<<"readLog", "log">>)
                     \/ c \in {"scan", "lane", "evidence"} /\ Last
               /\ h = <<"rename", "log">> =>
                     \/ c = "evidence" /\ Then(<<"replace", "store">>)
                     \/ c = "compile" /\ Last
<1>0. c \in {"scan", "lane", "evidence", "compile", "rebuild"}
  BY CmdIs
<1>1. CASE c = "scan"
  <2>1. Len(Script[c]) = 8
    BY <1>1, ScanIs
  <2> QED
    BY <1>1, <2>1, ScanIs
<1>2. CASE c = "lane"
  BY <1>2, LaneIs
<1>3. CASE c = "evidence"
  BY <1>3, EvidenceIs
<1>4. CASE c = "compile"
  BY <1>4, CompileIs
<1>5. CASE c = "rebuild"
  BY <1>5, RebuildIs
<1> QED
  BY <1>0, <1>1, <1>2, <1>3, <1>4, <1>5

(* A command begins with its load. *)
LEMMA ScriptBegins ==
    ASSUME NEW c \in Cmd
    PROVE  /\ Suffix(c, Script[c]) /\ Script[c] # <<>> /\ Script[c] \in Seq(Calls)
           /\ Head(Script[c]) \in {<<"loadId", "store">>, <<"readIdx", "idx">>}
<1>1. Script[c] \in Seq(Calls) /\ Len(Script[c]) \in Nat \ {0}
  BY ScriptTyped
<1>2. SubSeq(Script[c], 1, Len(Script[c])) = Script[c]
  BY <1>1, SubSeqFull
<1>3. Script[c][1] \in {<<"loadId", "store">>, <<"readIdx", "idx">>}
  BY CmdIs, ScanIs, LaneIs, EvidenceIs, CompileIs, RebuildIs
<1> QED
  BY <1>1, <1>2, <1>3 DEF Suffix, From

(* A pass without a snapshot goes on with its files. *)
LEMMA ScanUnloaded ==
    LET s == SubSeq(Script["scan"], 4, Len(Script["scan"]))
    IN  Suffix("scan", s) /\ s # <<>> /\ s \in Seq(Calls) /\ Head(s) = <<"index", "tree">>
<1>1. Len(Script["scan"]) = 8 /\ Script["scan"][4] = <<"index", "tree">>
  BY ScanIs
<1>2. "scan" \in Cmd /\ 4 \in 1..Len(Script["scan"])
  BY <1>1, CmdIs
<1>3. SubSeq(Script["scan"], 4, Len(Script["scan"])) = From("scan", 4)
  BY DEF From
<1>4. /\ From("scan", 4) \in Seq(Calls) /\ From("scan", 4) # <<>>
      /\ Head(From("scan", 4)) = Script["scan"][4] /\ Suffix("scan", From("scan", 4))
  BY <1>2, SuffixGoes
<1> QED
  BY <1>1, <1>3, <1>4

-----------------------------------------------------------------------------
(* What is written. *)
LEMMA Kinds ==
    /\ \A s \in Snapshot : s # None /\ s \notin Unreadable
    /\ \A r : Log(r) # None /\ Log(r) \notin Unreadable /\ Log(r).records = r
    /\ None \notin Unreadable
    /\ Snapshot \subseteq Content /\ None \in Content /\ Unreadable \subseteq Content
    /\ \A r \in SUBSET Record : Log(r) \in Content
<1>1. ASSUME NEW s \in Snapshot PROVE s # None /\ s # Blank /\ s # Garbled
  <2>1. "ents" \in DOMAIN s
    BY DEF Snapshot
  <2> QED
    BY <2>1 DEF None, Blank, Garbled
<1> QED
  BY <1>1 DEF Unreadable, None, Blank, Garbled, Log, Content

LEMMA ContentsTyped ==
    /\ IdxContent \subseteq Content /\ LogContent \subseteq Content
    /\ Snapshot \subseteq IdxContent /\ Blank \in IdxContent /\ None \in IdxContent
    /\ Garbled \in IdxContent /\ Garbled \in LogContent
    /\ Blank \in LogContent /\ None \in LogContent /\ \A r \in SUBSET Record : Log(r) \in LogContent
BY Kinds DEF IdxContent, LogContent, Content, Unreadable

\* What is loaded, made or recorded is a snapshot again.
LEMMA Loaded ==
    ASSUME NEW w \in Work, NEW s \in Snapshot
    PROVE  /\ [w EXCEPT !.got = s] \in Work /\ [w EXCEPT !.got = s].got = s
           /\ [w EXCEPT !.got = None] \in Work /\ [w EXCEPT !.got = None].got = None
           /\ [w EXCEPT !.got = s].cmd = w.cmd /\ [w EXCEPT !.got = s].ok = w.ok
           /\ [w EXCEPT !.got = None].cmd = w.cmd /\ [w EXCEPT !.got = None].ok = w.ok
           /\ [w EXCEPT !.got = s].log = w.log
BY DEF Work

LEMMA EntitiesLoaded ==
    ASSUME NEW w \in Work, w.got \in Snapshot, NEW s \in Snapshot
    PROVE  LET x == [w EXCEPT !.got.ents = s.ents, !.got.notes = s.notes, !.got.told = s.told]
           IN  /\ x \in Work /\ x.got \in Snapshot /\ x.cmd = w.cmd /\ x.ok = w.ok
               /\ x.got.id = w.got.id /\ x.got.ents = s.ents /\ x.got.edges = w.got.edges
               /\ x.got.told = s.told
BY DEF Work, Snapshot

LEMMA EdgesLoaded ==
    ASSUME NEW w \in Work, w.got \in Snapshot, NEW s \in Snapshot
    PROVE  LET x == [w EXCEPT !.got.edges = s.edges]
           IN  /\ x \in Work /\ x.got \in Snapshot /\ x.cmd = w.cmd /\ x.ok = w.ok
               /\ x.got.id = w.got.id /\ x.got.ents = w.got.ents /\ x.got.edges = s.edges
               /\ x.got.told = w.got.told
BY DEF Work, Snapshot

LEMMA Told ==
    ASSUME NEW w \in Work, w.got \in Snapshot
    PROVE  LET x == [w EXCEPT !.got.told = TRUE]
           IN  /\ x \in Work /\ x.got \in Snapshot /\ x.cmd = w.cmd /\ x.ok = w.ok
               /\ x.got.id = w.got.id /\ x.got.ents = w.got.ents /\ x.got.edges = w.got.edges
               /\ x.got.told = TRUE
BY DEF Work, Snapshot

LEMMA RecordsTyped ==
    ASSUME Shape, file["log"].final \notin Unreadable
    PROVE  /\ Records \subseteq Record
           /\ file["log"].final = None \/ file["log"].final = Log(Records)
<1>1. file["log"].final \in LogContent
  BY DEF Shape, FilesTyped, Fit, Target
<1>2. CASE file["log"].final = None
  BY <1>2 DEF Records
<1>3. CASE file["log"].final \in {Log(r) : r \in SUBSET Record}
  BY <1>3, Kinds DEF Records
<1> QED
  BY <1>1, <1>2, <1>3 DEF LogContent

LEMMA Indexed ==
    ASSUME Shape, file["log"].final \notin Unreadable, NEW p \in Procs
    PROVE  LET s == [id |-> tree, ents |-> tree, edges |-> tree,
                     notes |-> Merged(Records, tree), told |-> Carried(work[p].got)]
           IN  s \in Snapshot
<1>1. Merged(Records, tree) \subseteq Record /\ tree \in Trees
  BY RecordsTyped DEF Merged, Shape
<1>2. work[p].got \in Snapshot \union {None}
  BY DEF Shape, Work
<1>3. Carried(work[p].got) \in BOOLEAN
  BY <1>2 DEF Carried, Snapshot
<1> QED
  BY <1>1, <1>3 DEF Snapshot

LEMMA Built ==
    ASSUME NEW w \in Work, w.got \in Snapshot, NEW s \in Says
    PROVE  LET r == [at |-> "file", by |-> "compiler", says |-> s, id |-> w.got.id]
               x == [w EXCEPT !.mine = {r}, !.got.notes = {n \in @ : n.by # "compiler"} \union {r}]
           IN  /\ x \in Work /\ x.got \in Snapshot /\ x.cmd = w.cmd /\ x.ok = w.ok
               /\ x.got.id = w.got.id /\ x.got.ents = w.got.ents /\ x.got.edges = w.got.edges
               /\ x.got.told = w.got.told
<1> DEFINE r == [at |-> "file", by |-> "compiler", says |-> s, id |-> w.got.id]
<1>1. r \in Record
  BY DEF Record, Entity, Snapshot
<1> HIDE DEF r
<1>2. LET x == [w EXCEPT !.mine = {r}, !.got.notes = {n \in @ : n.by # "compiler"} \union {r}]
      IN  /\ x \in Work /\ x.got \in Snapshot /\ x.cmd = w.cmd /\ x.ok = w.ok
          /\ x.got.id = w.got.id /\ x.got.ents = w.got.ents /\ x.got.edges = w.got.edges
          /\ x.got.told = w.got.told
  BY <1>1 DEF Work, Snapshot
<1> QED
  BY <1>2 DEF r

LEMMA LogRead ==
    ASSUME Shape, file["log"].final \notin Unreadable, NEW p \in Procs, work[p].got \in Snapshot,
           NEW mine \in IF work[p].cmd = "evidence" THEN Judge(p) ELSE {work[p].mine}
    PROVE  LET w == work[p]
               x == [w EXCEPT !.log = Logged(Records, mine),
                       !.got.notes = IF w.cmd = "evidence" THEN @ \union mine ELSE @]
           IN  /\ x \in Work /\ x.got \in Snapshot /\ x.cmd = w.cmd /\ x.ok = w.ok
               /\ x.got.id = w.got.id /\ x.got.ents = w.got.ents /\ x.got.edges = w.got.edges
               /\ x.got.told = w.got.told /\ x.log = Logged(Records, mine)
               /\ x.got = w.got \/ w.cmd = "evidence"
<1> DEFINE w == work[p]
           log == Logged(Records, mine)
<1>1. w \in Work /\ w.got \in Snapshot
  BY DEF Shape
<1>2. mine \subseteq Record
  <2>1. CASE w.cmd = "evidence"
    <3>1. PICK es \in Judged, s \in Says :
            mine = {[at |-> e, by |-> "person", says |-> s, id |-> w.got.id] : e \in es}
      BY <2>1 DEF Judge
    <3>2. es \subseteq Entity
      BY JudgedAssumption DEF Entity
    <3> QED
      BY <1>1, <3>1, <3>2 DEF Record, Snapshot
  <2>2. CASE w.cmd # "evidence"
    BY <1>1, <2>2 DEF Work
  <2> QED
    BY <2>1, <2>2
<1>3. log \subseteq Record
  BY <1>2, RecordsTyped DEF Logged
<1> HIDE DEF w, log
<1>4. LET x == [w EXCEPT !.log = log,
                  !.got.notes = IF w.cmd = "evidence" THEN @ \union mine ELSE @]
      IN  /\ x \in Work /\ x.got \in Snapshot /\ x.cmd = w.cmd /\ x.ok = w.ok
          /\ x.got.id = w.got.id /\ x.got.ents = w.got.ents /\ x.got.edges = w.got.edges
          /\ x.got.told = w.got.told /\ x.log = log
          /\ x.got = w.got \/ w.cmd = "evidence"
  BY <1>1, <1>2, <1>3 DEF Work, Snapshot
<1> QED
  BY <1>4 DEF w, log

-----------------------------------------------------------------------------
(* How a process goes on. *)
OthersGo(p, marks) ==
    \A q \in Procs \ {p} : todo'[q] = todo[q] /\ work'[q] = work[q] /\ mark'[q] = marks[q]

Went(p, call, w, marks) ==
    /\ todo'[p] # <<>> /\ Head(todo'[p]) = call /\ Suffix(w.cmd, todo'[p])
    /\ work'[p] = w /\ mark'[p] = marks[p]
    /\ OthersGo(p, marks)

Ended(p, w, marks) ==
    /\ todo'[p] = <<>> /\ work'[p] = w /\ mark'[p] = {}
    /\ OthersGo(p, marks)

Moved(p, calls, w, marks) == todo'[p] = calls /\ work'[p] = w /\ mark'[p] = marks[p]

LEMMA GotoDoes ==
    ASSUME Shape, NEW p \in Procs, NEW calls, NEW w \in Work, NEW marks \in [Procs -> SUBSET Mark],
           Goto(p, calls, w, marks)
    PROVE  /\ todo' = [q \in Procs |-> todo'[q]] /\ work' \in [Procs -> Work]
           /\ mark' \in [Procs -> SUBSET Mark]
           /\ OthersGo(p, marks)
           /\ calls # <<>> => Moved(p, calls, w, marks)
           /\ calls = <<>> => Ended(p, IF w.cmd = "scan" /\ w.ok THEN Passed ELSE Idle, marks)
<1> DEFINE ended == IF w.cmd = "scan" /\ w.ok THEN Passed ELSE Idle
<1>1. Idle \in Work /\ Passed \in Work
  BY CmdIs DEF Idle, Passed, Work
<1>2. ended \in Work
  BY <1>1
<1> HIDE DEF ended
<1>3. /\ todo' = [todo EXCEPT ![p] = calls]
      /\ work' = [work EXCEPT ![p] = IF calls = <<>> THEN ended ELSE w]
      /\ mark' = [marks EXCEPT ![p] = IF calls = <<>> THEN {} ELSE @]
  BY DEF Goto, ended
<1>4. /\ todo' = [q \in Procs |-> IF q = p THEN calls ELSE todo[q]]
      /\ work' = [q \in Procs |-> IF q = p THEN IF calls = <<>> THEN ended ELSE w ELSE work[q]]
      /\ mark' = [q \in Procs |-> IF q = p THEN IF calls = <<>> THEN {} ELSE marks[p] ELSE marks[q]]
  BY <1>3 DEF Shape
<1>5. /\ todo' = [q \in Procs |-> todo'[q]] /\ work' \in [Procs -> Work]
      /\ mark' \in [Procs -> SUBSET Mark]
  BY <1>2, <1>4 DEF Shape
<1>6. OthersGo(p, marks)
  BY <1>4 DEF OthersGo
<1>7. calls = <<>> => Ended(p, ended, marks)
  BY <1>4, <1>6 DEF Ended
<1>8. calls # <<>> => Moved(p, calls, w, marks)
  BY <1>4 DEF Moved
<1> QED
  BY <1>5, <1>6, <1>7, <1>8 DEF ended

StillTyped ==
    /\ todo' = [q \in Procs |-> todo'[q]] /\ work' \in [Procs -> Work]
    /\ mark' \in [Procs -> SUBSET Mark]

Goes(p, call) == Tail(todo[p]) # <<>> /\ Head(Tail(todo[p])) = call
Last(p) == Tail(todo[p]) = <<>>

LEMMA Position ==
    ASSUME Shape, NEW p \in Procs, Running(p)
    PROVE  /\ work[p].cmd \in Cmd /\ work[p].ok
           /\ \E k \in 1..Len(Script[work[p].cmd]) : todo[p] = From(work[p].cmd, k)
<1> DEFINE c == work[p].cmd
<1>1. c \in Cmd /\ work[p].ok /\ Suffix(c, todo[p]) /\ todo[p] # <<>>
  BY DEF Shape, Placed, Running
<1>2. PICK k \in 1..(Len(Script[c]) + 1) : todo[p] = From(c, k)
  BY <1>1 DEF Suffix
<1>3. Len(Script[c]) \in 1..Len(Script[c]) /\ Len(Script[c]) \in Nat
  BY <1>1, ScriptTyped
<1>4. From(c, Len(Script[c]) + 1) = <<>>
  BY <1>1, <1>3, SuffixGoes
<1>5. k \in 1..Len(Script[c])
  BY <1>1, <1>2, <1>3, <1>4
<1> QED
  BY <1>1, <1>2, <1>5

LEMMA Follows ==
    ASSUME Shape, NEW p \in Procs, Running(p)
    PROVE  /\ Suffix(work[p].cmd, Tail(todo[p]))
           /\ At(p, "loadId") =>
                work[p].cmd # "rebuild" /\ Goes(p, <<"loadEntities", "store">>)
           /\ At(p, "loadEntities") =>
                work[p].cmd # "rebuild" /\ Goes(p, <<"loadEdges", "store">>)
           /\ At(p, "loadEdges") =>
                \/ work[p].cmd = "scan" /\ Goes(p, <<"index", "tree">>)
                \/ work[p].cmd = "lane" /\ Goes(p, <<"ask", "store">>)
                \/ work[p].cmd = "evidence" /\ Goes(p, <<"readLog", "log">>)
                \/ work[p].cmd = "compile" /\ Goes(p, <<"build", "store">>)
           /\ At(p, "index") => work[p].cmd = "scan" /\ Goes(p, <<"replace", "store">>)
           /\ At(p, "ask") => work[p].cmd = "lane" /\ Goes(p, <<"create", "idx">>)
           /\ At(p, "build") => work[p].cmd = "compile" /\ Goes(p, <<"create", "idx">>)
           /\ At(p, "readLog") =>
                work[p].cmd \in {"evidence", "compile"} /\ Goes(p, <<"create", "log">>)
           /\ At(p, "readIdx") => work[p].cmd = "rebuild" /\ Goes(p, <<"replace", "store">>)
           /\ At(p, "replace") =>
                \/ work[p].cmd = "rebuild" /\ Last(p)
                \/ work[p].cmd \in {"scan", "evidence"} /\ Goes(p, <<"create", "idx">>)
<1> DEFINE c == work[p].cmd
<1>1. PICK k \in 1..Len(Script[c]) : todo[p] = From(c, k)
  BY Position
<1>2. c \in Cmd
  BY Position
<1> DEFINE h == Script[c][k]
           n == Len(Script[c])
           Then(x) == k < n /\ Script[c][k + 1] = x
<1>3. /\ Head(todo[p]) = h /\ Suffix(c, Tail(todo[p]))
      /\ \A x : Then(x) => Goes(p, x)
      /\ k = n => Last(p)
  <2>1. Tail(todo[p]) = From(c, k + 1) /\ Head(todo[p]) = Script[c][k] /\ Suffix(c, From(c, k + 1))
    BY <1>1, <1>2, SuffixGoes
  <2>2. From(c, k + 1) = <<>> <=> k = Len(Script[c])
    BY <1>2, SuffixGoes
  <2>3. k < Len(Script[c]) => Head(From(c, k + 1)) = Script[c][k + 1] /\ k # Len(Script[c])
    BY <1>2, SuffixGoes, ScriptTyped
  <2> QED
    BY <2>1, <2>2, <2>3 DEF Goes, Last
<1>4. /\ h[1] = "loadId" => c # "rebuild" /\ Then(<<"loadEntities", "store">>)
      /\ h[1] = "loadEntities" => c # "rebuild" /\ Then(<<"loadEdges", "store">>)
      /\ h[1] = "loadEdges" =>
            \/ c = "scan" /\ Then(<<"index", "tree">>)
            \/ c = "lane" /\ Then(<<"ask", "store">>)
            \/ c = "evidence" /\ Then(<<"readLog", "log">>)
            \/ c = "compile" /\ Then(<<"build", "store">>)
      /\ h[1] = "index" => c = "scan" /\ Then(<<"replace", "store">>)
      /\ h[1] = "ask" => c = "lane" /\ Then(<<"create", "idx">>)
      /\ h[1] = "build" => c = "compile" /\ Then(<<"create", "idx">>)
      /\ h[1] = "readLog" => c \in {"evidence", "compile"} /\ Then(<<"create", "log">>)
      /\ h[1] = "readIdx" => c = "rebuild" /\ Then(<<"replace", "store">>)
      /\ h[1] = "replace" =>
            \/ c = "rebuild" /\ k = n
            \/ c \in {"scan", "evidence"} /\ Then(<<"create", "idx">>)
  BY <1>2, ScriptTable
<1> HIDE DEF h, n, Then, c
<1>5. \A call : At(p, call) => h[1] = call
  BY <1>3 DEF At
<1> QED
  BY <1>3, <1>4, <1>5 DEF c

LEMMA FileFollows ==
    ASSUME Shape, NEW p \in Procs, Running(p)
    PROVE  /\ At(p, "create") => \E t \in Target : AtFile(p, "create", t)
           /\ At(p, "fill") => \E t \in Target : AtFile(p, "fill", t)
           /\ AtFile(p, "create", "idx") =>
                work[p].cmd # "rebuild" /\ Goes(p, <<"fill", "idx">>)
           /\ AtFile(p, "create", "log") =>
                work[p].cmd \in {"evidence", "compile"} /\ Goes(p, <<"fill", "log">>)
           /\ AtFile(p, "fill", "idx") => Goes(p, <<"rename", "idx">>)
           /\ AtFile(p, "fill", "log") => Goes(p, <<"rename", "log">>)
           /\ AtFile(p, "rename", "idx") =>
                \/ work[p].cmd = "compile" /\ Goes(p, <<"readLog", "log">>)
                \/ work[p].cmd \in {"scan", "lane", "evidence"} /\ Last(p)
           /\ AtFile(p, "rename", "log") =>
                \/ work[p].cmd = "evidence" /\ Goes(p, <<"replace", "store">>)
                \/ work[p].cmd = "compile" /\ Last(p)
<1> DEFINE c == work[p].cmd
<1>1. PICK k \in 1..Len(Script[c]) : todo[p] = From(c, k)
  BY Position
<1>2. c \in Cmd
  BY Position
<1> DEFINE h == Script[c][k]
           n == Len(Script[c])
           Then(x) == k < n /\ Script[c][k + 1] = x
<1>3. /\ Head(todo[p]) = h
      /\ \A x : Then(x) => Goes(p, x)
      /\ k = n => Last(p)
  <2>1. Tail(todo[p]) = From(c, k + 1) /\ Head(todo[p]) = Script[c][k]
    BY <1>1, <1>2, SuffixGoes
  <2>2. From(c, k + 1) = <<>> <=> k = Len(Script[c])
    BY <1>2, SuffixGoes
  <2>3. k < Len(Script[c]) => Head(From(c, k + 1)) = Script[c][k + 1] /\ k # Len(Script[c])
    BY <1>2, SuffixGoes, ScriptTyped
  <2> QED
    BY <2>1, <2>2, <2>3 DEF Goes, Last
<1>4. /\ h[1] = "create" => h = <<"create", "idx">> \/ h = <<"create", "log">>
      /\ h[1] = "fill" => h = <<"fill", "idx">> \/ h = <<"fill", "log">>
      /\ h = <<"create", "idx">> =>
            c \in {"scan", "lane", "evidence", "compile"} /\ Then(<<"fill", "idx">>)
      /\ h = <<"create", "log">> => c \in {"evidence", "compile"} /\ Then(<<"fill", "log">>)
      /\ h = <<"fill", "idx">> => Then(<<"rename", "idx">>)
      /\ h = <<"fill", "log">> => Then(<<"rename", "log">>)
      /\ h = <<"rename", "idx">> =>
            \/ c = "compile" /\ Then(<<"readLog", "log">>)
            \/ c \in {"scan", "lane", "evidence"} /\ k = n
      /\ h = <<"rename", "log">> =>
            \/ c = "evidence" /\ Then(<<"replace", "store">>)
            \/ c = "compile" /\ k = n
  BY <1>2, SaveTable
<1> HIDE DEF h, n, Then, c
<1>5. /\ \A call : At(p, call) => h[1] = call
      /\ \A call, t : AtFile(p, call, t) <=> h = <<call, t>>
  BY <1>3 DEF At, AtFile
<1> QED
  BY <1>3, <1>4, <1>5 DEF c, Target

LEMMA GoDoes ==
    ASSUME Shape, NEW p \in Procs, Running(p), NEW w \in Work, w.cmd = work[p].cmd, w.ok,
           NEW marks \in [Procs -> SUBSET Mark], Go(p, w, marks)
    PROVE  /\ StillTyped
           /\ \A call : Goes(p, call) => Went(p, call, w, marks)
           /\ Last(p) => Ended(p, IF w.cmd = "scan" THEN Passed ELSE Idle, marks)
<1> DEFINE calls == Tail(todo[p])
<1>1. Suffix(w.cmd, calls)
  BY Follows
<1>2. Goto(p, calls, w, marks)
  BY DEF Go
<1>3. /\ \A call : Goes(p, call) <=> calls # <<>> /\ Head(calls) = call
      /\ Last(p) <=> calls = <<>>
  BY DEF Goes, Last
<1> HIDE DEF calls
<1>4. StillTyped
  BY <1>2, GotoDoes DEF StillTyped
<1>5. OthersGo(p, marks)
  BY <1>2, GotoDoes
<1>6. calls # <<>> => Moved(p, calls, w, marks)
  BY <1>2, GotoDoes
<1>7. calls = <<>> => Ended(p, IF w.cmd = "scan" /\ w.ok THEN Passed ELSE Idle, marks)
  BY <1>2, GotoDoes
<1>8. \A call : Goes(p, call) => Went(p, call, w, marks)
  BY <1>1, <1>3, <1>5, <1>6 DEF Went, Moved
<1>9. Last(p) => Ended(p, IF w.cmd = "scan" THEN Passed ELSE Idle, marks)
  <2>1. CASE w.cmd = "scan"
    BY <1>3, <1>7, <2>1
  <2>2. CASE w.cmd # "scan"
    BY <1>3, <1>7, <2>2
  <2> QED
    BY <2>1, <2>2
<1> QED
  BY <1>4, <1>8, <1>9

-----------------------------------------------------------------------------
(* What a step does, whatever the command. *)
Keeps(p, w) == w \in Work /\ w.cmd = work[p].cmd /\ w.ok
Alike(s, r) == s.id = r.id /\ s.ents = r.ents /\ s.edges = r.edges

Starts(p) ==
    /\ ~Running(p)
    /\ \E c \in Cmd, call \in {<<"loadId", "store">>, <<"readIdx", "idx">>} :
          Went(p, call, [Idle EXCEPT !.cmd = c, !.ok = TRUE], mark)
    /\ alone' = IF \E q \in Procs : Running(q) THEN {} ELSE {p}
    /\ UNCHANGED <<disk, grip, suspect, bad>>

Quits(p) ==
    /\ Running(p) /\ Ended(p, Idle, mark) /\ Disturb(p)
    /\ grip' = [grip EXCEPT ![p] = "closed"]
    /\ UNCHANGED <<disk, suspect, bad>>

Reads(p, call, w, marks) ==
    /\ Running(p) /\ Keeps(p, w) /\ Went(p, call, w, marks) /\ Disturb(p)
    /\ UNCHANGED <<disk, grip, suspect, bad>>

LoadsId(p) ==
    /\ At(p, "loadId") /\ store \in Snapshot
    /\ \E w \in Work : w.got = store /\ Reads(p, <<"loadEntities", "store">>, w, mark)

LoadsEntities(p) ==
    /\ At(p, "loadEntities") /\ store \in Snapshot
    /\ \E w \in Work :
        /\ w.got \in Snapshot /\ w.got.id = work[p].got.id /\ w.got.ents = store.ents
        /\ w.got.edges = work[p].got.edges /\ w.got.told = store.told
        /\ Reads(p, <<"loadEdges", "store">>, w, Marked({p}, "fresh"))

LoadsEdges(p) ==
    /\ At(p, "loadEdges") /\ store \in Snapshot
    /\ \E w \in Work, call \in {<<"index", "tree">>, <<"ask", "store">>, <<"readLog", "log">>,
                                <<"build", "store">>} :
        /\ w.got \in Snapshot /\ w.got.id = work[p].got.id /\ w.got.ents = work[p].got.ents
        /\ w.got.edges = store.edges /\ w.got.told = work[p].got.told
        /\ call = <<"readLog", "log">> => w.cmd = "evidence"
        /\ Reads(p, call, w, mark)

StartsOver(p) ==
    /\ Loading(p)
    /\ \E w \in Work : w.got = None /\ Reads(p, <<"index", "tree">>, w, [mark EXCEPT ![p] = {}])

Indexes(p) ==
    /\ At(p, "index") /\ file["log"].final \notin Unreadable
    /\ \E w \in Work :
        /\ w.got \in Snapshot
        /\ w.got = [id |-> tree, ents |-> tree, edges |-> tree,
                    notes |-> Merged(Records, tree), told |-> Carried(work[p].got)]
        /\ Reads(p, <<"replace", "store">>, w, mark)

ReadsLog(p) ==
    /\ At(p, "readLog") /\ file["log"].final \notin Unreadable
    /\ work[p].cmd \in {"evidence", "compile"}
    /\ \E w \in Work :
        /\ w.got \in Snapshot /\ Alike(w.got, work[p].got) /\ w.got.told = work[p].got.told
        /\ w.log \subseteq Record
        /\ \A r \in Records : \E n \in w.log : SameKey(r, n)
        /\ Reads(p, <<"create", "log">>, w, Marked({p}, "logFresh"))

ReadsIdx(p) ==
    /\ At(p, "readIdx") /\ file["idx"].final \in Snapshot
    /\ \E w \in Work :
          /\ w.cmd = "rebuild" /\ w.got \in Snapshot /\ Alike(w.got, file["idx"].final)
          /\ Reads(p, <<"replace", "store">>, w, mark)

CommitMarks == [q \in Procs |->
    (mark[q] \ {"fresh"}) \union
    (IF At(q, "loadEntities") \/ At(q, "loadEdges") THEN {"straddled"} ELSE {})]

Stores(p) ==
    /\ At(p, "replace") \/ At(p, "ask") \/ At(p, "build")
    /\ \E w \in Work :
        /\ Keeps(p, w) /\ w.got \in Snapshot
        /\ Alike(w.got, work[p].got) /\ (work[p].got.told => w.got.told)
        /\ At(p, "replace") => w = work[p]
        /\ store' = w.got
        /\ suspect' = (suspect \/ ("straddled" \in mark[p] /\ w.cmd # "scan"))
        /\ \/ Went(p, <<"create", "idx">>, w, CommitMarks) /\ w.cmd # "rebuild"
           \/ Ended(p, Idle, CommitMarks) /\ w.cmd = "rebuild"
    /\ Disturb(p)
    /\ UNCHANGED <<tree, file, grip, bad>>

CreateMarks(p, t) ==
    LET others == {q \in Procs \ {p} : Writing(q, t)}
    IN  IF others = {} THEN Unmarked({p}, "clashed") ELSE Marked(others \union {p}, "clashed")

Creates(p, t) ==
    /\ AtFile(p, "create", t) /\ Went(p, <<"fill", t>>, work[p], CreateMarks(p, t))
    /\ file' = [file EXCEPT ![t].temp = Blank]
    /\ grip' = [grip EXCEPT ![p] = "temp"]
    /\ Disturb(p)
    /\ UNCHANGED <<tree, store, suspect, bad>>

Fills(p, t) ==
    /\ AtFile(p, "fill", t)
    /\ \/ /\ grip[p] = "temp"
          /\ \E c \in Over(file[t].temp, Output(p, t)) : file' = [file EXCEPT ![t].temp = c]
          /\ Went(p, <<"rename", t>>, work[p], mark)
       \/ /\ grip[p] = "final"
          /\ \E c \in Over(file[t].final, Output(p, t)) : file' = [file EXCEPT ![t].final = c]
          /\ Went(p, <<"rename", t>>, work[p], LogMoved(t))
       \/ grip[p] = "gone" /\ UNCHANGED file /\ Went(p, <<"rename", t>>, work[p], mark)
    /\ grip' = [grip EXCEPT ![p] = "closed"]
    /\ Disturb(p)
    /\ UNCHANGED <<tree, store, suspect, bad>>

Renames(p, t) ==
    /\ AtFile(p, "rename", t) /\ file[t].temp # None
    /\ \/ t = "idx" /\ work[p].cmd = "compile"
          /\ Went(p, <<"readLog", "log">>, work[p], mark)
       \/ t = "log" /\ work[p].cmd = "evidence"
          /\ Went(p, <<"replace", "store">>, work[p], LogMoved(t))
       \/ t = "idx" /\ work[p].cmd # "compile"
          /\ Ended(p, IF work[p].cmd = "scan" THEN Passed ELSE Idle, mark)
       \/ t = "log" /\ work[p].cmd = "compile" /\ Ended(p, Idle, LogMoved(t))
    /\ file' = [file EXCEPT ![t] = [final |-> file[t].temp, temp |-> None]]
    /\ grip' = [q \in Procs |->
                    IF ~AtFile(q, "fill", t) THEN grip[q]
                    ELSE IF grip[q] = "temp" THEN "final" ELSE "gone"]
    /\ bad' = IF "clashed" \in mark[p] THEN bad \union {t} ELSE bad \ {t}
    /\ Disturb(p)
    /\ UNCHANGED <<tree, store, suspect>>

LEMMA MarksTyped ==
    ASSUME Shape
    PROVE  /\ \A ps, m : m \in Mark => Marked(ps, m) \in [Procs -> SUBSET Mark]
           /\ \A ps, m : Unmarked(ps, m) \in [Procs -> SUBSET Mark]
           /\ \A t : LogMoved(t) \in [Procs -> SUBSET Mark]
           /\ \A p \in Procs : \A t : CreateMarks(p, t) \in [Procs -> SUBSET Mark]
           /\ CommitMarks \in [Procs -> SUBSET Mark]
           /\ mark \in [Procs -> SUBSET Mark]
           /\ \A p \in Procs : [mark EXCEPT ![p] = {}] \in [Procs -> SUBSET Mark]
<1>1. mark \in [Procs -> SUBSET Mark]
  BY DEF Shape
<1>2. \A ps, m : m \in Mark => Marked(ps, m) \in [Procs -> SUBSET Mark]
  BY <1>1 DEF Marked
<1>3. \A ps, m : Unmarked(ps, m) \in [Procs -> SUBSET Mark]
  BY <1>1 DEF Unmarked
<1>4. \A t : LogMoved(t) \in [Procs -> SUBSET Mark]
  BY <1>1, <1>3 DEF LogMoved
<1>5. \A p \in Procs : \A t : CreateMarks(p, t) \in [Procs -> SUBSET Mark]
  <2>1. "clashed" \in Mark
    BY DEF Mark
  <2> QED
    BY <1>2, <1>3, <2>1 DEF CreateMarks
<1>6. CommitMarks \in [Procs -> SUBSET Mark]
  BY <1>1 DEF CommitMarks, Mark
<1> QED
  BY <1>1, <1>2, <1>3, <1>4, <1>5, <1>6

(* The memory of a process that runs. *)
LEMMA Held ==
    ASSUME Shape, NEW p \in Procs, Running(p)
    PROVE  /\ work[p] \in Work /\ work[p].cmd \in Cmd /\ work[p].ok /\ Keeps(p, work[p])
           /\ ~At(p, "loadId") /\ ~At(p, "readIdx") /\ ~At(p, "index") => work[p].got \in Snapshot
           /\ At(p, "loadEntities") \/ At(p, "loadEdges") => store \in Snapshot
           /\ ~At(p, "fill") => (grip' = grip => grip' = [grip EXCEPT ![p] = "closed"])
<1>1. Placed(p) /\ work[p] \in Work /\ store \in Snapshot \union {None}
  BY DEF Shape
<1>2. ASSUME ~At(p, "fill") PROVE grip = [grip EXCEPT ![p] = "closed"]
  BY <1>2, <1>1 DEF Placed, Shape
<1> QED
  BY <1>1, <1>2 DEF Placed, Keeps

LEMMA FailDoes ==
    ASSUME Shape, NEW p \in Procs, Running(p), Fail(p)
    PROVE  StillTyped /\ Ended(p, Idle, mark)
<1>1. Idle \in Work /\ Idle.cmd # "scan"
  BY DEF Idle, Work
<1>2. Goto(p, <<>>, Idle, mark)
  BY DEF Fail
<1> DEFINE calls == <<>>
<1>3. calls = <<>>
  OBVIOUS
<1> HIDE DEF calls
<1>4. StillTyped /\ Ended(p, IF Idle.cmd = "scan" /\ Idle.ok THEN Passed ELSE Idle, mark)
  BY <1>1, <1>2, <1>3, GotoDoes, MarksTyped DEF StillTyped
<1> QED
  BY <1>1, <1>4

LEMMA BeginDoes ==
    ASSUME Shape, NEW p \in Procs, Begin(p)
    PROVE  StillTyped /\ Starts(p)
<1>1. PICK c \in Usable : Goto(p, Script[c], [Idle EXCEPT !.cmd = c, !.ok = TRUE], mark)
  BY DEF Begin
<1>2. c \in Cmd
  BY UsableAssumption
<1> DEFINE calls == Script[c]
           w == [Idle EXCEPT !.cmd = c, !.ok = TRUE]
<1>3. /\ Suffix(c, calls) /\ calls # <<>>
      /\ Head(calls) \in {<<"loadId", "store">>, <<"readIdx", "idx">>}
  BY <1>2, ScriptBegins
<1>4. w \in Work /\ w.cmd = c
  BY <1>2 DEF Idle, Work
<1>5. Goto(p, calls, w, mark)
  BY <1>1
<1> HIDE DEF calls, w
<1>6. StillTyped /\ OthersGo(p, mark) /\ Moved(p, calls, w, mark)
  BY <1>3, <1>4, <1>5, GotoDoes, MarksTyped DEF StillTyped
<1>7. Went(p, Head(calls), w, mark)
  BY <1>3, <1>4, <1>6 DEF Went, Moved
<1> QED
  BY <1>2, <1>3, <1>6, <1>7 DEF Begin, Starts, w

LEMMA UnloadedDoes ==
    ASSUME Shape, NEW p \in Procs, Loading(p), Unloaded(p), Disturb(p),
           UNCHANGED <<disk, grip, suspect, bad>>
    PROVE  StillTyped /\ (Quits(p) \/ StartsOver(p))
<1>1. Running(p) /\ ~At(p, "fill")
  BY DEF Loading, At
<1>2. CASE work[p].cmd # "scan"
  <2>1. Fail(p)
    BY <1>2 DEF Unloaded
  <2>2. grip' = [grip EXCEPT ![p] = "closed"]
    BY <1>1, Held
  <2> QED
    BY <1>1, <2>1, <2>2, FailDoes DEF Quits
<1>3. CASE work[p].cmd = "scan"
  <2> DEFINE calls == SubSeq(Script["scan"], 4, Len(Script["scan"]))
             w == [work[p] EXCEPT !.got = None]
             marks == [mark EXCEPT ![p] = {}]
  <2>1. Suffix("scan", calls) /\ calls # <<>> /\ Head(calls) = <<"index", "tree">>
    BY ScanUnloaded
  <2>2. w \in Work /\ w.cmd = "scan" /\ w.ok /\ w.got = None
    <3>1. work[p] \in Work /\ work[p].ok
      BY <1>1, Held
    <3> QED
      BY <1>3, <3>1 DEF Work
  <2>3. Goto(p, calls, w, marks)
    BY <1>3 DEF Unloaded
  <2>4. marks \in [Procs -> SUBSET Mark]
    BY MarksTyped
  <2> HIDE DEF calls, w, marks
  <2>5. StillTyped /\ OthersGo(p, marks) /\ Moved(p, calls, w, marks)
    BY <2>1, <2>2, <2>3, <2>4, GotoDoes DEF StillTyped
  <2>6. Went(p, <<"index", "tree">>, w, marks)
    BY <2>1, <2>2, <2>5 DEF Went, Moved
  <2>7. Reads(p, <<"index", "tree">>, w, marks)
    BY <1>1, <1>3, <2>2, <2>6 DEF Reads, Keeps
  <2>8. StartsOver(p)
    BY <2>2, <2>7 DEF StartsOver, marks
  <2> QED
    BY <2>5, <2>8
<1> QED
  BY <1>2, <1>3

LEMMA LoadIdDoes ==
    ASSUME Shape, NEW p \in Procs, LoadId(p)
    PROVE  StillTyped /\ (Quits(p) \/ StartsOver(p) \/ LoadsId(p))
<1>1. At(p, "loadId") /\ Running(p) /\ Loading(p) /\ Disturb(p)
      /\ UNCHANGED <<disk, grip, suspect, bad>>
  BY DEF LoadId, At, Loading
<1>2. CASE store = None
  BY <1>1, <1>2, UnloadedDoes DEF LoadId
<1>3. CASE store # None
  <2> DEFINE w == [work[p] EXCEPT !.got = store]
  <2>1. store \in Snapshot
    BY <1>3 DEF Shape
  <2>2. w \in Work /\ w.cmd = work[p].cmd /\ w.ok /\ w.got = store
    <3>1. work[p] \in Work /\ work[p].ok
      BY <1>1, Held
    <3> QED
      BY <2>1, <3>1, Loaded
  <2>3. Go(p, w, mark)
    BY <1>3 DEF LoadId
  <2> HIDE DEF w
  <2>4. Goes(p, <<"loadEntities", "store">>)
    BY <1>1, Follows
  <2>5. StillTyped /\ Went(p, <<"loadEntities", "store">>, w, mark)
    BY <1>1, <2>2, <2>3, <2>4, GoDoes, MarksTyped
  <2>6. Reads(p, <<"loadEntities", "store">>, w, mark)
    BY <1>1, <2>2, <2>5 DEF Reads, Keeps
  <2> QED
    BY <1>1, <2>1, <2>2, <2>5, <2>6 DEF LoadsId
<1> QED
  BY <1>2, <1>3

LEMMA LoadEntitiesDoes ==
    ASSUME Shape, NEW p \in Procs, LoadEntities(p)
    PROVE  StillTyped /\ LoadsEntities(p)
<1>1. At(p, "loadEntities") /\ Running(p) /\ Disturb(p) /\ UNCHANGED <<disk, grip, suspect, bad>>
  BY DEF LoadEntities, At
<1>2. store \in Snapshot /\ work[p] \in Work /\ work[p].got \in Snapshot /\ work[p].ok
  BY <1>1, Held DEF At
<1> DEFINE w == [work[p] EXCEPT !.got.ents = store.ents, !.got.notes = store.notes,
                                !.got.told = store.told]
           marks == Marked({p}, "fresh")
<1>3. /\ w \in Work /\ w.got \in Snapshot /\ w.cmd = work[p].cmd /\ w.ok
      /\ w.got.id = work[p].got.id /\ w.got.ents = store.ents
      /\ w.got.edges = work[p].got.edges /\ w.got.told = store.told
  <2> DEFINE v == work[p]
             s == store
  <2>1. v \in Work /\ v.got \in Snapshot /\ s \in Snapshot
    BY <1>2
  <2> HIDE DEF v, s
  <2>2. LET x == [v EXCEPT !.got.ents = s.ents, !.got.notes = s.notes, !.got.told = s.told]
        IN  /\ x \in Work /\ x.got \in Snapshot /\ x.cmd = v.cmd /\ x.ok = v.ok
            /\ x.got.id = v.got.id /\ x.got.ents = s.ents
            /\ x.got.edges = v.got.edges /\ x.got.told = s.told
    BY <2>1, EntitiesLoaded
  <2> QED
    BY <1>2, <2>2 DEF v, s
<1>4. Go(p, w, marks)
  BY DEF LoadEntities
<1>5. marks \in [Procs -> SUBSET Mark]
  BY MarksTyped DEF Mark
<1> HIDE DEF w, marks
<1>6. Goes(p, <<"loadEdges", "store">>)
  BY <1>1, Follows
<1>7. StillTyped /\ Went(p, <<"loadEdges", "store">>, w, marks)
  BY <1>1, <1>3, <1>4, <1>5, <1>6, GoDoes
<1>8. Reads(p, <<"loadEdges", "store">>, w, marks)
  BY <1>1, <1>3, <1>7 DEF Reads, Keeps
<1> QED
  BY <1>1, <1>2, <1>3, <1>7, <1>8 DEF LoadsEntities, marks

LEMMA LoadEdgesDoes ==
    ASSUME Shape, NEW p \in Procs, LoadEdges(p)
    PROVE  StillTyped /\ LoadsEdges(p)
<1>1. At(p, "loadEdges") /\ Running(p) /\ Disturb(p) /\ UNCHANGED <<disk, grip, suspect, bad>>
  BY DEF LoadEdges, At
<1>2. store \in Snapshot /\ work[p] \in Work /\ work[p].got \in Snapshot /\ work[p].ok
  BY <1>1, Held DEF At
<1> DEFINE w == [work[p] EXCEPT !.got.edges = store.edges]
<1>3. /\ w \in Work /\ w.got \in Snapshot /\ w.cmd = work[p].cmd /\ w.ok
      /\ w.got.id = work[p].got.id /\ w.got.ents = work[p].got.ents
      /\ w.got.edges = store.edges /\ w.got.told = work[p].got.told
  BY <1>2, EdgesLoaded
<1>4. Go(p, w, mark)
  BY DEF LoadEdges
<1> HIDE DEF w
<1>5. \E call \in {<<"index", "tree">>, <<"ask", "store">>, <<"readLog", "log">>,
                   <<"build", "store">>} :
        Goes(p, call) /\ (call = <<"readLog", "log">> => work[p].cmd = "evidence")
  BY <1>1, Follows
<1>6. PICK call \in {<<"index", "tree">>, <<"ask", "store">>, <<"readLog", "log">>,
                     <<"build", "store">>} :
        Goes(p, call) /\ (call = <<"readLog", "log">> => work[p].cmd = "evidence")
  BY <1>5
<1>7. StillTyped /\ Went(p, call, w, mark)
  BY <1>1, <1>3, <1>4, <1>6, GoDoes, MarksTyped
<1>8. Reads(p, call, w, mark)
  BY <1>1, <1>3, <1>7 DEF Reads, Keeps
<1> QED
  BY <1>1, <1>2, <1>3, <1>6, <1>7, <1>8 DEF LoadsEdges

LEMMA LoadFailsDoes ==
    ASSUME Shape, NEW p \in Procs, LoadFails(p)
    PROVE  StillTyped /\ (Quits(p) \/ StartsOver(p))
BY UnloadedDoes DEF LoadFails

(* A command that fails, quits. *)
LEMMA FailQuits ==
    ASSUME Shape, NEW p \in Procs, Running(p), ~At(p, "fill"), Fail(p), Disturb(p),
           UNCHANGED <<disk, grip, suspect, bad>>
    PROVE  StillTyped /\ Quits(p)
<1>1. grip' = [grip EXCEPT ![p] = "closed"]
  BY Held
<1> QED
  BY <1>1, FailDoes DEF Quits

LEMMA IndexDoes ==
    ASSUME Shape, NEW p \in Procs, Index(p)
    PROVE  StillTyped /\ (Quits(p) \/ Indexes(p))
<1>1. At(p, "index") /\ Running(p) /\ ~At(p, "fill") /\ Disturb(p)
      /\ UNCHANGED <<disk, grip, suspect, bad>>
  BY DEF Index, At
<1>2. CASE file["log"].final \in Unreadable
  BY <1>1, <1>2, FailQuits DEF Index
<1>3. CASE file["log"].final \notin Unreadable
  <2> DEFINE s == [id |-> tree, ents |-> tree, edges |-> tree,
                   notes |-> Merged(Records, tree), told |-> Carried(work[p].got)]
             w == [work[p] EXCEPT !.got = s]
  <2>1. s \in Snapshot
    BY <1>3, Indexed
  <2>2. Go(p, w, mark)
    BY <1>3 DEF Index
  <2> HIDE DEF s
  <2>3. w \in Work /\ w.cmd = work[p].cmd /\ w.ok /\ w.got = s
    <3>1. work[p] \in Work /\ work[p].ok
      BY <1>1, Held
    <3> QED
      BY <2>1, <3>1, Loaded
  <2> HIDE DEF w
  <2>4. Goes(p, <<"replace", "store">>)
    BY <1>1, Follows
  <2>5. StillTyped /\ Went(p, <<"replace", "store">>, w, mark)
    BY <1>1, <2>2, <2>3, <2>4, GoDoes, MarksTyped
  <2>6. Reads(p, <<"replace", "store">>, w, mark)
    BY <1>1, <2>3, <2>5 DEF Reads, Keeps
  <2>7. w.got = [id |-> tree, ents |-> tree, edges |-> tree,
                 notes |-> Merged(Records, tree), told |-> Carried(work[p].got)]
    BY <2>3 DEF s
  <2> QED
    BY <1>1, <1>3, <2>1, <2>3, <2>5, <2>6, <2>7 DEF Indexes
<1> QED
  BY <1>2, <1>3

LEMMA ReadIdxDoes ==
    ASSUME Shape, NEW p \in Procs, ReadIdx(p)
    PROVE  StillTyped /\ (Quits(p) \/ ReadsIdx(p))
<1>1. At(p, "readIdx") /\ Running(p) /\ ~At(p, "fill") /\ Disturb(p)
      /\ UNCHANGED <<disk, grip, suspect, bad>>
  BY DEF ReadIdx, At
<1> DEFINE s == file["idx"].final
<1>2. CASE s = None \/ s \in Unreadable
  BY <1>1, <1>2, FailQuits DEF ReadIdx
<1>3. CASE ~(s = None \/ s \in Unreadable)
  <2>1. s \in Snapshot
    BY <1>3 DEF Shape, FilesTyped, Fit, Target, IdxContent
  <2> DEFINE r == [s EXCEPT !.told = FALSE]
             w == [work[p] EXCEPT !.got = r]
  <2>2. Go(p, w, mark)
    BY <1>3 DEF ReadIdx
  <2> HIDE DEF s
  <2>7. r \in Snapshot /\ Alike(r, s)
    BY <2>1 DEF Snapshot, Alike
  <2> HIDE DEF r
  <2>3. w \in Work /\ w.cmd = work[p].cmd /\ w.ok /\ w.got = r
    <3>1. work[p] \in Work /\ work[p].ok
      BY <1>1, Held
    <3> QED
      BY <2>7, <3>1, Loaded
  <2> HIDE DEF w
  <2>4. Goes(p, <<"replace", "store">>) /\ work[p].cmd = "rebuild"
    BY <1>1, Follows
  <2>5. StillTyped /\ Went(p, <<"replace", "store">>, w, mark)
    BY <1>1, <2>2, <2>3, <2>4, GoDoes, MarksTyped
  <2>6. Reads(p, <<"replace", "store">>, w, mark)
    BY <1>1, <2>3, <2>5 DEF Reads, Keeps
  <2> QED
    BY <1>1, <1>3, <2>1, <2>3, <2>4, <2>5, <2>6, <2>7 DEF ReadsIdx, s
<1> QED
  BY <1>2, <1>3

LEMMA ReadLogDoes ==
    ASSUME Shape, NEW p \in Procs, ReadLog(p)
    PROVE  StillTyped /\ (Quits(p) \/ ReadsLog(p))
<1>1. At(p, "readLog") /\ Running(p) /\ ~At(p, "fill") /\ Disturb(p)
      /\ UNCHANGED <<disk, grip, suspect, bad>>
  BY DEF ReadLog, At
<1>2. CASE file["log"].final \in Unreadable /\ Fail(p)
  BY <1>1, <1>2, FailQuits
<1>3. ASSUME file["log"].final \notin Unreadable,
             NEW mine \in IF work[p].cmd = "evidence" THEN Judge(p) ELSE {work[p].mine},
             Go(p, [work[p] EXCEPT !.log = Logged(Records, mine),
                    !.got.notes = IF work[p].cmd = "evidence" THEN @ \union mine ELSE @],
                Marked({p}, "logFresh"))
      PROVE StillTyped /\ ReadsLog(p)
  <2> DEFINE w == [work[p] EXCEPT !.log = Logged(Records, mine),
                    !.got.notes = IF work[p].cmd = "evidence" THEN @ \union mine ELSE @]
             marks == Marked({p}, "logFresh")
  <2>1. work[p].got \in Snapshot /\ work[p].ok /\ work[p] \in Work
    BY <1>1, Held DEF At
  <2>2. /\ w \in Work /\ w.got \in Snapshot /\ w.cmd = work[p].cmd /\ w.ok
        /\ w.got.id = work[p].got.id /\ w.got.ents = work[p].got.ents
        /\ w.got.edges = work[p].got.edges /\ w.got.told = work[p].got.told
        /\ w.log = Logged(Records, mine)
    BY <1>3, <2>1, LogRead
  <2>3. Go(p, w, marks)
    BY <1>3
  <2>4. marks \in [Procs -> SUBSET Mark]
    BY MarksTyped DEF Mark
  <2> HIDE DEF w, marks
  <2>5. Goes(p, <<"create", "log">>) /\ work[p].cmd \in {"evidence", "compile"}
    BY <1>1, Follows
  <2>6. StillTyped /\ Went(p, <<"create", "log">>, w, marks)
    BY <1>1, <2>2, <2>3, <2>4, <2>5, GoDoes
  <2>7. Reads(p, <<"create", "log">>, w, marks)
    BY <1>1, <2>2, <2>6 DEF Reads, Keeps
  <2>8. w.log \subseteq Record
    BY <2>2 DEF Work
  <2>9. \A r \in Records : \E n \in w.log : SameKey(r, n)
    BY <2>2 DEF Logged, SameKey
  <2> QED
    BY <1>1, <1>3, <2>2, <2>5, <2>6, <2>7, <2>8, <2>9 DEF ReadsLog, marks, Alike
<1> QED
  BY <1>2, <1>3 DEF ReadLog

LEMMA CommitDoes ==
    ASSUME Shape, NEW p \in Procs, Disturb(p), At(p, "replace") \/ At(p, "ask") \/ At(p, "build"),
           NEW w \in Work, w.cmd = work[p].cmd, w.ok, w.got \in Snapshot,
           Alike(w.got, work[p].got), work[p].got.told => w.got.told,
           At(p, "replace") => w = work[p], Commit(p, w)
    PROVE  StillTyped /\ Stores(p)
<1>1. Running(p)
  BY DEF At
<1>2. Go(p, w, CommitMarks)
  BY DEF Commit, CommitMarks
<1>3. StillTyped /\ CommitMarks \in [Procs -> SUBSET Mark]
  BY <1>1, <1>2, GoDoes, MarksTyped
<1>4. \/ Goes(p, <<"create", "idx">>) /\ w.cmd # "rebuild"
      \/ Last(p) /\ w.cmd = "rebuild"
  <2>1. /\ At(p, "ask") => work[p].cmd = "lane" /\ Goes(p, <<"create", "idx">>)
        /\ At(p, "build") => work[p].cmd = "compile" /\ Goes(p, <<"create", "idx">>)
        /\ At(p, "replace") =>
              \/ work[p].cmd = "rebuild" /\ Last(p)
              \/ work[p].cmd \in {"scan", "evidence"} /\ Goes(p, <<"create", "idx">>)
    BY <1>1, Follows
  <2> QED
    BY <2>1
<1>5. \/ Went(p, <<"create", "idx">>, w, CommitMarks) /\ w.cmd # "rebuild"
      \/ Ended(p, Idle, CommitMarks) /\ w.cmd = "rebuild"
  <2>1. CASE Goes(p, <<"create", "idx">>) /\ w.cmd # "rebuild"
    BY <1>1, <1>2, <1>3, <2>1, GoDoes
  <2>2. CASE Last(p) /\ w.cmd = "rebuild"
    <3>1. Ended(p, IF w.cmd = "scan" THEN Passed ELSE Idle, CommitMarks)
      BY <1>1, <1>2, <1>3, <2>2, GoDoes
    <3> QED
      BY <2>2, <3>1
  <2> QED
    BY <1>4, <2>1, <2>2
<1>6. /\ store' = w.got
      /\ suspect' = (suspect \/ ("straddled" \in mark[p] /\ w.cmd # "scan"))
      /\ UNCHANGED <<tree, file, grip, bad>>
  BY DEF Commit, Replaced
<1> HIDE DEF CommitMarks
<1> QED
  BY <1>3, <1>5, <1>6 DEF Stores, Keeps

LEMMA ReplaceDoes ==
    ASSUME Shape, NEW p \in Procs, Replace(p)
    PROVE  StillTyped /\ Stores(p)
<1>1. At(p, "replace") /\ Running(p) /\ Disturb(p) /\ Commit(p, work[p])
  BY DEF Replace, At
<1>2. work[p] \in Work /\ work[p].ok /\ work[p].got \in Snapshot
  BY <1>1, Held DEF At
<1> QED
  BY <1>1, <1>2, CommitDoes DEF Alike

LEMMA AskDoes ==
    ASSUME Shape, NEW p \in Procs, Ask(p)
    PROVE  StillTyped /\ (Quits(p) \/ Stores(p))
<1>1. At(p, "ask") /\ Running(p) /\ ~At(p, "fill") /\ Disturb(p) /\ ~At(p, "replace")
  BY DEF Ask, At
<1>2. work[p] \in Work /\ work[p].ok /\ work[p].got \in Snapshot
  BY <1>1, Held DEF At
<1>3. CASE Goto(p, <<>>, work[p], mark) /\ UNCHANGED <<disk, grip, spent, suspect, bad>>
  <2> DEFINE calls == <<>>
             w == work[p]
  <2>1. w.cmd = "lane" /\ w \in Work /\ Goto(p, calls, w, mark) /\ calls = <<>>
    BY <1>1, <1>2, <1>3, Follows
  <2> HIDE DEF calls, w
  <2>2. StillTyped /\ Ended(p, IF w.cmd = "scan" /\ w.ok THEN Passed ELSE Idle, mark)
    BY <2>1, GotoDoes, MarksTyped DEF StillTyped
  <2>3. Ended(p, Idle, mark)
    BY <2>1, <2>2
  <2>4. grip' = [grip EXCEPT ![p] = "closed"]
    BY <1>1, <1>3, Held
  <2> QED
    BY <1>1, <1>3, <2>2, <2>3, <2>4 DEF Quits
<1>4. CASE ~work[p].got.told /\ Commit(p, [work[p] EXCEPT !.got.told = TRUE])
  <2> DEFINE w == [work[p] EXCEPT !.got.told = TRUE]
  <2>1. /\ w \in Work /\ w.got \in Snapshot /\ w.cmd = work[p].cmd /\ w.ok
        /\ w.got.id = work[p].got.id /\ w.got.ents = work[p].got.ents
        /\ w.got.edges = work[p].got.edges /\ w.got.told
    BY <1>2, Told
  <2>2. Commit(p, w)
    BY <1>4
  <2> HIDE DEF w
  <2> QED
    BY <1>1, <2>1, <2>2, CommitDoes DEF Alike
<1> QED
  BY <1>3, <1>4 DEF Ask

LEMMA BuildDoes ==
    ASSUME Shape, NEW p \in Procs, Build(p)
    PROVE  StillTyped /\ Stores(p)
<1>1. At(p, "build") /\ Running(p) /\ Disturb(p) /\ ~At(p, "replace")
  BY DEF Build, At
<1>2. work[p] \in Work /\ work[p].ok /\ work[p].got \in Snapshot
  BY <1>1, Held DEF At
<1>3. CASE Commit(p, work[p])
  BY <1>1, <1>2, <1>3, CommitDoes DEF Alike
<1>4. ASSUME NEW s \in Says,
             LET r == [at |-> "file", by |-> "compiler", says |-> s, id |-> work[p].got.id]
             IN  Commit(p, [work[p] EXCEPT !.mine = {r},
                              !.got.notes = {n \in @ : n.by # "compiler"} \union {r}])
      PROVE  StillTyped /\ Stores(p)
  <2> DEFINE r == [at |-> "file", by |-> "compiler", says |-> s, id |-> work[p].got.id]
             w == [work[p] EXCEPT !.mine = {r},
                     !.got.notes = {n \in @ : n.by # "compiler"} \union {r}]
  <2>1. /\ w \in Work /\ w.got \in Snapshot /\ w.cmd = work[p].cmd /\ w.ok
        /\ w.got.id = work[p].got.id /\ w.got.ents = work[p].got.ents
        /\ w.got.edges = work[p].got.edges /\ w.got.told = work[p].got.told
    BY <1>2, Built
  <2>2. Commit(p, w)
    BY <1>4
  <2> HIDE DEF w
  <2> QED
    BY <1>1, <2>1, <2>2, CommitDoes DEF Alike
<1> QED
  BY <1>3, <1>4 DEF Build

(* atomic_write, step by step. *)
LEMMA CreateDoes ==
    ASSUME Shape, NEW p \in Procs, NEW t \in Target, Create(p, t)
    PROVE  StillTyped /\ Creates(p, t)
<1>1. AtFile(p, "create", t) /\ Running(p)
  BY DEF Create, AtFile
<1>2. Go(p, work[p], CreateMarks(p, t))
  BY DEF Create, CreateMarks
<1>3. Goes(p, <<"fill", t>>)
  BY <1>1, FileFollows DEF Target
<1>4. StillTyped /\ Went(p, <<"fill", t>>, work[p], CreateMarks(p, t))
  BY <1>1, <1>2, <1>3, Held, MarksTyped, GoDoes
<1> QED
  BY <1>1, <1>4 DEF Create, Creates

LEMMA FillDoes ==
    ASSUME Shape, NEW p \in Procs, NEW t \in Target, Fill(p, t)
    PROVE  StillTyped /\ Fills(p, t)
<1>1. AtFile(p, "fill", t) /\ Running(p) /\ work[p] \in Work /\ work[p].ok
  BY Held DEF Fill, AtFile
<1>2. Goes(p, <<"rename", t>>)
  BY <1>1, FileFollows DEF Target
<1>3. \A marks \in [Procs -> SUBSET Mark] :
        Go(p, work[p], marks) => StillTyped /\ Went(p, <<"rename", t>>, work[p], marks)
  BY <1>1, <1>2, GoDoes
<1>4. mark \in [Procs -> SUBSET Mark] /\ LogMoved(t) \in [Procs -> SUBSET Mark]
  BY MarksTyped
<1>5. \/ Go(p, work[p], mark)
      \/ Go(p, work[p], LogMoved(t))
  BY DEF Fill
<1>6. StillTyped
  BY <1>3, <1>4, <1>5
<1>7. \/ /\ grip[p] = "temp"
         /\ \E c \in Over(file[t].temp, Output(p, t)) : file' = [file EXCEPT ![t].temp = c]
         /\ Go(p, work[p], mark)
      \/ /\ grip[p] = "final"
         /\ \E c \in Over(file[t].final, Output(p, t)) : file' = [file EXCEPT ![t].final = c]
         /\ Go(p, work[p], LogMoved(t))
      \/ grip[p] = "gone" /\ UNCHANGED file /\ Go(p, work[p], mark)
  BY DEF Fill
<1>8. /\ grip' = [grip EXCEPT ![p] = "closed"] /\ Disturb(p)
      /\ UNCHANGED <<tree, store, suspect, bad>>
  BY DEF Fill
<1>9. Fills(p, t)
  BY <1>1, <1>3, <1>4, <1>7, <1>8 DEF Fills
<1> QED
  BY <1>6, <1>9

LEMMA RenameDoes ==
    ASSUME Shape, NEW p \in Procs, NEW t \in Target, Rename(p, t)
    PROVE  StillTyped /\ Renames(p, t)
<1>1. AtFile(p, "rename", t) /\ Running(p) /\ work[p] \in Work /\ work[p].ok
  BY Held DEF Rename, AtFile
<1>2. LogMoved(t) \in [Procs -> SUBSET Mark] /\ Go(p, work[p], LogMoved(t))
      /\ (t = "idx" => LogMoved(t) = mark)
  BY MarksTyped DEF Rename, LogMoved
<1>3. StillTyped
  BY <1>1, <1>2, GoDoes
<1>4. \/ t = "idx" /\ work[p].cmd = "compile" /\ Goes(p, <<"readLog", "log">>)
      \/ t = "log" /\ work[p].cmd = "evidence" /\ Goes(p, <<"replace", "store">>)
      \/ t = "idx" /\ work[p].cmd # "compile" /\ Last(p)
      \/ t = "log" /\ work[p].cmd = "compile" /\ Last(p)
  BY <1>1, FileFollows DEF Target
<1>5. \/ t = "idx" /\ work[p].cmd = "compile"
         /\ Went(p, <<"readLog", "log">>, work[p], mark)
      \/ t = "log" /\ work[p].cmd = "evidence"
         /\ Went(p, <<"replace", "store">>, work[p], LogMoved(t))
      \/ t = "idx" /\ work[p].cmd # "compile"
         /\ Ended(p, IF work[p].cmd = "scan" THEN Passed ELSE Idle, mark)
      \/ t = "log" /\ work[p].cmd = "compile" /\ Ended(p, Idle, LogMoved(t))
  <2>1. \A call : Goes(p, call) => Went(p, call, work[p], LogMoved(t))
    BY <1>1, <1>2, GoDoes
  <2>2. Last(p) => Ended(p, IF work[p].cmd = "scan" THEN Passed ELSE Idle, LogMoved(t))
    BY <1>1, <1>2, GoDoes
  <2>3. CASE t = "log" /\ work[p].cmd = "compile" /\ Last(p)
    BY <2>2, <2>3
  <2>4. CASE t = "idx" /\ work[p].cmd # "compile" /\ Last(p)
    BY <1>2, <2>2, <2>4
  <2>5. CASE t = "idx" /\ work[p].cmd = "compile" /\ Goes(p, <<"readLog", "log">>)
    BY <1>2, <2>1, <2>5
  <2>6. CASE t = "log" /\ work[p].cmd = "evidence" /\ Goes(p, <<"replace", "store">>)
    BY <2>1, <2>6
  <2> QED
    BY <1>4, <2>3, <2>4, <2>5, <2>6
<1>6. /\ file[t].temp # None
      /\ file' = [file EXCEPT ![t] = [final |-> file[t].temp, temp |-> None]]
      /\ grip' = [q \in Procs |->
                    IF ~AtFile(q, "fill", t) THEN grip[q]
                    ELSE IF grip[q] = "temp" THEN "final" ELSE "gone"]
      /\ bad' = IF "clashed" \in mark[p] THEN bad \union {t} ELSE bad \ {t}
      /\ Disturb(p) /\ UNCHANGED <<tree, store, suspect>>
  BY DEF Rename
<1>7. Renames(p, t)
  BY <1>1, <1>5, <1>6 DEF Renames
<1> QED
  BY <1>3, <1>7

LEMMA RenameFailsDoes ==
    ASSUME Shape, NEW p \in Procs, NEW t \in Target, RenameFails(p, t)
    PROVE  StillTyped /\ Quits(p)
<1>1. Running(p) /\ ~At(p, "fill")
  BY DEF RenameFails, AtFile, At
<1> QED
  BY <1>1, FailQuits DEF RenameFails

LEMMA KillDoes ==
    ASSUME Shape, NEW p \in Procs, Kill(p)
    PROVE  StillTyped /\ Quits(p)
<1>1. StillTyped /\ Ended(p, Idle, mark)
  BY FailDoes DEF Kill
<1> QED
  BY <1>1 DEF Kill, Quits

Step(p) ==
    \/ Starts(p) \/ Quits(p) \/ LoadsId(p) \/ LoadsEntities(p) \/ LoadsEdges(p)
    \/ StartsOver(p) \/ Indexes(p) \/ ReadsLog(p) \/ ReadsIdx(p) \/ Stores(p)
    \/ \E t \in Target : Creates(p, t) \/ Fills(p, t) \/ Renames(p, t)

LEMMA NextDoes ==
    ASSUME Shape, Next
    PROVE  StillTyped /\ (Edit \/ \E p \in Procs : Step(p))
<1>1. CASE Edit
  BY <1>1 DEF Edit, procs, Shape, StillTyped
<1>2. ASSUME NEW p \in Procs,
             \/ Begin(p) \/ Kill(p)
             \/ LoadId(p) \/ LoadEntities(p) \/ LoadEdges(p) \/ LoadFails(p)
      PROVE  StillTyped /\ Step(p)
  BY <1>2, BeginDoes, KillDoes, LoadIdDoes, LoadEntitiesDoes, LoadEdgesDoes, LoadFailsDoes DEF Step
<1>3. ASSUME NEW p \in Procs,
             \/ Index(p) \/ Ask(p) \/ Build(p) \/ ReadLog(p) \/ ReadIdx(p) \/ Replace(p)
      PROVE  StillTyped /\ Step(p)
  BY <1>3, IndexDoes, AskDoes, BuildDoes, ReadLogDoes, ReadIdxDoes, ReplaceDoes DEF Step
<1>4. ASSUME NEW p \in Procs, NEW t \in Target,
             Create(p, t) \/ Fill(p, t) \/ Rename(p, t) \/ RenameFails(p, t)
      PROVE  StillTyped /\ Step(p)
  BY <1>4, CreateDoes, FillDoes, RenameDoes, RenameFailsDoes DEF Step
<1> QED
  BY <1>1, <1>2, <1>3, <1>4 DEF Next

LEMMA SpentTyped ==
    ASSUME Shape, Next
    PROVE  spent' \in [commands : 0..MaxCommands, edits : 0..MaxEdits, faults : 0..MaxFaults]
<1>1. spent \in [commands : 0..MaxCommands, edits : 0..MaxEdits, faults : 0..MaxFaults]
  BY DEF Shape
<1>2. CASE UNCHANGED spent
  BY <1>1, <1>2
<1>3. CASE spent.edits < MaxEdits /\ spent' = [spent EXCEPT !.edits = @ + 1]
  BY <1>1, <1>3, BoundsAssumption
<1>4. CASE spent.faults < MaxFaults /\ spent' = [spent EXCEPT !.faults = @ + 1]
  BY <1>1, <1>4, BoundsAssumption
<1>5. CASE spent.commands < MaxCommands /\ spent' = [spent EXCEPT !.commands = @ + 1]
  BY <1>1, <1>5, BoundsAssumption
<1>6. CASE Edit
  BY <1>3, <1>6 DEF Edit
<1>7. ASSUME NEW p \in Procs,
             \/ Begin(p) \/ Kill(p)
             \/ LoadId(p) \/ LoadEntities(p) \/ LoadEdges(p) \/ LoadFails(p)
      PROVE  \/ spent.commands < MaxCommands /\ spent' = [spent EXCEPT !.commands = @ + 1]
             \/ spent.faults < MaxFaults /\ spent' = [spent EXCEPT !.faults = @ + 1]
             \/ UNCHANGED spent
  BY <1>7 DEF Begin, Kill, LoadId, LoadEntities, LoadEdges, LoadFails
<1>8. ASSUME NEW p \in Procs,
             \/ Index(p) \/ Ask(p) \/ Build(p) \/ ReadLog(p) \/ ReadIdx(p) \/ Replace(p)
             \/ \E t \in Target : Create(p, t) \/ Fill(p, t) \/ Rename(p, t) \/ RenameFails(p, t)
      PROVE  UNCHANGED spent
  BY <1>8 DEF Index, Ask, Build, ReadLog, ReadIdx, Replace, Commit, Create, Fill, Rename, RenameFails
<1> QED
  BY <1>2, <1>3, <1>4, <1>5, <1>6, <1>7, <1>8 DEF Next

-----------------------------------------------------------------------------
(* The shape of the state. *)
LEMMA OthersPlaced ==
    ASSUME Shape, NEW p \in Procs, NEW marks, OthersGo(p, marks),
           NEW q \in Procs \ {p}, ~Running(q) => marks[q] = {},
           grip'[q] = "closed" <=> grip[q] = "closed", store # None => store' # None
    PROVE  Placed(q)'
<1>1. Placed(q)
  BY DEF Shape
<1>2. todo'[q] = todo[q] /\ work'[q] = work[q] /\ mark'[q] = marks[q]
  BY DEF OthersGo
<1>3. /\ Running(q)' = Running(q)
      /\ \A call \in {"loadId", "readIdx", "index", "fill", "loadEntities", "loadEdges"} :
            At(q, call)' = At(q, call)
  BY <1>2 DEF Running, At
<1> QED
  BY <1>1, <1>2, <1>3 DEF Placed

LEMMA WentPlaced ==
    ASSUME NEW p \in Procs, NEW call, NEW w, NEW marks, Went(p, call, w, marks),
           w.cmd \in Cmd, w.ok,
           call[1] \notin {"loadId", "readIdx", "index"} => w.got \in Snapshot,
           call[1] \in {"loadEntities", "loadEdges"} => store' # None,
           grip'[p] # "closed" <=> call[1] = "fill"
    PROVE  Placed(p)'
<1>1. todo'[p] # <<>> /\ Head(todo'[p]) = call /\ Suffix(w.cmd, todo'[p]) /\ work'[p] = w
  BY DEF Went
<1>2. /\ Running(p)'
      /\ \A c : (Running(p)' /\ Head(todo'[p])[1] = c) <=> call[1] = c
  BY <1>1 DEF Running
<1> QED
  BY <1>1, <1>2 DEF Placed, At

LEMMA EndedPlaced ==
    ASSUME NEW p \in Procs, NEW w \in {Idle, Passed}, NEW marks, Ended(p, w, marks),
           grip'[p] = "closed"
    PROVE  Placed(p)'
BY DEF Ended, Placed, Running, At

LEMMA AtOnce ==
    ASSUME NEW p, NEW c, NEW d, At(p, c), c # d
    PROVE  ~At(p, d) /\ Running(p)
BY DEF At

LEMMA ReadsPlaced ==
    ASSUME Shape, NEW p \in Procs, ~At(p, "fill"), NEW call, NEW w, NEW marks,
           Reads(p, call, w, marks), \A q \in Procs \ {p} : marks[q] = mark[q],
           call[1] \notin {"loadId", "readIdx", "index"} => w.got \in Snapshot,
           call[1] \in {"loadEntities", "loadEdges"} => store # None,
           call[1] # "fill"
    PROVE  /\ \A q \in Procs : Placed(q)'
           /\ UNCHANGED <<disk, suspect, bad>> /\ grip' = grip /\ alone' \subseteq alone
<1>1. /\ Went(p, call, w, marks) /\ OthersGo(p, marks) /\ grip' = grip /\ store' = store
      /\ UNCHANGED <<disk, suspect, bad>> /\ alone' \subseteq alone
  BY DEF Reads, Went, disk, Disturb
<1>2. w.cmd \in Cmd /\ w.ok
  BY Held DEF Reads, Keeps
<1>3. Placed(p) /\ (~At(p, "fill") => grip[p] = "closed")
  BY DEF Shape, Placed
<1>4. Placed(p)'
  BY <1>1, <1>2, <1>3, WentPlaced
<1>5. ASSUME NEW q \in Procs \ {p} PROVE Placed(q)'
  <2>1. ~Running(q) => mark[q] = {}
    BY DEF Shape, Placed
  <2>2. ~Running(q) => marks[q] = {}
    BY <2>1
  <2> QED
    BY <1>1, <2>2, OthersPlaced
<1> QED
  BY <1>1, <1>4, <1>5

Looks(p) ==
    \/ Starts(p) \/ Quits(p) \/ LoadsId(p) \/ LoadsEntities(p) \/ LoadsEdges(p)
    \/ StartsOver(p) \/ Indexes(p) \/ ReadsLog(p) \/ ReadsIdx(p)

LEMMA LooksPlaced ==
    ASSUME Shape, NEW p \in Procs, Looks(p)
    PROVE  /\ \A q \in Procs : Placed(q)'
           /\ UNCHANGED <<disk, suspect, bad>>
           /\ grip' \in [Procs -> {"closed", "temp", "final", "gone"}]
           /\ alone' \subseteq Procs
<1> DEFINE Goal == /\ \A q \in Procs : Placed(q)'
                   /\ UNCHANGED <<disk, suspect, bad>>
                   /\ grip' \in [Procs -> {"closed", "temp", "final", "gone"}]
                   /\ alone' \subseteq Procs
<1>0. /\ grip \in [Procs -> {"closed", "temp", "final", "gone"}] /\ alone \subseteq Procs
      /\ \A q \in Procs : Placed(q) /\ (~Running(q) => mark[q] = {})
  BY DEF Shape, Placed
<1>1. CASE Starts(p)
  <2>1. PICK c \in Cmd, call \in {<<"loadId", "store">>, <<"readIdx", "idx">>} :
          Went(p, call, [Idle EXCEPT !.cmd = c, !.ok = TRUE], mark)
    BY <1>1 DEF Starts
  <2> DEFINE w == [Idle EXCEPT !.cmd = c, !.ok = TRUE]
  <2>2. /\ w.cmd \in Cmd /\ w.ok /\ call[1] \in {"loadId", "readIdx"} /\ OthersGo(p, mark)
        /\ Went(p, call, w, mark)
    BY <2>1 DEF Idle, Went
  <2> HIDE DEF w
  <2>3. grip[p] = "closed"
    BY <1>0, <1>1 DEF Starts, Placed, At
  <2>4. grip' = grip /\ store' = store /\ UNCHANGED <<disk, suspect, bad>> /\ alone' \subseteq Procs
    BY <1>1 DEF Starts, disk
  <2>5. Placed(p)'
    BY <2>2, <2>3, <2>4, WentPlaced
  <2>6. ASSUME NEW q \in Procs \ {p} PROVE Placed(q)'
    BY <1>0, <2>2, <2>4, OthersPlaced
  <2> QED
    BY <1>0, <2>4, <2>5, <2>6
<1>2. CASE Quits(p)
  <2>1. /\ Ended(p, Idle, mark) /\ OthersGo(p, mark) /\ grip' = [grip EXCEPT ![p] = "closed"]
        /\ UNCHANGED <<disk, suspect, bad>> /\ store' = store /\ alone' \subseteq Procs
    BY <1>0, <1>2 DEF Quits, Ended, Disturb, disk
  <2>2. Placed(p)'
    BY <1>0, <2>1, EndedPlaced
  <2>3. ASSUME NEW q \in Procs \ {p} PROVE Placed(q)'
    BY <1>0, <2>1, OthersPlaced
  <2> QED
    BY <1>0, <2>1, <2>2, <2>3
<1>3. CASE LoadsId(p)
  <2>1. PICK w \in Work : w.got = store /\ Reads(p, <<"loadEntities", "store">>, w, mark)
    BY <1>3 DEF LoadsId
  <2>2. ~At(p, "fill") /\ store \in Snapshot /\ store # None
    BY <1>3, AtOnce, Kinds DEF LoadsId
  <2> QED
    BY <1>0, <2>1, <2>2, ReadsPlaced
<1>4. CASE LoadsEntities(p)
  <2>1. PICK w \in Work :
          w.got \in Snapshot /\ Reads(p, <<"loadEdges", "store">>, w, Marked({p}, "fresh"))
    BY <1>4 DEF LoadsEntities
  <2>2. ~At(p, "fill") /\ store \in Snapshot /\ store # None
    BY <1>4, AtOnce, Kinds DEF LoadsEntities
  <2> DEFINE call == <<"loadEdges", "store">>
             marks == Marked({p}, "fresh")
  <2>3. /\ \A q \in Procs \ {p} : marks[q] = mark[q]
        /\ call[1] \notin {"loadId", "readIdx", "index", "fill"}
        /\ Reads(p, call, w, marks)
    BY <2>1 DEF Marked
  <2> HIDE DEF call, marks
  <2>4. /\ \A q \in Procs : Placed(q)'
        /\ UNCHANGED <<disk, suspect, bad>> /\ grip' = grip /\ alone' \subseteq alone
    BY <2>1, <2>2, <2>3, ReadsPlaced
  <2> QED
    BY <1>0, <2>4
<1>5. CASE LoadsEdges(p)
  <2>1. PICK w \in Work, call \in {<<"index", "tree">>, <<"ask", "store">>,
                                   <<"readLog", "log">>, <<"build", "store">>} :
          w.got \in Snapshot /\ Reads(p, call, w, mark)
    BY <1>5 DEF LoadsEdges
  <2>2. ~At(p, "fill")
    BY <1>5, AtOnce DEF LoadsEdges
  <2>3. call[1] \notin {"loadId", "readIdx", "loadEntities", "loadEdges", "fill"}
    OBVIOUS
  <2>4. /\ \A q \in Procs : Placed(q)'
        /\ UNCHANGED <<disk, suspect, bad>> /\ grip' = grip /\ alone' \subseteq alone
    BY <2>1, <2>2, <2>3, ReadsPlaced
  <2> QED
    BY <1>0, <2>4
<1>6. CASE StartsOver(p)
  <2> DEFINE marks == [mark EXCEPT ![p] = {}]
  <2>1. PICK w \in Work : w.got = None /\ Reads(p, <<"index", "tree">>, w, marks)
    BY <1>6 DEF StartsOver
  <2>2. ~At(p, "fill")
    BY <1>6, AtOnce DEF StartsOver, Loading
  <2>3. \A q \in Procs \ {p} : marks[q] = mark[q]
    BY DEF Shape
  <2> HIDE DEF marks
  <2> QED
    BY <1>0, <2>1, <2>2, <2>3, ReadsPlaced
<1>7. CASE Indexes(p)
  <2>1. PICK w \in Work : w.got \in Snapshot /\ Reads(p, <<"replace", "store">>, w, mark)
    BY <1>7 DEF Indexes
  <2>2. ~At(p, "fill")
    BY <1>7, AtOnce DEF Indexes
  <2> QED
    BY <1>0, <2>1, <2>2, ReadsPlaced
<1>8. CASE ReadsLog(p)
  <2>1. PICK w \in Work :
          w.got \in Snapshot /\ Reads(p, <<"create", "log">>, w, Marked({p}, "logFresh"))
    BY <1>8 DEF ReadsLog
  <2>2. ~At(p, "fill")
    BY <1>8, AtOnce DEF ReadsLog
  <2>3. \A q \in Procs \ {p} : Marked({p}, "logFresh")[q] = mark[q]
    BY DEF Marked
  <2> QED
    BY <1>0, <2>1, <2>2, <2>3, ReadsPlaced
<1>9. CASE ReadsIdx(p)
  <2>1. PICK w \in Work : w.got \in Snapshot /\ Reads(p, <<"replace", "store">>, w, mark)
    BY <1>9 DEF ReadsIdx
  <2>2. ~At(p, "fill")
    BY <1>9, AtOnce DEF ReadsIdx
  <2> QED
    BY <1>0, <2>1, <2>2, ReadsPlaced
<1> QED
  BY <1>1, <1>2, <1>3, <1>4, <1>5, <1>6, <1>7, <1>8, <1>9 DEF Looks

(* What is written into a file is what belongs there. *)
LEMMA FileWritten ==
    ASSUME FilesTyped, NEW t \in Target, NEW c \in Fit(t), NEW d \in Fit(t),
           file' = [file EXCEPT ![t] = [final |-> c, temp |-> d]]
    PROVE  /\ FilesTyped' /\ file'[t].final = c /\ file'[t].temp = d
           /\ \A u \in Target \ {t} : file'[u] = file[u]
<1>1. Fit(t) \subseteq Content
  BY ContentsTyped DEF Fit
<1>2. file' = [u \in Target |-> IF u = t THEN [final |-> c, temp |-> d] ELSE file[u]]
  BY DEF FilesTyped
<1>3. c \in Content /\ d \in Content
  BY <1>1
<1> QED
  BY <1>2, <1>3 DEF FilesTyped

LEMMA PartsWritten ==
    ASSUME FilesTyped, NEW t \in Target, NEW c
    PROVE  /\ file[t].final \in Fit(t) /\ file[t].temp \in Fit(t)
           /\ [file EXCEPT ![t].temp = c] = [file EXCEPT ![t] = [final |-> file[t].final, temp |-> c]]
           /\ [file EXCEPT ![t].final = c] = [file EXCEPT ![t] = [final |-> c, temp |-> file[t].temp]]
<1> DEFINE r == file[t]
           F == Fit(t)
<1>1. r \in [final : F, temp : F]
  BY DEF FilesTyped
<1> HIDE DEF r, F
<1>2. r.final \in F /\ r.temp \in F
  BY <1>1
<1>3. [r EXCEPT !.temp = c] = [final |-> r.final, temp |-> c]
  BY <1>1
<1>4. [r EXCEPT !.final = c] = [final |-> c, temp |-> r.temp]
  BY <1>1
<1>5. /\ [file EXCEPT ![t].temp = c] = [file EXCEPT ![t] = [r EXCEPT !.temp = c]]
      /\ [file EXCEPT ![t].final = c] = [file EXCEPT ![t] = [r EXCEPT !.final = c]]
  BY DEF r
<1> QED
  BY <1>2, <1>3, <1>4, <1>5, Zenon DEF r, F

LEMMA OutputTyped ==
    ASSUME Shape, NEW p \in Procs, NEW t \in Target,
           AtFile(p, "create", t) \/ AtFile(p, "fill", t) \/ AtFile(p, "rename", t)
    PROVE  /\ Output(p, t) \in Fit(t) /\ Blank \in Fit(t) /\ None \in Fit(t) /\ Garbled \in Fit(t)
           /\ Running(p) /\ work[p] \in Work /\ work[p].got \in Snapshot
           /\ work[p].cmd \in Cmd /\ work[p].ok
           /\ Output(p, t) \notin Unreadable /\ Output(p, t) # None
<1>1. Running(p) /\ ~At(p, "loadId") /\ ~At(p, "readIdx") /\ ~At(p, "index")
  BY DEF AtFile, At
<1>2. work[p] \in Work /\ work[p].got \in Snapshot /\ work[p].log \subseteq Record
      /\ work[p].cmd \in Cmd /\ work[p].ok
  BY <1>1, Held DEF Work
<1>3. CASE t = "idx"
  BY <1>1, <1>2, <1>3, ContentsTyped, Kinds DEF Output, Fit
<1>4. CASE t = "log"
  BY <1>1, <1>2, <1>4, ContentsTyped, Kinds DEF Output, Fit
<1> QED
  BY <1>3, <1>4 DEF Target

LEMMA AtFileIsAt == \A p, c, t : AtFile(p, c, t) => At(p, c) /\ Running(p)
BY DEF AtFile, At

(* Everything but the disk. *)
LEMMA ShapeFrom ==
    ASSUME Shape, StillTyped, Next, tree' \in Trees, store' \in Snapshot \union {None}, FilesTyped',
           grip' \in [Procs -> {"closed", "temp", "final", "gone"}], suspect' \in BOOLEAN,
           bad' \subseteq Target, alone' \subseteq Procs, \A p \in Procs : Placed(p)'
    PROVE  Shape'
BY SpentTyped DEF Shape, StillTyped

LEMMA LooksShape ==
    ASSUME Shape, StillTyped, Next, NEW p \in Procs, Looks(p)
    PROVE  Shape'
<1>1. /\ \A q \in Procs : Placed(q)'
      /\ tree' = tree /\ store' = store /\ file' = file /\ suspect' = suspect /\ bad' = bad
      /\ grip' \in [Procs -> {"closed", "temp", "final", "gone"}]
      /\ alone' \subseteq Procs
  BY LooksPlaced DEF disk
<1>2. FilesTyped'
  BY <1>1 DEF Shape, FilesTyped
<1>3. tree \in Trees /\ store \in Snapshot \union {None} /\ suspect \in BOOLEAN /\ bad \subseteq Target
  BY DEF Shape
<1> QED
  BY <1>1, <1>2, <1>3, ShapeFrom

LEMMA StoresShape ==
    ASSUME Shape, StillTyped, Next, NEW p \in Procs, Stores(p)
    PROVE  Shape'
<1>1. PICK w \in Work :
        /\ Keeps(p, w) /\ w.got \in Snapshot /\ store' = w.got
        /\ suspect' = (suspect \/ ("straddled" \in mark[p] /\ w.cmd # "scan"))
        /\ \/ Went(p, <<"create", "idx">>, w, CommitMarks)
           \/ Ended(p, Idle, CommitMarks)
  BY DEF Stores
<1>2. tree' = tree /\ file' = file /\ grip' = grip /\ bad' = bad /\ alone' \subseteq alone
  BY DEF Stores, Disturb
<1>3. Running(p) /\ ~At(p, "fill") /\ ~At(p, "loadEntities") /\ ~At(p, "loadEdges")
  BY AtOnce DEF Stores
<1>4. w.cmd \in Cmd /\ w.ok /\ OthersGo(p, CommitMarks) /\ store' # None
  BY <1>1, <1>3, Held, Kinds DEF Keeps, Went, Ended
<1>5. \A q \in Procs : Placed(q) /\ (~Running(q) => mark[q] = {}) /\ (~At(q, "fill") => grip[q] = "closed")
  BY DEF Shape, Placed
<1>6. Placed(p)'
  <2>1. CASE Went(p, <<"create", "idx">>, w, CommitMarks)
    BY <1>1, <1>2, <1>3, <1>4, <1>5, <2>1, WentPlaced
  <2>2. CASE Ended(p, Idle, CommitMarks)
    BY <1>2, <1>3, <1>5, <2>2, EndedPlaced
  <2> QED
    BY <1>1, <2>1, <2>2
<1>7. ASSUME NEW q \in Procs \ {p} PROVE Placed(q)'
  <2>1. ~Running(q) => CommitMarks[q] = {}
    BY <1>5 DEF CommitMarks, At
  <2> QED
    BY <1>2, <1>4, <2>1, OthersPlaced
<1>8. FilesTyped'
  BY <1>2 DEF Shape, FilesTyped
<1>9. /\ tree \in Trees /\ suspect \in BOOLEAN /\ bad \subseteq Target /\ alone \subseteq Procs
      /\ grip \in [Procs -> {"closed", "temp", "final", "gone"}]
  BY DEF Shape
<1>10. suspect' \in BOOLEAN
  BY <1>1
<1> QED
  BY <1>1, <1>2, <1>6, <1>7, <1>8, <1>9, <1>10, ShapeFrom

LEMMA CreatesShape ==
    ASSUME Shape, StillTyped, Next, NEW p \in Procs, NEW t \in Target, Creates(p, t)
    PROVE  Shape'
<1> DEFINE marks == CreateMarks(p, t)
<1>1. /\ AtFile(p, "create", t) /\ Went(p, <<"fill", t>>, work[p], marks) /\ OthersGo(p, marks)
      /\ file' = [file EXCEPT ![t].temp = Blank] /\ grip' = [grip EXCEPT ![p] = "temp"]
      /\ tree' = tree /\ store' = store /\ suspect' = suspect /\ bad' = bad /\ alone' \subseteq alone
  BY DEF Creates, Went, Disturb
<1>2. ASSUME NEW q \in Procs \ {p}, ~Running(q) PROVE marks[q] = {}
  <2>1. ~Writing(q, t) /\ mark[q] = {}
    BY <1>2 DEF Writing, AtFile, Shape, Placed
  <2> QED
    BY <2>1 DEF CreateMarks, Marked, Unmarked
<1> HIDE DEF marks
<1>3. /\ grip' \in [Procs -> {"closed", "temp", "final", "gone"}] /\ grip'[p] = "temp"
      /\ \A q \in Procs \ {p} : grip'[q] = grip[q]
  BY <1>1 DEF Shape
<1>4. /\ work[p].got \in Snapshot /\ work[p].cmd \in Cmd /\ work[p].ok /\ Blank \in Fit(t)
  BY <1>1, OutputTyped
<1>5. Placed(p)'
  BY <1>1, <1>3, <1>4, WentPlaced
<1>6. ASSUME NEW q \in Procs \ {p} PROVE Placed(q)'
  BY <1>1, <1>2, <1>3, OthersPlaced
<1>7. FilesTyped'
  BY <1>1, <1>4, FileWritten, PartsWritten DEF Shape
<1>8. tree \in Trees /\ suspect \in BOOLEAN /\ bad \subseteq Target /\ alone \subseteq Procs
      /\ store \in Snapshot \union {None}
  BY DEF Shape
<1> QED
  BY <1>1, <1>3, <1>5, <1>6, <1>7, <1>8, ShapeFrom

(* What a fill leaves in the files. *)
FillMarks(p, t) == IF grip[p] = "final" THEN LogMoved(t) ELSE mark

LEMMA FillLeaves ==
    ASSUME Shape, NEW p \in Procs, NEW t \in Target, Fills(p, t)
    PROVE  /\ AtFile(p, "fill", t) /\ Went(p, <<"rename", t>>, work[p], FillMarks(p, t))
           /\ OthersGo(p, FillMarks(p, t)) /\ FilesTyped'
           /\ \A u \in Target \ {t} : file'[u] = file[u]
           /\ grip[p] = "temp" =>
                file'[t].final = file[t].final /\ file'[t].temp \in Over(file[t].temp, Output(p, t))
           /\ grip[p] = "final" =>
                file'[t].temp = file[t].temp /\ file'[t].final \in Over(file[t].final, Output(p, t))
           /\ grip[p] = "gone" => file'[t] = file[t]
           /\ grip[p] \in {"temp", "final", "gone"}
           /\ grip'[p] = "closed" /\ \A q \in Procs \ {p} : grip'[q] = grip[q]
           /\ grip' \in [Procs -> {"closed", "temp", "final", "gone"}]
           /\ tree' = tree /\ store' = store /\ suspect' = suspect /\ bad' = bad
           /\ alone' \subseteq alone
<1>1. /\ AtFile(p, "fill", t) /\ grip' = [grip EXCEPT ![p] = "closed"]
      /\ tree' = tree /\ store' = store /\ suspect' = suspect /\ bad' = bad /\ alone' \subseteq alone
  BY DEF Fills, Disturb
<1>2. /\ grip' \in [Procs -> {"closed", "temp", "final", "gone"}] /\ grip'[p] = "closed"
      /\ \A q \in Procs \ {p} : grip'[q] = grip[q]
  BY <1>1 DEF Shape
<1>3. Output(p, t) \in Fit(t) /\ Garbled \in Fit(t) /\ FilesTyped
  BY <1>1, OutputTyped DEF Shape
<1>4. CASE grip[p] = "temp"
  <2>1. PICK c \in Over(file[t].temp, Output(p, t)) : file' = [file EXCEPT ![t].temp = c]
    BY <1>4 DEF Fills
  <2>2. c \in Fit(t)
    BY <1>3 DEF Over
  <2>3. FilesTyped' /\ file'[t].final = file[t].final /\ file'[t].temp = c
        /\ \A u \in Target \ {t} : file'[u] = file[u]
    <3>1. /\ file[t].final \in Fit(t) /\ file[t].temp \in Fit(t)
          /\ file' = [file EXCEPT ![t] = [final |-> file[t].final, temp |-> c]]
      BY <1>3, <2>1, PartsWritten
    <3> QED
      BY <1>3, <2>2, <3>1, FileWritten
  <2>4. Went(p, <<"rename", t>>, work[p], mark)
    BY <1>4 DEF Fills
  <2> QED
    BY <1>1, <1>2, <1>4, <2>3, <2>4 DEF FillMarks, Went
<1>5. CASE grip[p] = "final"
  <2>1. PICK c \in Over(file[t].final, Output(p, t)) : file' = [file EXCEPT ![t].final = c]
    BY <1>5 DEF Fills
  <2>2. c \in Fit(t)
    BY <1>3 DEF Over
  <2>3. FilesTyped' /\ file'[t].temp = file[t].temp /\ file'[t].final = c
        /\ \A u \in Target \ {t} : file'[u] = file[u]
    <3>1. /\ file[t].final \in Fit(t) /\ file[t].temp \in Fit(t)
          /\ file' = [file EXCEPT ![t] = [final |-> c, temp |-> file[t].temp]]
      BY <1>3, <2>1, PartsWritten
    <3> QED
      BY <1>3, <2>2, <3>1, FileWritten
  <2>4. Went(p, <<"rename", t>>, work[p], LogMoved(t))
    BY <1>5 DEF Fills
  <2> QED
    BY <1>1, <1>2, <1>5, <2>3, <2>4 DEF FillMarks, Went
<1>6. CASE grip[p] = "gone"
  <2>1. file' = file /\ Went(p, <<"rename", t>>, work[p], mark)
    BY <1>6 DEF Fills
  <2>2. FilesTyped'
    BY <1>3, <2>1 DEF FilesTyped
  <2> QED
    BY <1>1, <1>2, <1>6, <2>1, <2>2 DEF FillMarks, Went
<1> QED
  BY <1>4, <1>5, <1>6 DEF Fills

LEMMA FillsShape ==
    ASSUME Shape, StillTyped, Next, NEW p \in Procs, NEW t \in Target, Fills(p, t)
    PROVE  Shape'
<1> DEFINE marks == FillMarks(p, t)
<1>1. /\ AtFile(p, "fill", t) /\ Went(p, <<"rename", t>>, work[p], marks) /\ OthersGo(p, marks)
      /\ FilesTyped'
  BY FillLeaves
<1>2. /\ tree' = tree /\ store' = store /\ suspect' = suspect /\ bad' = bad /\ alone' \subseteq alone
      /\ grip' \in [Procs -> {"closed", "temp", "final", "gone"}] /\ grip'[p] = "closed"
      /\ \A q \in Procs \ {p} : grip'[q] = grip[q]
  BY FillLeaves
<1>3. \A q \in Procs : ~Running(q) => marks[q] = {}
  BY DEF FillMarks, LogMoved, Unmarked, Shape, Placed
<1> HIDE DEF marks
<1>4. work[p].got \in Snapshot /\ work[p].cmd \in Cmd /\ work[p].ok
  BY <1>1, OutputTyped
<1>5. Placed(p)'
  BY <1>1, <1>2, <1>4, WentPlaced
<1>6. ASSUME NEW q \in Procs \ {p} PROVE Placed(q)'
  BY <1>1, <1>2, <1>3, OthersPlaced
<1>7. tree \in Trees /\ suspect \in BOOLEAN /\ bad \subseteq Target /\ alone \subseteq Procs
      /\ store \in Snapshot \union {None}
  BY DEF Shape
<1> QED
  BY <1>1, <1>2, <1>5, <1>6, <1>7, ShapeFrom

(* What a rename leaves. *)
RenameMarks(p, t) == LogMoved(t)

LEMMA RenameLeaves ==
    ASSUME Shape, NEW p \in Procs, NEW t \in Target, Renames(p, t)
    PROVE  /\ AtFile(p, "rename", t) /\ file[t].temp # None
           /\ \/ t = "idx" /\ work[p].cmd = "compile"
                 /\ Went(p, <<"readLog", "log">>, work[p], RenameMarks(p, t))
              \/ t = "log" /\ work[p].cmd = "evidence"
                 /\ Went(p, <<"replace", "store">>, work[p], RenameMarks(p, t))
              \/ t = "idx" /\ work[p].cmd = "scan" /\ Ended(p, Passed, RenameMarks(p, t))
              \/ work[p].cmd # "scan" /\ Ended(p, Idle, RenameMarks(p, t))
           /\ OthersGo(p, RenameMarks(p, t)) /\ FilesTyped'
           /\ \A u \in Target \ {t} : file'[u] = file[u]
           /\ file'[t].final = file[t].temp /\ file'[t].temp = None
           /\ file'[t] = [final |-> file[t].temp, temp |-> None]
           /\ grip'[p] = "closed" /\ grip[p] = "closed"
           /\ \A q \in Procs : grip'[q] = IF ~AtFile(q, "fill", t) THEN grip[q]
                                          ELSE IF grip[q] = "temp" THEN "final" ELSE "gone"
           /\ \A q \in Procs : grip'[q] = "closed" <=> grip[q] = "closed"
           /\ grip' \in [Procs -> {"closed", "temp", "final", "gone"}]
           /\ bad' = IF "clashed" \in mark[p] THEN bad \union {t} ELSE bad \ {t}
           /\ tree' = tree /\ store' = store /\ suspect' = suspect /\ alone' \subseteq alone
<1>1. /\ AtFile(p, "rename", t) /\ file[t].temp # None
      /\ file' = [file EXCEPT ![t] = [final |-> file[t].temp, temp |-> None]]
      /\ grip' = [q \in Procs |->
                    IF ~AtFile(q, "fill", t) THEN grip[q]
                    ELSE IF grip[q] = "temp" THEN "final" ELSE "gone"]
      /\ bad' = IF "clashed" \in mark[p] THEN bad \union {t} ELSE bad \ {t}
      /\ tree' = tree /\ store' = store /\ suspect' = suspect /\ alone' \subseteq alone
  BY DEF Renames, Disturb
<1>2. /\ FilesTyped' /\ file'[t].final = file[t].temp /\ file'[t].temp = None
      /\ \A u \in Target \ {t} : file'[u] = file[u]
  <2>1. file[t].temp \in Fit(t) /\ None \in Fit(t) /\ FilesTyped
    BY <1>1, OutputTyped, PartsWritten DEF Shape
  <2> QED
    BY <1>1, <2>1, FileWritten
<1>3. file'[t] = [final |-> file[t].temp, temp |-> None]
  BY <1>1 DEF Shape, FilesTyped
<1>4. ~AtFile(p, "fill", t) /\ ~At(p, "fill")
  BY <1>1 DEF AtFile, At
<1>5. \A q \in Procs : AtFile(q, "fill", t) => At(q, "fill")
  BY AtFileIsAt
<1>6. /\ grip \in [Procs -> {"closed", "temp", "final", "gone"}]
      /\ \A q \in Procs : grip[q] # "closed" <=> At(q, "fill")
  BY DEF Shape, Placed
<1>7. /\ grip'[p] = "closed" /\ grip[p] = "closed"
      /\ \A q \in Procs : grip'[q] = IF ~AtFile(q, "fill", t) THEN grip[q]
                                     ELSE IF grip[q] = "temp" THEN "final" ELSE "gone"
  BY <1>1, <1>4, <1>6
<1>8. \A q \in Procs : grip'[q] = "closed" <=> grip[q] = "closed"
  BY <1>5, <1>6, <1>7
<1>9. grip' \in [Procs -> {"closed", "temp", "final", "gone"}]
  BY <1>1, <1>6
<1>10. t = "idx" => LogMoved(t) = mark
  BY DEF LogMoved
<1>11. /\ \/ t = "idx" /\ work[p].cmd = "compile"
             /\ Went(p, <<"readLog", "log">>, work[p], RenameMarks(p, t))
          \/ t = "log" /\ work[p].cmd = "evidence"
             /\ Went(p, <<"replace", "store">>, work[p], RenameMarks(p, t))
          \/ t = "idx" /\ work[p].cmd = "scan" /\ Ended(p, Passed, RenameMarks(p, t))
          \/ work[p].cmd # "scan" /\ Ended(p, Idle, RenameMarks(p, t))
  <2>1. CASE t = "idx" /\ work[p].cmd = "compile"
             /\ Went(p, <<"readLog", "log">>, work[p], mark)
    BY <1>10, <2>1 DEF RenameMarks
  <2>2. CASE t = "log" /\ work[p].cmd = "evidence"
             /\ Went(p, <<"replace", "store">>, work[p], LogMoved(t))
    BY <2>2 DEF RenameMarks
  <2>3. CASE t = "idx" /\ work[p].cmd # "compile"
             /\ Ended(p, IF work[p].cmd = "scan" THEN Passed ELSE Idle, mark)
    <3>1. CASE work[p].cmd = "scan"
      BY <1>10, <2>3, <3>1 DEF RenameMarks
    <3>2. CASE work[p].cmd # "scan"
      BY <1>10, <2>3, <3>2 DEF RenameMarks
    <3> QED
      BY <3>1, <3>2
  <2>4. CASE t = "log" /\ work[p].cmd = "compile" /\ Ended(p, Idle, LogMoved(t))
    BY <2>4 DEF RenameMarks
  <2> QED
    BY <2>1, <2>2, <2>3, <2>4 DEF Renames
<1>12. OthersGo(p, RenameMarks(p, t))
  BY <1>11 DEF Went, Ended
<1> QED
  BY <1>1, <1>2, <1>3, <1>7, <1>8, <1>9, <1>11, <1>12

LEMMA RenamesShape ==
    ASSUME Shape, StillTyped, Next, NEW p \in Procs, NEW t \in Target, Renames(p, t)
    PROVE  Shape'
<1> DEFINE marks == RenameMarks(p, t)
<1>1. /\ AtFile(p, "rename", t) /\ OthersGo(p, marks) /\ FilesTyped'
      /\ grip'[p] = "closed" /\ \A q \in Procs : grip'[q] = "closed" <=> grip[q] = "closed"
      /\ grip' \in [Procs -> {"closed", "temp", "final", "gone"}]
      /\ bad' = IF "clashed" \in mark[p] THEN bad \union {t} ELSE bad \ {t}
      /\ tree' = tree /\ store' = store /\ suspect' = suspect /\ alone' \subseteq alone
  BY RenameLeaves
<1>2. \/ Went(p, <<"readLog", "log">>, work[p], marks)
      \/ Went(p, <<"replace", "store">>, work[p], marks)
      \/ Ended(p, Passed, marks)
      \/ Ended(p, Idle, marks)
  BY RenameLeaves
<1>3. \A q \in Procs : ~Running(q) => marks[q] = {}
  BY DEF RenameMarks, LogMoved, Unmarked, Shape, Placed
<1> HIDE DEF marks
<1>4. work[p].got \in Snapshot /\ work[p].cmd \in Cmd /\ work[p].ok
  BY <1>1, OutputTyped
<1>5. Placed(p)'
  <2>1. CASE Went(p, <<"readLog", "log">>, work[p], marks)
    BY <1>1, <1>4, <2>1, WentPlaced
  <2>2. CASE Went(p, <<"replace", "store">>, work[p], marks)
    BY <1>1, <1>4, <2>2, WentPlaced
  <2>3. CASE Ended(p, Passed, marks) \/ Ended(p, Idle, marks)
    BY <1>1, <2>3, EndedPlaced
  <2> QED
    BY <1>2, <2>1, <2>2, <2>3
<1>6. ASSUME NEW q \in Procs \ {p} PROVE Placed(q)'
  BY <1>1, <1>3, OthersPlaced
<1>7. tree \in Trees /\ suspect \in BOOLEAN /\ bad \subseteq Target /\ alone \subseteq Procs
      /\ store \in Snapshot \union {None}
  BY DEF Shape
<1>8. bad' \subseteq Target
  BY <1>1, <1>7
<1> QED
  BY <1>1, <1>5, <1>6, <1>7, <1>8, ShapeFrom

LEMMA EditShape ==
    ASSUME Shape, StillTyped, Next, Edit
    PROVE  Shape'
<1>1. /\ tree' \in Trees /\ store' = store /\ file' = file /\ todo' = todo /\ work' = work
      /\ grip' = grip /\ mark' = mark /\ suspect' = suspect /\ bad' = bad /\ alone' = {}
  BY DEF Edit, procs
<1>2. FilesTyped'
  BY <1>1 DEF Shape, FilesTyped
<1>3. ASSUME NEW p \in Procs PROVE Placed(p)'
  BY <1>1 DEF Shape, Placed, Running, At
<1>4. /\ suspect \in BOOLEAN /\ bad \subseteq Target /\ store \in Snapshot \union {None}
      /\ grip \in [Procs -> {"closed", "temp", "final", "gone"}]
  BY DEF Shape
<1> QED
  BY <1>1, <1>2, <1>3, <1>4, ShapeFrom

LEMMA ShapeInit ==
    ASSUME Init
    PROVE  Shape
<1>1. /\ tree \in Trees /\ todo = [p \in Procs |-> <<>>] /\ work = [p \in Procs |-> Idle]
      /\ grip = [p \in Procs |-> "closed"] /\ alone = {} /\ mark = [p \in Procs |-> {}]
      /\ suspect = FALSE /\ bad = {}
  BY DEF Init
<1>2. store \in Snapshot \union {None}
  <2>1. store \in {None} \union
          {[id |-> tree, ents |-> tree, edges |-> tree, notes |-> {}, told |-> FALSE]}
    BY DEF Init
  <2>2. CASE store = [id |-> tree, ents |-> tree, edges |-> tree, notes |-> {}, told |-> FALSE]
    BY <1>1, <2>2 DEF Snapshot
  <2> QED
    BY <2>1, <2>2
<1>3. FilesTyped
  <2>1. file = [t \in Target |-> [final |-> IF t = "idx" THEN store ELSE None, temp |-> None]]
    BY DEF Init
  <2>2. \A t \in Target : Fit(t) \subseteq Content /\ None \in Fit(t)
    BY ContentsTyped DEF Fit
  <2>3. store \in Fit("idx")
    BY <1>2, ContentsTyped DEF Fit
  <2>4. ASSUME NEW t \in Target
        PROVE  /\ (IF t = "idx" THEN store ELSE None) \in Fit(t)
               /\ (IF t = "idx" THEN store ELSE None) \in Content
    BY <2>2, <2>3
  <2>5. \A t \in Target : file[t] = [final |-> IF t = "idx" THEN store ELSE None, temp |-> None]
    BY <2>1
  <2>6. ASSUME NEW t \in Target
        PROVE  file[t] \in [final : Fit(t), temp : Fit(t)] /\ file[t] \in [final : Content, temp : Content]
    <3> DEFINE s == IF t = "idx" THEN store ELSE None
    <3>1. s \in Fit(t) /\ s \in Content /\ None \in Fit(t) /\ None \in Content
      BY <2>2, <2>4
    <3>2. file[t] = [final |-> s, temp |-> None]
      BY <2>5
    <3> HIDE DEF s
    <3> QED
      BY <3>1, <3>2
  <2>7. \A t \in Target : file[t] \in [final : Content, temp : Content]
    BY <2>6
  <2>8. file \in [Target -> [final : Content, temp : Content]]
    BY <2>1, <2>7
  <2> QED
    BY <2>6, <2>8 DEF FilesTyped
<1>4. Idle \in Work
  BY DEF Idle, Work
<1>5. spent \in [commands : 0..MaxCommands, edits : 0..MaxEdits, faults : 0..MaxFaults]
  BY BoundsAssumption DEF Init
<1>6. \A p \in Procs : Placed(p)
  BY <1>1 DEF Placed, Running, At
<1>7. /\ todo = [p \in Procs |-> todo[p]] /\ work \in [Procs -> Work]
      /\ grip \in [Procs -> {"closed", "temp", "final", "gone"}]
      /\ mark \in [Procs -> SUBSET Mark]
  BY <1>1, <1>4
<1> QED
  BY <1>1, <1>2, <1>3, <1>5, <1>6, <1>7 DEF Shape

LEMMA ShapeNext ==
    ASSUME Shape, [Next]_vars
    PROVE  Shape'
<1>1. CASE Next
  <2>1. StillTyped /\ (Edit \/ \E p \in Procs : Step(p))
    BY <1>1, NextDoes
  <2>2. CASE Edit
    BY <1>1, <2>1, <2>2, EditShape
  <2>3. ASSUME NEW p \in Procs, Step(p) PROVE Shape'
    <3>1. CASE Looks(p)
      BY <1>1, <2>1, <3>1, LooksShape
    <3>2. CASE Stores(p)
      BY <1>1, <2>1, <3>2, StoresShape
    <3>3. ASSUME NEW t \in Target, Creates(p, t) \/ Fills(p, t) \/ Renames(p, t) PROVE Shape'
      BY <1>1, <2>1, <3>3, CreatesShape, FillsShape, RenamesShape
    <3> QED
      BY <2>3, <3>1, <3>2, <3>3 DEF Step, Looks
  <2> QED
    BY <2>1, <2>2, <2>3
<1>2. CASE UNCHANGED vars
  <2>1. /\ tree' = tree /\ store' = store /\ file' = file /\ todo' = todo /\ work' = work
        /\ grip' = grip /\ mark' = mark /\ suspect' = suspect /\ bad' = bad /\ alone' = alone
        /\ spent' = spent
    BY <1>2 DEF vars, disk, procs, history
  <2>2. FilesTyped'
    BY <2>1 DEF Shape, FilesTyped
  <2>3. ASSUME NEW p \in Procs PROVE Placed(p)'
    BY <2>1 DEF Shape, Placed, Running, At
  <2> QED
    BY <2>1, <2>2, <2>3 DEF Shape
<1> QED
  BY <1>1, <1>2

(* Every process is in its script, with in its memory what its next call needs. *)
THEOREM ProcessesKeepToTheirScripts == Spec => []Shape
<1>1. Init => Shape
  BY ShapeInit
<1>2. Shape /\ [Next]_vars => Shape'
  BY ShapeNext
<1> QED
  BY <1>1, <1>2, PTL DEF Spec

(* The type invariant. *)
THEOREM AtlasWritersTypes == Spec => []TypeOK
<1>1. ASSUME Shape PROVE TypeOK
  <2>1. ASSUME NEW p \in Procs PROVE todo[p] \in Seq(Calls)
    <3>1. CASE Running(p)
      <4>1. PICK k \in 1..Len(Script[work[p].cmd]) : todo[p] = From(work[p].cmd, k)
        BY <1>1, <3>1, Position
      <4>2. work[p].cmd \in Cmd
        BY <1>1, <3>1, Position
      <4> QED
        BY <4>1, <4>2, SuffixGoes
    <3>2. CASE ~Running(p)
      <4>1. todo[p] = <<>>
        BY <3>2 DEF Running
      <4>2. <<>> \in Seq(Calls)
        OBVIOUS
      <4> QED
        BY <4>1, <4>2
    <3> QED
      BY <3>1, <3>2
  <2>2. ASSUME NEW p \in Procs PROVE work[p] = Idle \/ work[p].cmd \in Cmd
    BY <1>1, CmdIs DEF Shape, Placed, Passed, Idle
  <2>3. \A p \in Procs : grip[p] # "closed" <=> At(p, "fill")
    BY <1>1 DEF Shape, Placed
  <2> QED
    BY <1>1, <2>1, <2>2, <2>3 DEF Shape, FilesTyped, TypeOK
<1> QED
  BY <1>1, ProcessesKeepToTheirScripts, PTL

-----------------------------------------------------------------------------
(* Where the processes are after a step. *)
LEMMA OthersAt ==
    ASSUME NEW p \in Procs, NEW marks, OthersGo(p, marks), NEW q \in Procs \ {p}
    PROVE  /\ Running(q)' <=> Running(q)
           /\ \A c : At(q, c)' <=> At(q, c)
           /\ \A c, t : AtFile(q, c, t)' <=> AtFile(q, c, t)
           /\ \A t : Writing(q, t)' <=> Writing(q, t)
           /\ \A t : Output(q, t)' = Output(q, t)
           /\ work'[q] = work[q] /\ mark'[q] = marks[q]
<1>1. todo'[q] = todo[q] /\ work'[q] = work[q] /\ mark'[q] = marks[q]
  BY DEF OthersGo
<1>2. Running(q)' <=> Running(q)
  BY <1>1 DEF Running
<1>3. \A c : At(q, c)' <=> At(q, c)
  BY <1>1, <1>2 DEF At
<1>4. \A c, t : AtFile(q, c, t)' <=> AtFile(q, c, t)
  BY <1>1, <1>2 DEF AtFile
<1>5. \A t : Writing(q, t)' <=> Writing(q, t)
  BY <1>4 DEF Writing
<1>6. \A t : Output(q, t)' = Output(q, t)
  BY <1>1 DEF Output
<1> QED
  BY <1>1, <1>2, <1>3, <1>4, <1>5, <1>6

LEMMA WentAt ==
    ASSUME NEW p, NEW call, NEW w, NEW marks, Went(p, call, w, marks)
    PROVE  /\ Running(p)' /\ work'[p] = w /\ mark'[p] = marks[p] /\ OthersGo(p, marks)
           /\ \A c : At(p, c)' <=> call[1] = c
           /\ \A c, t : AtFile(p, c, t)' <=> call = <<c, t>>
BY DEF Went, Running, At, AtFile

LEMMA EndedAt ==
    ASSUME NEW p, NEW w, NEW marks, Ended(p, w, marks)
    PROVE  /\ ~Running(p)' /\ work'[p] = w /\ mark'[p] = {} /\ OthersGo(p, marks)
           /\ \A c : ~At(p, c)'
           /\ \A c, t : ~AtFile(p, c, t)'
           /\ \A t : ~Writing(p, t)'
BY DEF Ended, Running, At, AtFile, Writing

LEMMA OneCall ==
    \A p, c, d, t, u : AtFile(p, c, t) /\ AtFile(p, d, u) => c = d /\ t = u
BY DEF AtFile

LEMMA NotWriting ==
    ASSUME NEW p, NEW call, NEW w, NEW marks, Went(p, call, w, marks), call[1] \notin {"fill", "rename"}
    PROVE  \A t : ~Writing(p, t)'
<1>1. \A c, t : AtFile(p, c, t)' <=> call = <<c, t>>
  BY WentAt
<1> QED
  BY <1>1 DEF Writing

LEMMA ReadsAlone ==
    ASSUME NEW p \in Procs, NEW call, NEW w, NEW marks, Reads(p, call, w, marks),
           call[1] \notin {"fill", "rename"}, \A q \in Procs \ {p} : marks[q] = mark[q]
    PROVE  /\ OthersGo(p, mark) /\ \A t : ~Writing(p, t)'
           /\ \A q \in Procs \ {p} : grip'[q] = grip[q]
<1>1. Went(p, call, w, marks) /\ OthersGo(p, marks) /\ grip' = grip
  BY DEF Reads, Went
<1>2. \A t : ~Writing(p, t)'
  BY <1>1, NotWriting
<1> QED
  BY <1>1, <1>2 DEF OthersGo

LEMMA LooksAlone ==
    ASSUME Shape, NEW p \in Procs, Looks(p)
    PROVE  /\ OthersGo(p, mark) /\ \A t : ~Writing(p, t)'
           /\ \A q \in Procs \ {p} : grip'[q] = grip[q]
           /\ UNCHANGED <<disk, suspect, bad>>
<1>0. UNCHANGED <<disk, suspect, bad>>
  BY LooksPlaced
<1>1. CASE Starts(p)
  <2>1. PICK c \in Cmd, call \in {<<"loadId", "store">>, <<"readIdx", "idx">>} :
          Went(p, call, [Idle EXCEPT !.cmd = c, !.ok = TRUE], mark)
    BY <1>1 DEF Starts
  <2> DEFINE w == [Idle EXCEPT !.cmd = c, !.ok = TRUE]
  <2>2. Went(p, call, w, mark) /\ call[1] \notin {"fill", "rename"}
    BY <2>1
  <2> HIDE DEF w
  <2>3. \A t : ~Writing(p, t)'
    BY <2>2, NotWriting
  <2> QED
    BY <1>0, <1>1, <2>2, <2>3 DEF Starts, Went
<1>2. CASE Quits(p)
  <2>1. Ended(p, Idle, mark) /\ grip' = [grip EXCEPT ![p] = "closed"]
    BY <1>2 DEF Quits
  <2>2. \A q \in Procs \ {p} : grip'[q] = grip[q]
    BY <2>1 DEF Shape
  <2> QED
    BY <1>0, <2>1, <2>2, EndedAt
<1>3. CASE LoadsId(p)
  <2> DEFINE call == <<"loadEntities", "store">>
  <2>1. PICK w \in Work : Reads(p, call, w, mark)
    BY <1>3 DEF LoadsId
  <2> QED
    BY <1>0, <2>1, ReadsAlone
<1>4. CASE LoadsEntities(p)
  <2> DEFINE call == <<"loadEdges", "store">>
             marks == Marked({p}, "fresh")
  <2>1. PICK w \in Work : Reads(p, call, w, marks)
    BY <1>4 DEF LoadsEntities
  <2>2. \A q \in Procs \ {p} : marks[q] = mark[q]
    BY DEF Marked
  <2> HIDE DEF marks
  <2> QED
    BY <1>0, <2>1, <2>2, ReadsAlone
<1>5. CASE LoadsEdges(p)
  <2>1. PICK w \in Work, call \in {<<"index", "tree">>, <<"ask", "store">>,
                                   <<"readLog", "log">>, <<"build", "store">>} :
          Reads(p, call, w, mark)
    BY <1>5 DEF LoadsEdges
  <2>2. call[1] \notin {"fill", "rename"}
    OBVIOUS
  <2> QED
    BY <1>0, <2>1, <2>2, ReadsAlone
<1>6. CASE StartsOver(p)
  <2> DEFINE marks == [mark EXCEPT ![p] = {}]
             call == <<"index", "tree">>
  <2>1. PICK w \in Work : Reads(p, call, w, marks)
    BY <1>6 DEF StartsOver
  <2>2. \A q \in Procs \ {p} : marks[q] = mark[q]
    BY DEF Shape
  <2> HIDE DEF marks
  <2> QED
    BY <1>0, <2>1, <2>2, ReadsAlone
<1>7. CASE Indexes(p) \/ ReadsIdx(p)
  <2> DEFINE call == <<"replace", "store">>
  <2>1. PICK w \in Work : Reads(p, call, w, mark)
    BY <1>7 DEF Indexes, ReadsIdx
  <2> QED
    BY <1>0, <2>1, ReadsAlone
<1>8. CASE ReadsLog(p)
  <2> DEFINE call == <<"create", "log">>
             marks == Marked({p}, "logFresh")
  <2>1. PICK w \in Work : Reads(p, call, w, marks)
    BY <1>8 DEF ReadsLog
  <2>2. \A q \in Procs \ {p} : marks[q] = mark[q]
    BY DEF Marked
  <2> HIDE DEF marks
  <2> QED
    BY <1>0, <2>1, <2>2, ReadsAlone
<1> QED
  BY <1>1, <1>2, <1>3, <1>4, <1>5, <1>6, <1>7, <1>8 DEF Looks

-----------------------------------------------------------------------------
(* Who writes a file. *)
LEMMA QuietWrites ==
    ASSUME WriteInv, NEW p \in Procs, NEW marks, OthersGo(p, marks),
           file' = file, bad' = bad, \A q \in Procs \ {p} : grip'[q] = grip[q],
           \A q \in Procs \ {p} : "clashed" \in marks[q] <=> "clashed" \in mark[q],
           \A t : ~Writing(p, t)'
    PROVE  WriteInv'
<1>1. FilesAreWhole'
  BY DEF WriteInv, FilesAreWhole
<1>2. ASSUME NEW t \in Target PROVE Writes(p, t)'
  BY DEF Writes, Writing
<1>3. ASSUME NEW q \in Procs \ {p}, NEW t \in Target PROVE Writes(q, t)'
  <2>1. Writes(q, t)
    BY DEF WriteInv
  <2>2. /\ Writing(q, t)' <=> Writing(q, t)
        /\ AtFile(q, "fill", t)' <=> AtFile(q, "fill", t)
        /\ AtFile(q, "rename", t)' <=> AtFile(q, "rename", t)
        /\ Output(q, t)' = Output(q, t) /\ mark'[q] = marks[q]
    BY OthersAt
  <2>3. \A r \in Procs \ {q} : Writing(r, t)' => Writing(r, t)
    BY OthersAt
  <2> QED
    BY <2>1, <2>2, <2>3 DEF Writes
<1> QED
  BY <1>1, <1>2, <1>3 DEF WriteInv

LEMMA CreatesWrites ==
    ASSUME Shape, WriteInv, NEW p \in Procs, NEW t \in Target, Creates(p, t)
    PROVE  WriteInv'
<1> DEFINE marks == CreateMarks(p, t)
<1>1. /\ AtFile(p, "create", t) /\ Went(p, <<"fill", t>>, work[p], marks) /\ OthersGo(p, marks)
      /\ bad' = bad /\ grip' = [grip EXCEPT ![p] = "temp"]
      /\ file' = [file EXCEPT ![t].temp = Blank]
  BY DEF Creates, Went
<1>2. /\ file'[t].temp = Blank /\ file'[t].final = file[t].final
      /\ \A u \in Target \ {t} : file'[u] = file[u]
  <2>1. Blank \in Fit(t) /\ FilesTyped
    BY <1>1, OutputTyped DEF Shape
  <2>2. /\ file[t].final \in Fit(t)
        /\ file' = [file EXCEPT ![t] = [final |-> file[t].final, temp |-> Blank]]
    BY <1>1, <2>1, PartsWritten
  <2> QED
    BY <2>1, <2>2, FileWritten
<1>3. grip'[p] = "temp" /\ \A q \in Procs \ {p} : grip'[q] = grip[q]
  BY <1>1 DEF Shape
<1>4. /\ \A q \in Procs \ {p} : Writing(q, t) => "clashed" \in marks[q]
      /\ \A q \in Procs \ {p} : "clashed" \in mark[q] => "clashed" \in marks[q]
      /\ "clashed" \notin marks[p] => \A q \in Procs \ {p} : ~Writing(q, t)
  BY DEF CreateMarks, Marked, Unmarked
<1> HIDE DEF marks
<1>5. /\ \A c, u : AtFile(p, c, u)' <=> <<"fill", t>> = <<c, u>>
      /\ mark'[p] = marks[p]
  BY <1>1, WentAt
<1>6. /\ AtFile(p, "fill", t)' /\ ~AtFile(p, "rename", t)'
      /\ \A u \in Target \ {t} : ~AtFile(p, "fill", u)' /\ ~Writing(p, u)'
  BY <1>5 DEF Writing
<1>7. FilesAreWhole'
  BY <1>1, <1>2 DEF WriteInv, FilesAreWhole
<1>8. Writes(p, t)'
  <2>1. ASSUME NEW q \in Procs \ {p} PROVE Writing(q, t)' <=> Writing(q, t)
    BY <1>1, OthersAt
  <2> QED
    BY <1>2, <1>3, <1>4, <1>5, <1>6, <2>1 DEF Writes
<1>9. ASSUME NEW u \in Target \ {t} PROVE Writes(p, u)'
  BY <1>6 DEF Writes
<1>10. ASSUME NEW q \in Procs \ {p}, NEW u \in Target PROVE Writes(q, u)'
  <2>1. Writes(q, u)
    BY DEF WriteInv
  <2>2. /\ Writing(q, u)' <=> Writing(q, u)
        /\ AtFile(q, "fill", u)' <=> AtFile(q, "fill", u)
        /\ AtFile(q, "rename", u)' <=> AtFile(q, "rename", u)
        /\ Output(q, u)' = Output(q, u) /\ mark'[q] = marks[q]
    BY <1>1, OthersAt
  <2>3. AtFile(q, "fill", u)' /\ grip'[q] = "final" => u \in bad'
    BY <1>1, <1>3, <2>1, <2>2 DEF Writes
  <2>4. CASE u = t
    BY <1>4, <2>2, <2>3, <2>4 DEF Writes
  <2>5. CASE u # t
    <3>1. \A r \in Procs \ {q} : Writing(r, u)' => Writing(r, u)
      BY <1>1, <1>6, <2>5, OthersAt
    <3>2. file'[u] = file[u]
      BY <1>2, <2>5
    <3> QED
      BY <1>3, <1>4, <2>1, <2>2, <2>3, <3>1, <3>2 DEF Writes
  <2> QED
    BY <2>4, <2>5
<1> QED
  BY <1>7, <1>8, <1>9, <1>10 DEF WriteInv

LEMMA ClashedStays ==
    ASSUME Shape, NEW t
    PROVE  \A q \in Procs : "clashed" \in LogMoved(t)[q] <=> "clashed" \in mark[q]
BY DEF LogMoved, Unmarked

LEMMA FillsWrites ==
    ASSUME Shape, WriteInv, NEW p \in Procs, NEW t \in Target, Fills(p, t)
    PROVE  WriteInv'
<1> DEFINE marks == FillMarks(p, t)
<1>1. /\ AtFile(p, "fill", t) /\ Went(p, <<"rename", t>>, work[p], marks) /\ OthersGo(p, marks)
      /\ \A u \in Target \ {t} : file'[u] = file[u]
      /\ bad' = bad /\ \A q \in Procs \ {p} : grip'[q] = grip[q]
  BY FillLeaves
<1>2. /\ grip[p] = "temp" =>
           file'[t].final = file[t].final /\ file'[t].temp \in Over(file[t].temp, Output(p, t))
      /\ grip[p] = "final" => file'[t].temp = file[t].temp
      /\ grip[p] = "gone" => file'[t] = file[t]
      /\ grip[p] \in {"temp", "final", "gone"}
  BY FillLeaves
<1>3. \A q \in Procs : "clashed" \in marks[q] <=> "clashed" \in mark[q]
  BY ClashedStays DEF FillMarks
<1> HIDE DEF marks
<1>4. /\ \A c, u : AtFile(p, c, u)' <=> <<"rename", t>> = <<c, u>>
      /\ mark'[p] = marks[p] /\ work'[p] = work[p]
  BY <1>1, WentAt
<1>5. /\ ~AtFile(p, "fill", t)' /\ \A u \in Target \ {t} : ~AtFile(p, "fill", u)' /\ ~Writing(p, u)'
      /\ Output(p, t)' = Output(p, t)
  BY <1>4 DEF Writing, Output
<1>6. /\ Writes(p, t) /\ Writing(p, t)
  BY <1>1 DEF WriteInv, Writing
<1>7. FilesAreWhole'
  <2>1. ASSUME NEW u \in Target, file'[u].final \in Unreadable PROVE u \in bad
    <3>1. CASE u = t /\ grip[p] = "final"
      BY <1>1, <1>6, <3>1 DEF Writes
    <3>2. CASE ~(u = t /\ grip[p] = "final")
      BY <1>1, <1>2, <2>1, <3>2 DEF WriteInv, FilesAreWhole
    <3> QED
      BY <3>1, <3>2
  <2> QED
    BY <1>1, <2>1 DEF FilesAreWhole
<1>8. Writes(p, t)'
  <2>1. ASSUME NEW q \in Procs \ {p} PROVE Writing(q, t)' <=> Writing(q, t)
    BY <1>1, OthersAt
  <2>2. "clashed" \notin mark'[p] =>
          /\ \A q \in Procs \ {p} : ~Writing(q, t)
          /\ file[t].temp = Blank /\ grip[p] = "temp"
    BY <1>1, <1>3, <1>4, <1>6 DEF Writes
  <2>3. Over(Blank, Output(p, t)) = {Output(p, t)}
    BY DEF Over
  <2>4. "clashed" \notin mark'[p] => file'[t].temp = Output(p, t)
    BY <1>2, <2>2, <2>3
  <2> QED
    BY <1>5, <2>1, <2>2, <2>4 DEF Writes
<1>9. ASSUME NEW u \in Target \ {t} PROVE Writes(p, u)'
  BY <1>5 DEF Writes
<1>10. ASSUME NEW q \in Procs \ {p}, NEW u \in Target PROVE Writes(q, u)'
  <2>1. Writes(q, u)
    BY DEF WriteInv
  <2>2. /\ Writing(q, u)' <=> Writing(q, u)
        /\ AtFile(q, "fill", u)' <=> AtFile(q, "fill", u)
        /\ AtFile(q, "rename", u)' <=> AtFile(q, "rename", u)
        /\ Output(q, u)' = Output(q, u) /\ mark'[q] = marks[q]
    BY <1>1, OthersAt
  <2>3. AtFile(q, "fill", u)' /\ grip'[q] = "final" => u \in bad'
    BY <1>1, <2>1, <2>2 DEF Writes
  <2>4. CASE u = t
    BY <1>3, <1>6, <2>1, <2>2, <2>3, <2>4 DEF Writes
  <2>5. CASE u # t
    <3>1. \A r \in Procs \ {q} : Writing(r, u)' => Writing(r, u)
      BY <1>1, <1>5, <2>5, OthersAt
    <3>2. file'[u] = file[u]
      BY <1>1, <2>5
    <3> QED
      BY <1>1, <1>3, <2>1, <2>2, <2>3, <3>1, <3>2 DEF Writes
  <2> QED
    BY <2>4, <2>5
<1> QED
  BY <1>7, <1>8, <1>9, <1>10 DEF WriteInv

LEMMA RenamesWrites ==
    ASSUME Shape, WriteInv, NEW p \in Procs, NEW t \in Target, Renames(p, t)
    PROVE  WriteInv'
<1> DEFINE marks == RenameMarks(p, t)
<1>1. /\ AtFile(p, "rename", t) /\ OthersGo(p, marks)
      /\ \A u \in Target \ {t} : file'[u] = file[u]
      /\ file'[t].final = file[t].temp
      /\ \A q \in Procs : grip'[q] = IF ~AtFile(q, "fill", t) THEN grip[q]
                                     ELSE IF grip[q] = "temp" THEN "final" ELSE "gone"
      /\ bad' = IF "clashed" \in mark[p] THEN bad \union {t} ELSE bad \ {t}
  BY RenameLeaves
<1>2. \A q \in Procs : "clashed" \in marks[q] <=> "clashed" \in mark[q]
  BY ClashedStays DEF RenameMarks
<1>3. \A u : ~Writing(p, u)'
  <2>1. \/ Went(p, <<"readLog", "log">>, work[p], marks)
        \/ Went(p, <<"replace", "store">>, work[p], marks)
        \/ Ended(p, Passed, marks)
        \/ Ended(p, Idle, marks)
    BY RenameLeaves
  <2>2. CASE Went(p, <<"readLog", "log">>, work[p], marks)
    BY <2>2, NotWriting
  <2>3. CASE Went(p, <<"replace", "store">>, work[p], marks)
    BY <2>3, NotWriting
  <2>4. CASE Ended(p, Passed, marks) \/ Ended(p, Idle, marks)
    BY <2>4, EndedAt
  <2> QED
    BY <2>1, <2>2, <2>3, <2>4
<1> HIDE DEF marks
<1>4. Writes(p, t) /\ Writing(p, t)
  BY <1>1 DEF WriteInv, Writing
<1>5. /\ \A u \in Target \ {t} : u \in bad' <=> u \in bad
      /\ "clashed" \in mark[p] => t \in bad'
  BY <1>1
<1>6. FilesAreWhole'
  <2>1. ASSUME NEW u \in Target, file'[u].final \in Unreadable PROVE u \in bad'
    <3>1. CASE u = t
      <4>1. CASE "clashed" \notin mark[p]
        BY <1>1, <1>4, <2>1, <3>1, <4>1, OutputTyped DEF Writes
      <4> QED
        BY <1>5, <3>1, <4>1
    <3>2. CASE u # t
      BY <1>1, <1>5, <2>1, <3>2 DEF WriteInv, FilesAreWhole
    <3> QED
      BY <3>1, <3>2
  <2> QED
    BY <2>1 DEF FilesAreWhole
<1>7. ASSUME NEW u \in Target PROVE Writes(p, u)'
  BY <1>3 DEF Writes, Writing
<1>8. ASSUME NEW q \in Procs \ {p}, NEW u \in Target PROVE Writes(q, u)'
  <2>1. Writes(q, u)
    BY DEF WriteInv
  <2>2. /\ Writing(q, u)' <=> Writing(q, u)
        /\ AtFile(q, "fill", u)' <=> AtFile(q, "fill", u)
        /\ AtFile(q, "rename", u)' <=> AtFile(q, "rename", u)
        /\ Output(q, u)' = Output(q, u) /\ mark'[q] = marks[q]
    BY <1>1, OthersAt
  <2>3. CASE u = t
    <3>1. Writing(q, t) => "clashed" \in mark[p] /\ "clashed" \in mark[q]
      BY <1>4, <2>1, <2>3 DEF Writes
    <3>2. AtFile(q, "fill", t) => Writing(q, t)
      BY DEF Writing
    <3> QED
      BY <1>2, <1>5, <2>2, <2>3, <3>1, <3>2 DEF Writes
  <2>4. CASE u # t
    <3>1. \A r \in Procs \ {q} : Writing(r, u)' => Writing(r, u)
      BY <1>1, <1>3, OthersAt
    <3>2. file'[u] = file[u]
      BY <1>1, <2>4
    <3>3. AtFile(q, "fill", u) => grip'[q] = grip[q]
      BY <1>1, <2>4, OneCall
    <3> QED
      BY <1>2, <1>5, <2>1, <2>2, <2>4, <3>1, <3>2, <3>3 DEF Writes
  <2> QED
    BY <2>3, <2>4
<1> QED
  BY <1>6, <1>7, <1>8 DEF WriteInv

LEMMA StoresAlone ==
    ASSUME NEW p \in Procs, Stores(p)
    PROVE  /\ OthersGo(p, CommitMarks) /\ \A t : ~Writing(p, t)'
           /\ tree' = tree /\ file' = file /\ bad' = bad /\ grip' = grip
<1>1. PICK w \in Work :
        \/ Went(p, <<"create", "idx">>, w, CommitMarks)
        \/ Ended(p, Idle, CommitMarks)
  BY DEF Stores
<1>2. OthersGo(p, CommitMarks)
  BY <1>1 DEF Went, Ended
<1>3. \A t : ~Writing(p, t)'
  <2>1. CASE Went(p, <<"create", "idx">>, w, CommitMarks)
    BY <2>1, NotWriting
  <2>2. CASE Ended(p, Idle, CommitMarks)
    BY <2>2, EndedAt
  <2> QED
    BY <1>1, <2>1, <2>2
<1> QED
  BY <1>2, <1>3 DEF Stores

LEMMA StoresWrites ==
    ASSUME WriteInv, NEW p \in Procs, Stores(p)
    PROVE  WriteInv'
<1>1. /\ OthersGo(p, CommitMarks) /\ \A t : ~Writing(p, t)'
      /\ file' = file /\ bad' = bad /\ grip' = grip
  BY StoresAlone
<1>2. \A q \in Procs \ {p} : "clashed" \in CommitMarks[q] <=> "clashed" \in mark[q]
  BY DEF CommitMarks
<1> QED
  BY <1>1, <1>2, QuietWrites

LEMMA LooksWrites ==
    ASSUME Shape, WriteInv, NEW p \in Procs, Looks(p)
    PROVE  WriteInv'
<1>1. /\ OthersGo(p, mark) /\ \A t : ~Writing(p, t)'
      /\ \A q \in Procs \ {p} : grip'[q] = grip[q]
      /\ file' = file /\ bad' = bad
  BY LooksAlone DEF disk
<1> QED
  BY <1>1, QuietWrites

LEMMA WriteUnchanged ==
    ASSUME WriteInv, UNCHANGED <<file, todo, work, grip, mark, bad>>
    PROVE  WriteInv'
<1>1. FilesAreWhole'
  BY DEF WriteInv, FilesAreWhole
<1>2. ASSUME NEW p \in Procs, NEW t \in Target PROVE Writes(p, t)'
  <2>1. Writes(p, t)
    BY DEF WriteInv
  <2>2. \A q : Writing(q, t)' <=> Writing(q, t)
    BY DEF Writing, AtFile, Running
  <2>3. /\ AtFile(p, "fill", t)' <=> AtFile(p, "fill", t)
        /\ AtFile(p, "rename", t)' <=> AtFile(p, "rename", t)
        /\ Output(p, t)' = Output(p, t)
    BY DEF AtFile, Running, Output
  <2> QED
    BY <2>1, <2>2, <2>3 DEF Writes
<1> QED
  BY <1>1, <1>2 DEF WriteInv

(* Cases of a step. *)
LEMMA StepCases ==
    ASSUME Shape, [Next]_vars
    PROVE  \/ Edit
           \/ \E p \in Procs : Looks(p) \/ Stores(p)
                \/ \E t \in Target : Creates(p, t) \/ Fills(p, t) \/ Renames(p, t)
           \/ UNCHANGED vars
BY NextDoes DEF Step, Looks

LEMMA WriteNext ==
    ASSUME Shape, WriteInv, [Next]_vars
    PROVE  WriteInv'
<1>1. CASE Edit \/ UNCHANGED vars
  BY <1>1, WriteUnchanged DEF Edit, procs, vars, disk, history
<1>2. ASSUME NEW p \in Procs, Looks(p) PROVE WriteInv'
  BY <1>2, LooksWrites
<1>3. ASSUME NEW p \in Procs, Stores(p) PROVE WriteInv'
  BY <1>3, StoresWrites
<1>4. ASSUME NEW p \in Procs, NEW t \in Target, Creates(p, t) \/ Fills(p, t) \/ Renames(p, t)
      PROVE  WriteInv'
  BY <1>4, CreatesWrites, FillsWrites, RenamesWrites
<1> QED
  BY <1>1, <1>2, <1>3, <1>4, StepCases

LEMMA WriteInit ==
    ASSUME Init
    PROVE  WriteInv
<1>1. Shape
  BY ShapeInit
<1>2. \A p \in Procs : ~Running(p)
  BY DEF Init, Running
<1>3. \A p \in Procs, t \in Target : Writes(p, t)
  BY <1>2 DEF Writes, Writing, AtFile
<1>4. file["idx"].final = store /\ file["log"].final = None
  BY DEF Init, Target
<1>5. FilesAreWhole
  BY <1>1, <1>4, Kinds DEF FilesAreWhole, Target, Shape
<1> QED
  BY <1>3, <1>5 DEF WriteInv

(* A process that writes a file and has not been marked writes it by itself. *)
THEOREM WritersAreKnown == Spec => [](Shape /\ WriteInv)
<1>1. Init => Shape /\ WriteInv
  BY ShapeInit, WriteInit
<1>2. Shape /\ WriteInv /\ [Next]_vars => Shape' /\ WriteInv'
  BY ShapeNext, WriteNext
<1> QED
  BY <1>1, <1>2, PTL DEF Spec

(* ATLAS.idx and evidence.json are whole unless two processes wrote one at once, however  *)
(* many processes there are and wherever they are killed.                                 *)
THEOREM FilesAreWholeAlways == Spec => []FilesAreWhole
<1>1. WriteInv => FilesAreWhole
  BY DEF WriteInv
<1> QED
  BY <1>1, WritersAreKnown, PTL

-----------------------------------------------------------------------------
(* Who holds one snapshot. *)
LEMMA LateOthers ==
    ASSUME NEW p \in Procs, NEW marks, OthersGo(p, marks), NEW q \in Procs \ {p}
    PROVE  Late(q)' <=> Late(q)
<1>1. /\ \A c, t : AtFile(q, c, t)' <=> AtFile(q, c, t)
      /\ \A c : At(q, c)' <=> At(q, c)
      /\ work'[q] = work[q]
  BY OthersAt
<1> QED
  BY <1>1 DEF Late

LEMMA HoldsOthers ==
    ASSUME NEW p \in Procs, NEW marks, OthersGo(p, marks), NEW q \in Procs \ {p}, Holds(q),
           "straddled" \in mark[q] => "straddled" \in marks[q],
           \/ store' = store
           \/ ~At(q, "loadEntities") /\ ~At(q, "loadEdges")
           \/ "straddled" \in marks[q]
    PROVE  Holds(q)'
<1>1. /\ Running(q)' <=> Running(q)
      /\ \A c : At(q, c)' <=> At(q, c)
      /\ work'[q] = work[q] /\ mark'[q] = marks[q]
  BY OthersAt
<1>2. Late(q)' <=> Late(q)
  BY LateOthers
<1> QED
  BY <1>1, <1>2 DEF Holds

LEMMA HoldsWent ==
    ASSUME NEW p \in Procs, NEW call, NEW w, NEW marks, Went(p, call, w, marks),
           \/ w.got = None
           \/ IsOne(w.got)
           \/ /\ "straddled" \in marks[p]
              /\ call \notin {<<"create", "idx">>, <<"fill", "idx">>, <<"rename", "idx">>}
              /\ call[1] = "replace" => w.cmd = "evidence"
              /\ (call[1] = "readLog"
                    \/ call \in {<<"create", "log">>, <<"fill", "log">>, <<"rename", "log">>})
                  => w.cmd # "compile",
           call[1] \in {"loadEntities", "loadEdges"} /\ "straddled" \notin marks[p] =>
               store' # None /\ w.got.id = store'.id
    PROVE  Holds(p)'
<1>1. /\ work'[p] = w /\ mark'[p] = marks[p]
      /\ \A c : At(p, c)' <=> call[1] = c
      /\ \A c, t : AtFile(p, c, t)' <=> call = <<c, t>>
  BY WentAt
<1>2. IsOne(w.got)' <=> IsOne(w.got)
  BY DEF IsOne
<1>3. (Running(p) /\ work[p].got # None => IsOne(work[p].got) \/ ("straddled" \in mark[p] /\ ~Late(p)))'
  <2>1. CASE w.got = None
    BY <1>1, <2>1
  <2>2. CASE IsOne(w.got)
    BY <1>1, <2>2 DEF IsOne
  <2>3. CASE /\ "straddled" \in marks[p]
             /\ call \notin {<<"create", "idx">>, <<"fill", "idx">>, <<"rename", "idx">>}
             /\ call[1] = "replace" => w.cmd = "evidence"
             /\ (call[1] = "readLog"
                    \/ call \in {<<"create", "log">>, <<"fill", "log">>, <<"rename", "log">>})
                  => w.cmd # "compile"
    <3>1. ~Late(p)'
      BY <1>1, <2>3 DEF Late
    <3> QED
      BY <1>1, <2>3, <3>1
  <2> QED
    BY <2>1, <2>2, <2>3
<1> QED
  BY <1>1, <1>3 DEF Holds

LEMMA HoldsEnded ==
    ASSUME NEW p \in Procs, NEW w, NEW marks, Ended(p, w, marks)
    PROVE  Holds(p)'
<1>1. ~Running(p)' /\ ~At(p, "loadEntities")' /\ ~At(p, "loadEdges")'
  BY EndedAt
<1> QED
  BY <1>1 DEF Holds

(* What process p holds while nothing is suspect. *)
LEMMA HoldsNow ==
    ASSUME Shape, OneInv, ~suspect, NEW p \in Procs, Running(p)
    PROVE  /\ Holds(p) /\ (store # None => IsOne(store))
           /\ work[p].got \in Snapshot =>
                IsOne(work[p].got) \/ ("straddled" \in mark[p] /\ ~Late(p))
           /\ \A c \in {file["idx"].final, file["idx"].temp} : c \in Snapshot => IsOne(c)
           /\ \A q \in Procs : Holds(q)
BY Kinds DEF OneInv, StoreIsOneSnapshot, IsOne, Holds

LEMMA LooksHolds ==
    ASSUME Shape, OneInv, ~suspect, NEW p \in Procs, Looks(p)
    PROVE  Holds(p)'
<1>0. store' = store
  BY LooksAlone DEF disk
<1>1. CASE Starts(p)
  <2>1. PICK c \in Cmd, call \in {<<"loadId", "store">>, <<"readIdx", "idx">>} :
          Went(p, call, [Idle EXCEPT !.cmd = c, !.ok = TRUE], mark)
    BY <1>1 DEF Starts
  <2> DEFINE w == [Idle EXCEPT !.cmd = c, !.ok = TRUE]
  <2>2. Went(p, call, w, mark) /\ call[1] \notin {"loadEntities", "loadEdges"} /\ w.got = None
    BY <2>1 DEF Idle
  <2> HIDE DEF w
  <2> QED
    BY <2>2, HoldsWent
<1>2. CASE Quits(p)
  BY <1>2, HoldsEnded DEF Quits
<1>3. CASE LoadsId(p)
  <2> DEFINE call == <<"loadEntities", "store">>
  <2>1. PICK w \in Work : w.got = store /\ Reads(p, call, w, mark)
    BY <1>3 DEF LoadsId
  <2>2. Running(p) /\ store # None /\ Went(p, call, w, mark)
    BY <1>3, <2>1, Kinds DEF LoadsId, Reads
  <2>3. IsOne(w.got)
    BY <2>1, <2>2, HoldsNow
  <2> HIDE DEF call
  <2> QED
    BY <1>0, <2>1, <2>2, <2>3, HoldsWent
<1>4. CASE LoadsEntities(p)
  <2> DEFINE call == <<"loadEdges", "store">>
             marks == Marked({p}, "fresh")
  <2>1. PICK w \in Work :
          /\ w.got.id = work[p].got.id /\ w.got.ents = store.ents
          /\ w.got.edges = work[p].got.edges /\ Reads(p, call, w, marks)
    BY <1>4 DEF LoadsEntities
  <2>2. Running(p) /\ store # None /\ Went(p, call, w, marks) /\ At(p, "loadEntities")
    BY <1>4, <2>1, Kinds DEF LoadsEntities, Reads
  <2>3. work[p].got \in Snapshot
    BY <2>2, AtOnce, Held
  <2>4. /\ IsOne(work[p].got) \/ ("straddled" \in mark[p] /\ ~Late(p))
        /\ "straddled" \notin mark[p] => work[p].got.id = store.id
        /\ IsOne(store)
    BY <2>2, <2>3, HoldsNow DEF Holds
  <2>5. "straddled" \in marks[p] <=> "straddled" \in mark[p]
    BY DEF Marked
  <2>6. "straddled" \notin mark[p] => IsOne(w.got) /\ w.got.id = store.id
    BY <2>1, <2>4 DEF IsOne
  <2> HIDE DEF marks
  <2> QED
    BY <1>0, <2>2, <2>5, <2>6, HoldsWent
<1>5. CASE LoadsEdges(p)
  <2>1. PICK w \in Work, call \in {<<"index", "tree">>, <<"ask", "store">>, <<"readLog", "log">>,
                                   <<"build", "store">>} :
          /\ w.got.id = work[p].got.id /\ w.got.ents = work[p].got.ents
          /\ w.got.edges = store.edges
          /\ call = <<"readLog", "log">> => w.cmd = "evidence"
          /\ Reads(p, call, w, mark)
    BY <1>5 DEF LoadsEdges
  <2>2. Running(p) /\ store # None /\ Went(p, call, w, mark) /\ At(p, "loadEdges")
    BY <1>5, <2>1, Kinds DEF LoadsEdges, Reads
  <2>3. work[p].got \in Snapshot
    BY <2>2, AtOnce, Held
  <2>4. /\ IsOne(work[p].got) \/ ("straddled" \in mark[p] /\ ~Late(p))
        /\ "straddled" \notin mark[p] => work[p].got.id = store.id
        /\ IsOne(store)
    BY <2>2, <2>3, HoldsNow DEF Holds
  <2>5. "straddled" \notin mark[p] => IsOne(w.got)
    BY <2>1, <2>4 DEF IsOne
  <2>6. /\ call[1] \notin {"loadEntities", "loadEdges", "replace", "create", "fill", "rename"}
        /\ call[1] = "readLog" => w.cmd # "compile"
    BY <2>1
  <2> QED
    BY <2>2, <2>5, <2>6, HoldsWent
<1>6. CASE StartsOver(p)
  <2> DEFINE marks == [mark EXCEPT ![p] = {}]
             call == <<"index", "tree">>
  <2>1. PICK w \in Work : w.got = None /\ Reads(p, call, w, marks)
    BY <1>6 DEF StartsOver
  <2> HIDE DEF marks
  <2> QED
    BY <2>1, HoldsWent DEF Reads
<1>7. CASE Indexes(p)
  <2> DEFINE call == <<"replace", "store">>
  <2>1. PICK w \in Work :
          /\ w.got = [id |-> tree, ents |-> tree, edges |-> tree,
                      notes |-> Merged(Records, tree), told |-> Carried(work[p].got)]
          /\ Reads(p, call, w, mark)
    BY <1>7 DEF Indexes
  <2>2. IsOne(w.got)
    BY <2>1 DEF IsOne
  <2> QED
    BY <2>1, <2>2, HoldsWent DEF Reads
<1>8. CASE ReadsLog(p)
  <2> DEFINE call == <<"create", "log">>
             marks == Marked({p}, "logFresh")
  <2>1. PICK w \in Work : Alike(w.got, work[p].got) /\ Reads(p, call, w, marks)
    BY <1>8 DEF ReadsLog
  <2>2. Running(p) /\ Went(p, call, w, marks) /\ At(p, "readLog") /\ w.cmd = work[p].cmd
    BY <1>8, <2>1 DEF ReadsLog, Reads, Keeps
  <2>3. work[p].got \in Snapshot
    BY <2>2, AtOnce, Held
  <2>4. IsOne(work[p].got) \/ ("straddled" \in mark[p] /\ ~Late(p))
    BY <2>2, <2>3, HoldsNow
  <2>5. ~Late(p) => w.cmd # "compile"
    BY <2>2 DEF Late
  <2>6. IsOne(work[p].got) => IsOne(w.got)
    BY <2>1 DEF Alike, IsOne
  <2>7. "straddled" \in marks[p] <=> "straddled" \in mark[p]
    BY DEF Marked
  <2> HIDE DEF marks
  <2> QED
    BY <2>2, <2>4, <2>5, <2>6, <2>7, HoldsWent
<1>9. CASE ReadsIdx(p)
  <2> DEFINE call == <<"replace", "store">>
  <2>1. PICK w \in Work : Alike(w.got, file["idx"].final) /\ Reads(p, call, w, mark)
    BY <1>9 DEF ReadsIdx
  <2>2. IsOne(w.got)
    BY <1>9, <2>1, HoldsNow DEF ReadsIdx, Reads, Alike, IsOne
  <2> QED
    BY <2>1, <2>2, HoldsWent DEF Reads
<1> QED
  BY <1>1, <1>2, <1>3, <1>4, <1>5, <1>6, <1>7, <1>8, <1>9 DEF Looks

LEMMA OneFrom ==
    ASSUME OneInv, suspect => suspect',
           ~suspect' =>
             /\ store' # None => IsOne(store')
             /\ \A c \in {file'["idx"].final, file'["idx"].temp} : c \in Snapshot => IsOne(c)
             /\ \A q \in Procs : Holds(q)'
    PROVE  OneInv'
BY DEF OneInv, StoreIsOneSnapshot, IsOne

LEMMA LooksOne ==
    ASSUME Shape, OneInv, NEW p \in Procs, Looks(p)
    PROVE  OneInv'
<1>1. OthersGo(p, mark) /\ store' = store /\ file' = file /\ suspect' = suspect
  BY LooksAlone DEF disk
<1>2. ASSUME ~suspect PROVE \A q \in Procs : Holds(q)'
  <2>1. Holds(p)'
    BY <1>2, LooksHolds
  <2>2. ASSUME NEW q \in Procs \ {p} PROVE Holds(q)'
    <3>1. Holds(q)
      BY <1>2 DEF OneInv
    <3> QED
      BY <1>1, <3>1, HoldsOthers
  <2> QED
    BY <2>1, <2>2
<1> QED
  BY <1>1, <1>2 DEF OneInv, StoreIsOneSnapshot, IsOne

LEMMA StoresOne ==
    ASSUME Shape, OneInv, NEW p \in Procs, Stores(p)
    PROVE  OneInv'
<1>1. PICK w \in Work :
        /\ Keeps(p, w) /\ w.got \in Snapshot /\ Alike(w.got, work[p].got)
        /\ store' = w.got
        /\ suspect' = (suspect \/ ("straddled" \in mark[p] /\ w.cmd # "scan"))
        /\ \/ Went(p, <<"create", "idx">>, w, CommitMarks)
           \/ Ended(p, Idle, CommitMarks)
  BY DEF Stores
<1>2. OthersGo(p, CommitMarks) /\ file' = file
  BY StoresAlone
<1>3. /\ Running(p) /\ work[p].got \in Snapshot
      /\ At(p, "replace") \/ At(p, "ask") \/ At(p, "build")
  <2>1. At(p, "replace") \/ At(p, "ask") \/ At(p, "build")
    BY DEF Stores
  <2>2. Running(p) /\ ~At(p, "loadId") /\ ~At(p, "readIdx") /\ ~At(p, "index")
    BY <2>1, AtOnce
  <2> QED
    BY <2>1, <2>2, Held
<1>4. ASSUME ~suspect' PROVE ~suspect /\ IsOne(w.got)
  <2>1. ~suspect /\ ("straddled" \in mark[p] => w.cmd = "scan")
    BY <1>1, <1>4
  <2>2. IsOne(work[p].got) \/ ("straddled" \in mark[p] /\ ~Late(p))
    BY <1>3, <2>1, HoldsNow
  <2>3. work[p].cmd = "scan" => At(p, "replace")
    BY <1>3, Follows
  <2>4. work[p].cmd = "scan" => Late(p)
    BY <2>3 DEF Late
  <2>5. IsOne(work[p].got)
    BY <1>1, <2>1, <2>2, <2>4 DEF Keeps
  <2> QED
    BY <1>1, <2>1, <2>5 DEF Alike, IsOne
<1>5. ASSUME ~suspect' PROVE \A q \in Procs : Holds(q)'
  <2> DEFINE call == <<"create", "idx">>
  <2>1. Holds(p)'
    <3>1. CASE Went(p, call, w, CommitMarks)
      BY <1>4, <1>5, <3>1, HoldsWent
    <3>2. CASE Ended(p, Idle, CommitMarks)
      BY <3>2, HoldsEnded
    <3> QED
      BY <1>1, <3>1, <3>2
  <2>2. ASSUME NEW q \in Procs \ {p} PROVE Holds(q)'
    <3>1. Holds(q)
      BY <1>4, <1>5 DEF OneInv
    <3>2. /\ "straddled" \in mark[q] => "straddled" \in CommitMarks[q]
          /\ At(q, "loadEntities") \/ At(q, "loadEdges") => "straddled" \in CommitMarks[q]
      BY DEF CommitMarks
    <3> HIDE DEF CommitMarks
    <3> QED
      BY <1>2, <3>1, <3>2, HoldsOthers
  <2> QED
    BY <2>1, <2>2
<1>6. suspect => suspect'
  BY <1>1
<1>7. ~suspect' => \A c \in {file'["idx"].final, file'["idx"].temp} : c \in Snapshot => IsOne(c)
  BY <1>2, <1>6 DEF OneInv
<1> QED
  BY <1>1, <1>4, <1>5, <1>6, <1>7, OneFrom

(* A step of atomic_write keeps what the process holds. *)
LEMMA HoldsWriting ==
    ASSUME Shape, OneInv, ~suspect, NEW p \in Procs, NEW marks, Running(p),
           work[p].got \in Snapshot, "straddled" \in mark[p] => "straddled" \in marks[p],
           NEW call \in {<<"fill", "idx">>, <<"fill", "log">>, <<"rename", "idx">>,
                         <<"rename", "log">>, <<"readLog", "log">>, <<"replace", "store">>},
           Went(p, call, work[p], marks),
           call \in {<<"fill", "idx">>, <<"rename", "idx">>} => Late(p),
           call[1] = "replace" => work[p].cmd = "evidence",
           call \in {<<"readLog", "log">>, <<"fill", "log">>, <<"rename", "log">>} /\ ~Late(p) =>
              work[p].cmd # "compile"
    PROVE  Holds(p)'
<1>1. IsOne(work[p].got) \/ ("straddled" \in mark[p] /\ ~Late(p))
  BY HoldsNow
<1>2. call[1] \notin {"loadEntities", "loadEdges"} /\ call \notin {<<"create", "idx">>, <<"create", "log">>}
  OBVIOUS
<1>3. CASE IsOne(work[p].got)
  BY <1>2, <1>3, HoldsWent
<1>4. CASE "straddled" \in mark[p] /\ ~Late(p)
  <2>1. /\ "straddled" \in marks[p]
        /\ call \notin {<<"create", "idx">>, <<"fill", "idx">>, <<"rename", "idx">>}
        /\ call[1] = "replace" => work[p].cmd = "evidence"
        /\ (call[1] = "readLog"
              \/ call \in {<<"create", "log">>, <<"fill", "log">>, <<"rename", "log">>})
            => work[p].cmd # "compile"
    BY <1>2, <1>4
  <2> QED
    BY <1>2, <2>1, HoldsWent
<1> QED
  BY <1>1, <1>3, <1>4

LEMMA StraddledStays ==
    ASSUME Shape, NEW p \in Procs, NEW t
    PROVE  /\ \A q \in Procs : "straddled" \in mark[q] => "straddled" \in LogMoved(t)[q]
           /\ \A q \in Procs : "straddled" \in mark[q] => "straddled" \in CreateMarks(p, t)[q]
<1>1. \A q \in Procs : "straddled" \in mark[q] => "straddled" \in LogMoved(t)[q]
  BY DEF LogMoved, Unmarked
<1>2. \A q \in Procs : "straddled" \in mark[q] => "straddled" \in CreateMarks(p, t)[q]
  BY DEF CreateMarks, Marked, Unmarked
<1> QED
  BY <1>1, <1>2

LEMMA LateWriting ==
    ASSUME NEW p, NEW t \in Target,
           AtFile(p, "create", t) \/ AtFile(p, "fill", t) \/ AtFile(p, "rename", t)
    PROVE  t = "idx" \/ work[p].cmd = "compile" => Late(p)
BY DEF Late, Target

(* The steps of atomic_write. *)
WritesStep(p, t, marks) ==
    /\ AtFile(p, "create", t) \/ AtFile(p, "fill", t) \/ AtFile(p, "rename", t)
    /\ \/ \E call \in {<<"fill", t>>, <<"rename", t>>, <<"readLog", "log">>, <<"replace", "store">>} :
            /\ Went(p, call, work[p], marks)
            /\ call[1] = "replace" => work[p].cmd = "evidence"
            /\ call[1] = "readLog" => t = "idx"
       \/ \E w : Ended(p, w, marks)
    /\ \A q \in Procs : "straddled" \in mark[q] => "straddled" \in marks[q]
    /\ store' = store /\ suspect' = suspect
    /\ \A c \in {file'["idx"].final, file'["idx"].temp} :
          \/ c \notin Snapshot
          \/ c \in {file["idx"].final, file["idx"].temp}
          \/ t = "idx" /\ c = work[p].got

LEMMA WritesStepOne ==
    ASSUME Shape, OneInv, NEW p \in Procs, NEW t \in Target, NEW marks, WritesStep(p, t, marks)
    PROVE  OneInv'
<1>1. /\ AtFile(p, "create", t) \/ AtFile(p, "fill", t) \/ AtFile(p, "rename", t)
      /\ store' = store /\ suspect' = suspect
      /\ \A q \in Procs : "straddled" \in mark[q] => "straddled" \in marks[q]
  BY DEF WritesStep
<1>2. Running(p) /\ work[p].got \in Snapshot
  BY <1>1, OutputTyped
<1>3. t = "idx" \/ work[p].cmd = "compile" => Late(p)
  BY <1>1, LateWriting
<1>4. OthersGo(p, marks)
  BY DEF WritesStep, Went, Ended
<1>5. ASSUME ~suspect PROVE Holds(p)'
  <2>1. ASSUME NEW call \in {<<"fill", t>>, <<"rename", t>>, <<"readLog", "log">>,
                             <<"replace", "store">>},
               Went(p, call, work[p], marks),
               call[1] = "replace" => work[p].cmd = "evidence",
               call[1] = "readLog" => t = "idx"
        PROVE  Holds(p)'
    <3>1. call \in {<<"fill", "idx">>, <<"fill", "log">>, <<"rename", "idx">>,
                    <<"rename", "log">>, <<"readLog", "log">>, <<"replace", "store">>}
      BY DEF Target
    <3>2. call \in {<<"fill", "idx">>, <<"rename", "idx">>} => Late(p)
      BY <1>3
    <3>3. call \in {<<"readLog", "log">>, <<"fill", "log">>, <<"rename", "log">>} /\ ~Late(p) =>
              work[p].cmd # "compile"
      BY <1>3
    <3> QED
      BY <1>1, <1>2, <1>5, <2>1, <3>1, <3>2, <3>3, HoldsWriting
  <2>2. ASSUME NEW w, Ended(p, w, marks) PROVE Holds(p)'
    BY <2>2, HoldsEnded
  <2> QED
    BY <2>1, <2>2 DEF WritesStep
<1>6. ASSUME ~suspect, NEW q \in Procs \ {p} PROVE Holds(q)'
  <2>1. Holds(q)
    BY <1>6 DEF OneInv
  <2> QED
    BY <1>1, <1>4, <2>1, HoldsOthers
<1>7. ASSUME ~suspect, NEW c \in {file'["idx"].final, file'["idx"].temp}, c \in Snapshot
      PROVE  IsOne(c)
  <2>1. CASE c \in {file["idx"].final, file["idx"].temp}
    BY <1>7, <2>1 DEF OneInv
  <2>2. CASE t = "idx" /\ c = work[p].got
    BY <1>2, <1>3, <1>7, <2>2, HoldsNow
  <2> QED
    BY <1>7, <2>1, <2>2 DEF WritesStep
<1>8. ~suspect => (store # None => IsOne(store))
  BY DEF OneInv, StoreIsOneSnapshot, IsOne
<1> QED
  BY <1>1, <1>5, <1>6, <1>7, <1>8, OneFrom

LEMMA CreatesOne ==
    ASSUME Shape, OneInv, NEW p \in Procs, NEW t \in Target, Creates(p, t)
    PROVE  OneInv'
<1> DEFINE marks == CreateMarks(p, t)
           call == <<"fill", t>>
<1>1. /\ AtFile(p, "create", t) /\ Went(p, call, work[p], marks)
      /\ file' = [file EXCEPT ![t].temp = Blank]
      /\ store' = store /\ suspect' = suspect
  BY DEF Creates
<1>2. /\ file'[t].temp = Blank /\ file'[t].final = file[t].final
      /\ \A u \in Target \ {t} : file'[u] = file[u]
  <2>1. Blank \in Fit(t) /\ FilesTyped
    BY <1>1, OutputTyped DEF Shape
  <2>2. /\ file[t].final \in Fit(t)
        /\ file' = [file EXCEPT ![t] = [final |-> file[t].final, temp |-> Blank]]
    BY <1>1, <2>1, PartsWritten
  <2> QED
    BY <2>1, <2>2, FileWritten
<1>3. \A q \in Procs : "straddled" \in mark[q] => "straddled" \in marks[q]
  BY StraddledStays
<1>4. Blank \notin Snapshot
  BY Kinds DEF Unreadable
<1>5. \A c \in {file'["idx"].final, file'["idx"].temp} :
          \/ c \notin Snapshot
          \/ c \in {file["idx"].final, file["idx"].temp}
  BY <1>2, <1>4 DEF Target
<1> HIDE DEF marks
<1>6. call[1] # "replace" /\ call[1] # "readLog"
  OBVIOUS
<1>7. WritesStep(p, t, marks)
  BY <1>1, <1>3, <1>5, <1>6 DEF WritesStep
<1> QED
  BY <1>7, WritesStepOne

LEMMA FillsOne ==
    ASSUME Shape, OneInv, NEW p \in Procs, NEW t \in Target, Fills(p, t)
    PROVE  OneInv'
<1> DEFINE marks == FillMarks(p, t)
           call == <<"rename", t>>
<1>1. /\ AtFile(p, "fill", t) /\ Went(p, call, work[p], marks)
      /\ \A u \in Target \ {t} : file'[u] = file[u]
      /\ store' = store /\ suspect' = suspect
  BY FillLeaves
<1>2. /\ grip[p] = "temp" =>
           file'[t].final = file[t].final /\ file'[t].temp \in Over(file[t].temp, Output(p, t))
      /\ grip[p] = "final" =>
           file'[t].temp = file[t].temp /\ file'[t].final \in Over(file[t].final, Output(p, t))
      /\ grip[p] = "gone" => file'[t] = file[t]
      /\ grip[p] \in {"temp", "final", "gone"}
  BY FillLeaves
<1>3. \A q \in Procs : "straddled" \in mark[q] => "straddled" \in marks[q]
  BY StraddledStays DEF FillMarks
<1>4. Garbled \notin Snapshot
  BY Kinds DEF Unreadable
<1>5. \A old, new : Over(old, new) \subseteq {new, Garbled}
  BY DEF Over
<1>6. t = "idx" => Output(p, t) = work[p].got
  BY DEF Output
<1>7. ASSUME t = "idx", NEW c \in {file'["idx"].final, file'["idx"].temp}
      PROVE  c = Garbled \/ c \in {file["idx"].final, file["idx"].temp} \/ c = work[p].got
  BY <1>2, <1>5, <1>6, <1>7
<1>8. \A c \in {file'["idx"].final, file'["idx"].temp} :
          \/ c \notin Snapshot
          \/ c \in {file["idx"].final, file["idx"].temp}
          \/ t = "idx" /\ c = work[p].got
  BY <1>1, <1>4, <1>7 DEF Target
<1> HIDE DEF marks
<1>9. call[1] # "replace" /\ call[1] # "readLog"
  OBVIOUS
<1>10. WritesStep(p, t, marks)
  BY <1>1, <1>3, <1>8, <1>9 DEF WritesStep
<1> QED
  BY <1>10, WritesStepOne

LEMMA RenamesOne ==
    ASSUME Shape, OneInv, NEW p \in Procs, NEW t \in Target, Renames(p, t)
    PROVE  OneInv'
<1> DEFINE marks == RenameMarks(p, t)
<1>1. /\ AtFile(p, "rename", t)
      /\ \A u \in Target \ {t} : file'[u] = file[u]
      /\ file'[t].final = file[t].temp /\ file'[t].temp = None
      /\ store' = store /\ suspect' = suspect
  BY RenameLeaves
<1>2. \/ t = "idx" /\ Went(p, <<"readLog", "log">>, work[p], marks)
      \/ work[p].cmd = "evidence" /\ Went(p, <<"replace", "store">>, work[p], marks)
      \/ \E w : Ended(p, w, marks)
  <2>1. \/ t = "idx" /\ work[p].cmd = "compile" /\ Went(p, <<"readLog", "log">>, work[p], marks)
        \/ t = "log" /\ work[p].cmd = "evidence" /\ Went(p, <<"replace", "store">>, work[p], marks)
        \/ t = "idx" /\ work[p].cmd = "scan" /\ Ended(p, Passed, marks)
        \/ work[p].cmd # "scan" /\ Ended(p, Idle, marks)
    BY RenameLeaves
  <2> HIDE DEF marks
  <2> QED
    BY <2>1
<1>3. \A q \in Procs : "straddled" \in mark[q] => "straddled" \in marks[q]
  BY StraddledStays DEF RenameMarks
<1>4. None \notin Snapshot
  BY Kinds
<1>5. \A c \in {file'["idx"].final, file'["idx"].temp} :
          \/ c \notin Snapshot
          \/ c \in {file["idx"].final, file["idx"].temp}
  BY <1>1, <1>4 DEF Target
<1> HIDE DEF marks
<1>6. \/ \E call \in {<<"fill", t>>, <<"rename", t>>, <<"readLog", "log">>, <<"replace", "store">>} :
            /\ Went(p, call, work[p], marks)
            /\ call[1] = "replace" => work[p].cmd = "evidence"
            /\ call[1] = "readLog" => t = "idx"
      \/ \E w : Ended(p, w, marks)
  <2> DEFINE c1 == <<"readLog", "log">>
             c2 == <<"replace", "store">>
  <2>1. c1[1] = "readLog" /\ c2[1] = "replace"
    OBVIOUS
  <2>2. CASE t = "idx" /\ Went(p, c1, work[p], marks)
    BY <2>1, <2>2
  <2>3. CASE work[p].cmd = "evidence" /\ Went(p, c2, work[p], marks)
    BY <2>1, <2>3
  <2> QED
    BY <1>2, <2>2, <2>3
<1>7. WritesStep(p, t, marks)
  BY <1>1, <1>3, <1>5, <1>6 DEF WritesStep
<1> QED
  BY <1>7, WritesStepOne

LEMMA OneUnchanged ==
    ASSUME OneInv, UNCHANGED <<store, file, todo, work, mark, suspect>>
    PROVE  OneInv'
<1>1. ASSUME NEW p \in Procs, Holds(p) PROVE Holds(p)'
  <2>1. Late(p)' <=> Late(p)
    BY DEF Late, AtFile, At, Running
  <2> QED
    BY <1>1, <2>1 DEF Holds, At, Running
<1> QED
  BY <1>1 DEF OneInv, StoreIsOneSnapshot, IsOne

LEMMA OneNext ==
    ASSUME Shape, OneInv, [Next]_vars
    PROVE  OneInv'
<1>1. CASE Edit \/ UNCHANGED vars
  BY <1>1, OneUnchanged DEF Edit, procs, vars, disk, history
<1>2. ASSUME NEW p \in Procs, Looks(p) PROVE OneInv'
  BY <1>2, LooksOne
<1>3. ASSUME NEW p \in Procs, Stores(p) PROVE OneInv'
  BY <1>3, StoresOne
<1>4. ASSUME NEW p \in Procs, NEW t \in Target, Creates(p, t) \/ Fills(p, t) \/ Renames(p, t)
      PROVE  OneInv'
  BY <1>4, CreatesOne, FillsOne, RenamesOne
<1> QED
  BY <1>1, <1>2, <1>3, <1>4, StepCases

LEMMA OneInit ==
    ASSUME Init
    PROVE  OneInv
<1>1. store # None => IsOne(store)
  BY DEF Init, IsOne
<1>2. file["idx"].final = store /\ file["idx"].temp = None
  BY DEF Init, Target
<1>3. \A p \in Procs : Holds(p)
  BY DEF Init, Holds, Running, At
<1>4. \A c \in {file["idx"].final, file["idx"].temp} : c \in Snapshot => IsOne(c)
  BY <1>1, <1>2, Kinds
<1> QED
  BY <1>1, <1>3, <1>4 DEF OneInv, StoreIsOneSnapshot, IsOne

(* The store mixes two snapshots only after a command other than a pass has stored what it *)
(* had loaded while another committed.                                                     *)
THEOREM StoreIsOneSnapshotAlways == Spec => []StoreIsOneSnapshot
<1>1. Init => Shape /\ OneInv
  BY ShapeInit, OneInit
<1>2. Shape /\ OneInv /\ [Next]_vars => Shape' /\ OneInv'
  BY ShapeNext, OneNext
<1>3. OneInv => StoreIsOneSnapshot
  BY DEF OneInv, StoreIsOneSnapshot
<1> QED
  BY <1>1, <1>2, <1>3, PTL DEF Spec

-----------------------------------------------------------------------------
(* What is still as it was read. *)
LEMMA FreshOthers ==
    ASSUME NEW p \in Procs, NEW marks, OthersGo(p, marks), NEW q \in Procs \ {p}, Fresh(q),
           "fresh" \in marks[q] => "fresh" \in mark[q] /\ store' = store
    PROVE  Fresh(q)'
<1>1. /\ Running(q)' <=> Running(q)
      /\ \A c : At(q, c)' <=> At(q, c)
      /\ work'[q] = work[q] /\ mark'[q] = marks[q]
  BY OthersAt
<1> QED
  BY <1>1 DEF Fresh

LEMMA FreshWent ==
    ASSUME NEW p \in Procs, NEW call, NEW w, NEW marks, Went(p, call, w, marks),
           "fresh" \in marks[p] =>
                /\ call[1] \notin {"loadId", "loadEntities", "readIdx"}
                /\ store' # None /\ w.got # None /\ w.got.told = store'.told
    PROVE  Fresh(p)'
<1>1. /\ Running(p)' /\ work'[p] = w /\ mark'[p] = marks[p]
      /\ \A c : At(p, c)' <=> call[1] = c
  BY WentAt
<1> QED
  BY <1>1 DEF Fresh

LEMMA LogFreshOthers ==
    ASSUME NEW p \in Procs, NEW marks, OthersGo(p, marks), NEW q \in Procs \ {p}, LogFresh(q),
           "logFresh" \in marks[q] =>
                "logFresh" \in mark[q] /\ file'["log"].final = file["log"].final
    PROVE  LogFresh(q)'
<1>1. /\ \A c, t : AtFile(q, c, t)' <=> AtFile(q, c, t)
      /\ work'[q] = work[q] /\ mark'[q] = marks[q]
  BY OthersAt
<1>2. file'["log"].final = file["log"].final => Records' = Records
  BY DEF Records
<1> QED
  BY <1>1, <1>2 DEF LogFresh

LEMMA LogFreshWent ==
    ASSUME NEW p \in Procs, NEW call, NEW w, NEW marks, Went(p, call, w, marks),
           "logFresh" \in marks[p] =>
                /\ call \in {<<"create", "log">>, <<"fill", "log">>, <<"rename", "log">>}
                /\ file'["log"].final = file["log"].final
                /\ \A r \in Records : \E n \in w.log : SameKey(r, n)
    PROVE  LogFresh(p)'
<1>1. /\ Running(p)' /\ work'[p] = w /\ mark'[p] = marks[p]
      /\ \A c, t : AtFile(p, c, t)' <=> call = <<c, t>>
  BY WentAt
<1>2. file'["log"].final = file["log"].final => Records' = Records
  BY DEF Records
<1>3. call \in {<<"create", "log">>, <<"fill", "log">>, <<"rename", "log">>} =>
        (\E c \in {"create", "fill", "rename"} : AtFile(p, c, "log"))'
  BY <1>1
<1> QED
  BY <1>1, <1>2, <1>3 DEF LogFresh

LEMMA FreshEnded ==
    ASSUME NEW p \in Procs, NEW w, NEW marks, Ended(p, w, marks)
    PROVE  Fresh(p)' /\ LogFresh(p)'
<1>1. mark'[p] = {}
  BY EndedAt
<1> QED
  BY <1>1 DEF Fresh, LogFresh

(* A process that is elsewhere has no mark of the log. *)
LEMMA NotLogFresh ==
    ASSUME FreshInv, NEW p \in Procs, NEW c, At(p, c), c \notin {"create", "fill", "rename"}
    PROVE  "logFresh" \notin mark[p]
BY DEF FreshInv, LogFresh, AtFile, At

LEMMA LooksFresh ==
    ASSUME Shape, FreshInv, NEW p \in Procs, Looks(p)
    PROVE  Fresh(p)' /\ LogFresh(p)'
<1>0. store' = store /\ file' = file /\ Fresh(p) /\ LogFresh(p)
  BY LooksAlone DEF disk, FreshInv
<1>1. CASE Starts(p)
  <2>1. PICK c \in Cmd, call \in {<<"loadId", "store">>, <<"readIdx", "idx">>} :
          Went(p, call, [Idle EXCEPT !.cmd = c, !.ok = TRUE], mark)
    BY <1>1 DEF Starts
  <2> DEFINE w == [Idle EXCEPT !.cmd = c, !.ok = TRUE]
  <2>2. Went(p, call, w, mark)
    BY <2>1
  <2> HIDE DEF w
  <2>3. mark[p] = {}
    BY <1>1 DEF Starts, Shape, Placed
  <2> QED
    BY <2>2, <2>3, FreshWent, LogFreshWent
<1>2. CASE Quits(p)
  BY <1>2, FreshEnded DEF Quits
<1>3. CASE LoadsId(p)
  <2> DEFINE call == <<"loadEntities", "store">>
  <2>1. PICK w \in Work : w.got = store /\ Reads(p, call, w, mark)
    BY <1>3 DEF LoadsId
  <2>2. "fresh" \notin mark[p] /\ "logFresh" \notin mark[p]
    BY <1>0, <1>3, NotLogFresh DEF LoadsId, Fresh
  <2> HIDE DEF call
  <2> QED
    BY <2>1, <2>2, FreshWent, LogFreshWent DEF Reads
<1>4. CASE LoadsEntities(p)
  <2> DEFINE call == <<"loadEdges", "store">>
             marks == Marked({p}, "fresh")
  <2>1. PICK w \in Work : w.got \in Snapshot /\ w.got.told = store.told /\ Reads(p, call, w, marks)
    BY <1>4 DEF LoadsEntities
  <2>2. "logFresh" \notin mark[p] /\ store # None /\ w.got # None
    BY <1>4, <2>1, NotLogFresh, Kinds DEF LoadsEntities
  <2>3. "logFresh" \notin marks[p]
    BY <2>2 DEF Marked
  <2>4. call[1] \notin {"loadId", "loadEntities", "readIdx"}
    OBVIOUS
  <2> HIDE DEF marks, call
  <2>5. Went(p, call, w, marks)
    BY <2>1 DEF Reads
  <2>6. Fresh(p)'
    BY <1>0, <2>1, <2>2, <2>4, <2>5, FreshWent
  <2>7. LogFresh(p)'
    BY <2>3, <2>5, LogFreshWent
  <2> QED
    BY <2>6, <2>7
<1>5. CASE LoadsEdges(p)
  <2>1. PICK w \in Work, call \in {<<"index", "tree">>, <<"ask", "store">>, <<"readLog", "log">>,
                                   <<"build", "store">>} :
          w.got \in Snapshot /\ w.got.told = work[p].got.told /\ Reads(p, call, w, mark)
    BY <1>5 DEF LoadsEdges
  <2>2. "logFresh" \notin mark[p] /\ w.got # None
    BY <1>5, <2>1, NotLogFresh, Kinds DEF LoadsEdges
  <2>3. call[1] \notin {"loadId", "loadEntities", "readIdx"}
    BY <2>1
  <2>4. Went(p, call, w, mark)
    BY <2>1 DEF Reads
  <2>5. Fresh(p)'
    BY <1>0, <2>1, <2>2, <2>3, <2>4, FreshWent DEF Fresh
  <2>6. LogFresh(p)'
    BY <2>2, <2>4, LogFreshWent
  <2> QED
    BY <2>5, <2>6
<1>6. CASE StartsOver(p)
  <2> DEFINE marks == [mark EXCEPT ![p] = {}]
             call == <<"index", "tree">>
  <2>1. PICK w \in Work : w.got = None /\ Reads(p, call, w, marks)
    BY <1>6 DEF StartsOver
  <2>2. marks[p] = {}
    BY DEF Shape
  <2> HIDE DEF marks, call
  <2> QED
    BY <2>1, <2>2, FreshWent, LogFreshWent DEF Reads
<1>7. CASE Indexes(p)
  <2> DEFINE call == <<"replace", "store">>
  <2>1. PICK w \in Work :
          /\ w.got \in Snapshot
          /\ w.got = [id |-> tree, ents |-> tree, edges |-> tree,
                      notes |-> Merged(Records, tree), told |-> Carried(work[p].got)]
          /\ Reads(p, call, w, mark)
    BY <1>7 DEF Indexes
  <2>2. "logFresh" \notin mark[p] /\ w.got # None
    BY <1>7, <2>1, NotLogFresh, Kinds DEF Indexes
  <2>3. work[p].got \in Snapshot \union {None}
    BY DEF Shape, Work
  <2>4. work[p].got # None => w.got.told = work[p].got.told
    BY <2>1, <2>3 DEF Carried, Snapshot
  <2>5. Went(p, call, w, mark) /\ call[1] \notin {"loadId", "loadEntities", "readIdx"}
    BY <2>1 DEF Reads
  <2> HIDE DEF call
  <2>6. Fresh(p)'
    BY <1>0, <2>2, <2>4, <2>5, FreshWent DEF Fresh
  <2>7. LogFresh(p)'
    BY <2>2, <2>5, LogFreshWent
  <2> QED
    BY <2>6, <2>7
<1>8. CASE ReadsLog(p)
  <2> DEFINE call == <<"create", "log">>
             marks == Marked({p}, "logFresh")
  <2>1. PICK w \in Work :
          /\ w.got \in Snapshot /\ w.got.told = work[p].got.told
          /\ \A r \in Records : \E n \in w.log : SameKey(r, n)
          /\ Reads(p, call, w, marks)
    BY <1>8 DEF ReadsLog
  <2>2. w.got # None /\ ("fresh" \in marks[p] => "fresh" \in mark[p])
    BY <2>1, Kinds DEF Marked
  <2>3. Went(p, call, w, marks) /\ call[1] \notin {"loadId", "loadEntities", "readIdx"}
        /\ call \in {<<"create", "log">>, <<"fill", "log">>, <<"rename", "log">>}
    BY <2>1 DEF Reads
  <2> HIDE DEF call, marks
  <2>4. Fresh(p)'
    BY <1>0, <2>1, <2>2, <2>3, FreshWent DEF Fresh
  <2>5. LogFresh(p)'
    BY <1>0, <2>1, <2>3, LogFreshWent
  <2> QED
    BY <2>4, <2>5
<1>9. CASE ReadsIdx(p)
  <2> DEFINE call == <<"replace", "store">>
  <2>1. PICK w \in Work : Reads(p, call, w, mark)
    BY <1>9 DEF ReadsIdx
  <2>2. "fresh" \notin mark[p] /\ "logFresh" \notin mark[p]
    BY <1>0, <1>9, NotLogFresh DEF ReadsIdx, Fresh
  <2> HIDE DEF call
  <2> QED
    BY <2>1, <2>2, FreshWent, LogFreshWent DEF Reads
<1> QED
  BY <1>1, <1>2, <1>3, <1>4, <1>5, <1>6, <1>7, <1>8, <1>9 DEF Looks

LEMMA StoresFresh ==
    ASSUME Shape, FreshInv, NEW p \in Procs, Stores(p)
    PROVE  FreshInv'
<1>1. /\ OthersGo(p, CommitMarks) /\ file' = file
      /\ At(p, "replace") \/ At(p, "ask") \/ At(p, "build")
  BY StoresAlone DEF Stores
<1>2. PICK w \in Work :
        \/ Went(p, <<"create", "idx">>, w, CommitMarks)
        \/ Ended(p, Idle, CommitMarks)
  BY DEF Stores
<1>3. /\ \A q \in Procs : "fresh" \notin CommitMarks[q]
      /\ \A q \in Procs : "logFresh" \in CommitMarks[q] => "logFresh" \in mark[q]
  BY DEF CommitMarks
<1>4. "logFresh" \notin mark[p]
  BY <1>1, NotLogFresh
<1> DEFINE marks == CommitMarks
           call == <<"create", "idx">>
<1> HIDE DEF marks
<1>5. Fresh(p)' /\ LogFresh(p)'
  <2>1. CASE Went(p, call, w, marks)
    BY <1>3, <1>4, <2>1, FreshWent, LogFreshWent DEF marks
  <2>2. CASE Ended(p, Idle, marks)
    BY <2>2, FreshEnded
  <2> QED
    BY <1>2, <2>1, <2>2 DEF marks
<1>6. ASSUME NEW q \in Procs \ {p} PROVE Fresh(q)' /\ LogFresh(q)'
  <2>1. Fresh(q) /\ LogFresh(q)
    BY DEF FreshInv
  <2> QED
    BY <1>1, <1>3, <2>1, FreshOthers, LogFreshOthers
<1> QED
  BY <1>5, <1>6 DEF FreshInv

FreshStep(p, t, marks) ==
    /\ AtFile(p, "create", t) \/ AtFile(p, "fill", t) \/ AtFile(p, "rename", t)
    /\ \/ \E call \in {<<"fill", t>>, <<"rename", t>>} : Went(p, call, work[p], marks)
       \/ /\ t = "idx" \/ \A q \in Procs : "logFresh" \notin marks[q]
          /\ \/ Went(p, <<"readLog", "log">>, work[p], marks)
             \/ Went(p, <<"replace", "store">>, work[p], marks)
             \/ \E w : Ended(p, w, marks)
    /\ \A q \in Procs : "fresh" \in marks[q] => "fresh" \in mark[q]
    /\ \A q \in Procs : "logFresh" \in marks[q] =>
          "logFresh" \in mark[q] /\ file'["log"].final = file["log"].final
    /\ store' = store

LEMMA FreshStepKeeps ==
    ASSUME Shape, FreshInv, NEW p \in Procs, NEW t \in Target, NEW marks, FreshStep(p, t, marks)
    PROVE  FreshInv'
<1>1. /\ AtFile(p, "create", t) \/ AtFile(p, "fill", t) \/ AtFile(p, "rename", t)
      /\ \A q \in Procs : "fresh" \in marks[q] => "fresh" \in mark[q]
      /\ \A q \in Procs : "logFresh" \in marks[q] =>
            "logFresh" \in mark[q] /\ file'["log"].final = file["log"].final
      /\ store' = store
  BY DEF FreshStep
<1>2. Fresh(p) /\ LogFresh(p)
  BY DEF FreshInv
<1>3. t = "idx" => "logFresh" \notin marks[p]
  BY <1>1, <1>2, OneCall DEF LogFresh
<1>4. "fresh" \in marks[p] =>
        store' # None /\ work[p].got # None /\ work[p].got.told = store'.told
  BY <1>1, <1>2 DEF Fresh
<1>5. OthersGo(p, marks)
  BY DEF FreshStep, Went, Ended
<1>6. ASSUME NEW call \in {<<"fill", t>>, <<"rename", t>>}, Went(p, call, work[p], marks)
      PROVE  Fresh(p)' /\ LogFresh(p)'
  <2>1. /\ call[1] \notin {"loadId", "loadEntities", "readIdx"}
        /\ t = "log" => call \in {<<"create", "log">>, <<"fill", "log">>, <<"rename", "log">>}
    OBVIOUS
  <2>2. Fresh(p)'
    BY <1>4, <1>6, <2>1, FreshWent
  <2>3. "logFresh" \in marks[p] =>
          /\ call \in {<<"create", "log">>, <<"fill", "log">>, <<"rename", "log">>}
          /\ file'["log"].final = file["log"].final
          /\ \A r \in Records : \E n \in work[p].log : SameKey(r, n)
    BY <1>1, <1>2, <1>3, <2>1 DEF Target, LogFresh
  <2>4. LogFresh(p)'
    BY <1>6, <2>3, LogFreshWent
  <2> QED
    BY <2>2, <2>4
<1>7. ASSUME t = "idx" \/ \A q \in Procs : "logFresh" \notin marks[q],
             NEW call \in {<<"readLog", "log">>, <<"replace", "store">>},
             Went(p, call, work[p], marks)
      PROVE  Fresh(p)' /\ LogFresh(p)'
  <2>1. call[1] \notin {"loadId", "loadEntities", "readIdx"}
    OBVIOUS
  <2>2. "logFresh" \notin marks[p]
    BY <1>3, <1>7
  <2> QED
    BY <1>4, <1>7, <2>1, <2>2, FreshWent, LogFreshWent
<1>8. ASSUME NEW w, Ended(p, w, marks) PROVE Fresh(p)' /\ LogFresh(p)'
  BY <1>8, FreshEnded
<1>9. Fresh(p)' /\ LogFresh(p)'
  BY <1>6, <1>7, <1>8 DEF FreshStep
<1>10. ASSUME NEW q \in Procs \ {p} PROVE Fresh(q)' /\ LogFresh(q)'
  <2>1. Fresh(q) /\ LogFresh(q)
    BY DEF FreshInv
  <2> QED
    BY <1>1, <1>5, <2>1, FreshOthers, LogFreshOthers
<1> QED
  BY <1>9, <1>10 DEF FreshInv

LEMMA MarksOfLog ==
    ASSUME Shape, NEW p \in Procs, NEW t
    PROVE  /\ \A q \in Procs : "fresh" \in LogMoved(t)[q] => "fresh" \in mark[q]
           /\ \A q \in Procs : "logFresh" \in LogMoved(t)[q] => "logFresh" \in mark[q] /\ t # "log"
           /\ \A q \in Procs : "fresh" \in CreateMarks(p, t)[q] => "fresh" \in mark[q]
           /\ \A q \in Procs : "logFresh" \in CreateMarks(p, t)[q] => "logFresh" \in mark[q]
<1>1. /\ \A q \in Procs : "fresh" \in LogMoved(t)[q] => "fresh" \in mark[q]
      /\ \A q \in Procs : "logFresh" \in LogMoved(t)[q] => "logFresh" \in mark[q] /\ t # "log"
  BY DEF LogMoved, Unmarked
<1>2. /\ \A q \in Procs : "fresh" \in CreateMarks(p, t)[q] => "fresh" \in mark[q]
      /\ \A q \in Procs : "logFresh" \in CreateMarks(p, t)[q] => "logFresh" \in mark[q]
  BY DEF CreateMarks, Marked, Unmarked
<1> QED
  BY <1>1, <1>2

LEMMA CreatesFresh ==
    ASSUME Shape, FreshInv, NEW p \in Procs, NEW t \in Target, Creates(p, t)
    PROVE  FreshInv'
<1> DEFINE marks == CreateMarks(p, t)
<1>1. /\ AtFile(p, "create", t) /\ Went(p, <<"fill", t>>, work[p], marks)
      /\ file' = [file EXCEPT ![t].temp = Blank] /\ store' = store
  BY DEF Creates
<1>2. file'["log"].final = file["log"].final
  BY <1>1 DEF Shape, FilesTyped, Target
<1>3. /\ \A q \in Procs : "fresh" \in marks[q] => "fresh" \in mark[q]
      /\ \A q \in Procs : "logFresh" \in marks[q] => "logFresh" \in mark[q]
  BY MarksOfLog
<1> HIDE DEF marks
<1>4. FreshStep(p, t, marks)
  BY <1>1, <1>2, <1>3 DEF FreshStep
<1> QED
  BY <1>4, FreshStepKeeps

LEMMA FillsFresh ==
    ASSUME Shape, FreshInv, NEW p \in Procs, NEW t \in Target, Fills(p, t)
    PROVE  FreshInv'
<1> DEFINE marks == FillMarks(p, t)
<1>1. /\ AtFile(p, "fill", t) /\ Went(p, <<"rename", t>>, work[p], marks)
      /\ \A u \in Target \ {t} : file'[u] = file[u] /\ store' = store
  BY FillLeaves
<1>2. grip[p] # "final" => file'[t].final = file[t].final
  BY FillLeaves
<1>3. store' = store
  BY FillLeaves
<1>4. /\ \A q \in Procs : "fresh" \in marks[q] => "fresh" \in mark[q]
      /\ \A q \in Procs : "logFresh" \in marks[q] =>
            "logFresh" \in mark[q] /\ (t # "log" \/ grip[p] # "final")
  BY MarksOfLog DEF FillMarks
<1>5. t # "log" \/ grip[p] # "final" => file'["log"].final = file["log"].final
  BY <1>1, <1>2 DEF Target
<1> HIDE DEF marks
<1>6. FreshStep(p, t, marks)
  BY <1>1, <1>3, <1>4, <1>5 DEF FreshStep
<1> QED
  BY <1>6, FreshStepKeeps

LEMMA RenamesFresh ==
    ASSUME Shape, FreshInv, NEW p \in Procs, NEW t \in Target, Renames(p, t)
    PROVE  FreshInv'
<1> DEFINE marks == RenameMarks(p, t)
<1>1. /\ AtFile(p, "rename", t) /\ \A u \in Target \ {t} : file'[u] = file[u]
  BY RenameLeaves
<1>2. /\ store' = store
      /\ \/ Went(p, <<"readLog", "log">>, work[p], marks)
         \/ Went(p, <<"replace", "store">>, work[p], marks)
         \/ Ended(p, Passed, marks)
         \/ Ended(p, Idle, marks)
  BY RenameLeaves
<1>3. /\ \A q \in Procs : "fresh" \in marks[q] => "fresh" \in mark[q]
      /\ \A q \in Procs : "logFresh" \in marks[q] => "logFresh" \in mark[q] /\ t # "log"
  BY MarksOfLog DEF RenameMarks
<1>4. t # "log" => t = "idx" /\ file'["log"].final = file["log"].final
  BY <1>1 DEF Target
<1> HIDE DEF marks
<1>5. FreshStep(p, t, marks)
  BY <1>1, <1>2, <1>3, <1>4 DEF FreshStep
<1> QED
  BY <1>5, FreshStepKeeps

LEMMA FreshNext ==
    ASSUME Shape, FreshInv, [Next]_vars
    PROVE  FreshInv'
<1>1. CASE Edit \/ UNCHANGED vars
  <2>1. store' = store /\ file' = file /\ todo' = todo /\ work' = work /\ mark' = mark
    BY <1>1 DEF Edit, procs, vars, disk, history
  <2>2. ASSUME NEW p \in Procs PROVE Fresh(p)' /\ LogFresh(p)'
    <3>1. Fresh(p) /\ LogFresh(p)
      BY DEF FreshInv
    <3>2. Fresh(p)'
      BY <2>1, <3>1 DEF Fresh, At, Running
    <3>3. LogFresh(p)'
      BY <2>1, <3>1 DEF LogFresh, AtFile, Running, Records
    <3> QED
      BY <3>2, <3>3
  <2> QED
    BY <2>2 DEF FreshInv
<1>2. ASSUME NEW p \in Procs, Looks(p) PROVE FreshInv'
  <2>1. OthersGo(p, mark) /\ store' = store /\ file' = file
    BY <1>2, LooksAlone DEF disk
  <2>2. ASSUME NEW q \in Procs \ {p} PROVE Fresh(q)' /\ LogFresh(q)'
    BY <2>1, FreshOthers, LogFreshOthers DEF FreshInv
  <2> QED
    BY <1>2, <2>2, LooksFresh DEF FreshInv
<1>3. ASSUME NEW p \in Procs, Stores(p) PROVE FreshInv'
  BY <1>3, StoresFresh
<1>4. ASSUME NEW p \in Procs, NEW t \in Target, Creates(p, t) \/ Fills(p, t) \/ Renames(p, t)
      PROVE  FreshInv'
  BY <1>4, CreatesFresh, FillsFresh, RenamesFresh
<1> QED
  BY <1>1, <1>2, <1>3, <1>4, StepCases

(* What a step may lose. *)
NothingLost ==
    \A p \in Procs :
        /\ Commits(p) /\ "fresh" \in mark[p] /\ store.told => store'.told
        /\ Rename(p, "log") /\ "logFresh" \in mark[p] /\ "clashed" \notin mark[p] =>
            \A r \in Records : \E n \in file'["log"].final.records : SameKey(r, n)

LEMMA LosesNothing ==
    ASSUME Shape, WriteInv, FreshInv
    PROVE  NothingLost
<1> SUFFICES ASSUME NEW p \in Procs
             PROVE  /\ Commits(p) /\ "fresh" \in mark[p] /\ store.told => store'.told
                    /\ Rename(p, "log") /\ "logFresh" \in mark[p] /\ "clashed" \notin mark[p] =>
                        \A r \in Records : \E n \in file'["log"].final.records : SameKey(r, n)
  BY DEF NothingLost
<1>1. ASSUME Commits(p), "fresh" \in mark[p], store.told PROVE store'.told
  <2>1. Quits(p) \/ Stores(p)
    BY <1>1, ReplaceDoes, AskDoes, BuildDoes DEF Commits
  <2>2. CASE Quits(p)
    BY <1>1, <2>2 DEF Quits, disk
  <2>3. CASE Stores(p)
    BY <1>1, <2>3 DEF FreshInv, Fresh, Stores
  <2> QED
    BY <2>1, <2>2, <2>3
<1>2. ASSUME Rename(p, "log"), "logFresh" \in mark[p], "clashed" \notin mark[p]
      PROVE  \A r \in Records : \E n \in file'["log"].final.records : SameKey(r, n)
  <2>1. "log" \in Target /\ Renames(p, "log")
    BY <1>2, RenameDoes DEF Target
  <2>2. AtFile(p, "rename", "log") /\ file'["log"].final = file["log"].temp
    BY <2>1, RenameLeaves
  <2>3. file["log"].temp = Output(p, "log")
    BY <1>2, <2>1, <2>2 DEF WriteInv, Writes, Writing
  <2>4. file'["log"].final.records = work[p].log
    BY <2>2, <2>3, Kinds DEF Output
  <2> QED
    BY <1>2, <2>4 DEF FreshInv, LogFresh
<1> QED
  BY <1>1, <1>2

(* Of what a command has read of the store or the log it loses nothing, no summary and no   *)
(* record of another key, unless another process came in between.  A rebuild and a pass     *)
(* whose load has failed have read neither, and nothing is said of them.                    *)
THEOREM ReadersKeepAlways == Spec => ReadersLoseNothing
<1>1. Init => Shape /\ WriteInv /\ FreshInv
  <2>1. ASSUME Init PROVE FreshInv
    BY <2>1 DEF Init, FreshInv, Fresh, LogFresh
  <2> QED
    BY <2>1, ShapeInit, WriteInit
<1>2. Shape /\ WriteInv /\ FreshInv /\ [Next]_vars => Shape' /\ WriteInv' /\ FreshInv'
  BY ShapeNext, WriteNext, FreshNext
<1>3. Shape /\ WriteInv /\ FreshInv /\ [Next]_vars => [NothingLost]_vars
  BY LosesNothing
<1>4. Spec => [][NothingLost]_vars
  BY <1>1, <1>2, <1>3, PTL DEF Spec
<1> QED
  BY <1>4 DEF ReadersLoseNothing, NothingLost

-----------------------------------------------------------------------------
(* A pass by itself. *)
LEMMA ScanWrites ==
    ASSUME Shape, NEW p \in Procs, work[p].cmd = "scan"
    PROVE  \A c : ~AtFile(p, c, "log")
<1> SUFFICES ASSUME NEW c, AtFile(p, c, "log") PROVE FALSE
  OBVIOUS
<1>1. Running(p) /\ Head(todo[p]) = <<c, "log">>
  BY DEF AtFile
<1>2. PICK k \in 1..Len(Script["scan"]) : todo[p] = From("scan", k)
  BY <1>1, Position
<1>3. Script["scan"][k] = <<c, "log">>
  BY <1>1, <1>2, CmdIs, SuffixGoes
<1>4. Len(Script["scan"]) = 8
  BY ScanIs
<1> QED
  BY <1>2, <1>3, <1>4, ScanIs

\* What was made is still so while the files and the log are.
LEMMA MadeStill ==
    ASSUME tree' = tree, file'["log"].final = file["log"].final, NEW s, Made(s)
    PROVE  /\ s = [id |-> tree', ents |-> tree', edges |-> tree', notes |-> Found', told |-> s.told]
<1>1. Records' = Records
  BY DEF Records
<1> QED
  BY <1>1 DEF Made, Found

LEMMA AloneWent ==
    ASSUME NEW p \in Procs, NEW call, NEW w, NEW marks, Went(p, call, w, marks),
           w.cmd = "scan" =>
             /\ call[1] \in {"replace", "create", "fill", "rename"} =>
                    w.got = [id |-> tree', ents |-> tree', edges |-> tree', notes |-> Found',
                             told |-> w.got.told]
             /\ call[1] \in {"create", "fill", "rename"} => store' = w.got
             /\ call[1] \in {"fill", "rename"} => "clashed" \notin marks[p]
    PROVE  Repairing(p)'
<1>1. /\ Running(p)' /\ work'[p] = w /\ mark'[p] = marks[p]
      /\ \A c : At(p, c)' <=> call[1] = c
  BY WentAt
<1>2. CASE w.cmd # "scan"
  BY <1>1, <1>2 DEF Repairing
<1>3. CASE w.cmd = "scan"
  <2> DEFINE made == Made(w.got)'
  <2>1. made <=> w.got = [id |-> tree', ents |-> tree', edges |-> tree', notes |-> Found',
                          told |-> w.got.told]
    BY DEF Made
  <2>2. call[1] \in {"replace", "create", "fill", "rename"} => Made(work[p].got)'
    BY <1>1, <1>3, <2>1
  <2> QED
    BY <1>1, <1>3, <2>2 DEF Repairing
<1> QED
  BY <1>2, <1>3

LEMMA AloneIdle ==
    ASSUME NEW p \in Procs, NEW marks, Ended(p, Idle, marks)
    PROVE  Repairing(p)'
<1>1. work'[p] = Idle
  BY EndedAt
<1> QED
  BY <1>1 DEF Repairing, Idle

LEMMA LooksRepairing ==
    ASSUME Shape, NEW p \in Procs, Looks(p)
    PROVE  Repairing(p)'
<1>0. tree' = tree /\ store' = store /\ file' = file
  BY LooksAlone DEF disk
<1>1. CASE Starts(p)
  <2>1. PICK c \in Cmd, call \in {<<"loadId", "store">>, <<"readIdx", "idx">>} :
          Went(p, call, [Idle EXCEPT !.cmd = c, !.ok = TRUE], mark)
    BY <1>1 DEF Starts
  <2> DEFINE w == [Idle EXCEPT !.cmd = c, !.ok = TRUE]
  <2>2. Went(p, call, w, mark) /\ call[1] \notin {"replace", "create", "fill", "rename"}
    BY <2>1
  <2> HIDE DEF w
  <2> QED
    BY <2>2, AloneWent
<1>2. CASE Quits(p)
  BY <1>2, AloneIdle DEF Quits
<1>3. CASE LoadsId(p)
  <2> DEFINE call == <<"loadEntities", "store">>
  <2>1. PICK w \in Work : Reads(p, call, w, mark)
    BY <1>3 DEF LoadsId
  <2> QED
    BY <2>1, AloneWent DEF Reads
<1>4. CASE LoadsEntities(p)
  <2> DEFINE call == <<"loadEdges", "store">>
             marks == Marked({p}, "fresh")
  <2>1. PICK w \in Work : Reads(p, call, w, marks)
    BY <1>4 DEF LoadsEntities
  <2> HIDE DEF marks
  <2> QED
    BY <2>1, AloneWent DEF Reads
<1>5. CASE LoadsEdges(p)
  <2>1. PICK w \in Work, call \in {<<"index", "tree">>, <<"ask", "store">>, <<"readLog", "log">>,
                                   <<"build", "store">>} :
          Reads(p, call, w, mark)
    BY <1>5 DEF LoadsEdges
  <2>2. call[1] \notin {"replace", "create", "fill", "rename"}
    BY <2>1
  <2> QED
    BY <2>1, <2>2, AloneWent DEF Reads
<1>6. CASE StartsOver(p)
  <2> DEFINE marks == [mark EXCEPT ![p] = {}]
             call == <<"index", "tree">>
  <2>1. PICK w \in Work : Reads(p, call, w, marks)
    BY <1>6 DEF StartsOver
  <2> HIDE DEF marks
  <2> QED
    BY <2>1, AloneWent DEF Reads
<1>7. CASE Indexes(p)
  <2> DEFINE call == <<"replace", "store">>
  <2>1. PICK w \in Work :
          /\ w.got = [id |-> tree, ents |-> tree, edges |-> tree,
                      notes |-> Merged(Records, tree), told |-> Carried(work[p].got)]
          /\ Reads(p, call, w, mark)
    BY <1>7 DEF Indexes
  <2>2. Merged(Records, tree) = Found
    BY DEF Merged, Found
  <2>3. w.got.told = Carried(work[p].got)
    BY <2>1
  <2>4. Made(w.got)
    BY <2>1, <2>2, <2>3 DEF Made
  <2>5. w.got = [id |-> tree', ents |-> tree', edges |-> tree', notes |-> Found',
                 told |-> w.got.told]
    BY <1>0, <2>4, MadeStill
  <2>6. Went(p, call, w, mark) /\ call[1] \notin {"create", "fill", "rename"}
    BY <2>1 DEF Reads
  <2> HIDE DEF call
  <2> QED
    BY <2>5, <2>6, AloneWent
<1>8. CASE ReadsLog(p)
  <2> DEFINE call == <<"create", "log">>
             marks == Marked({p}, "logFresh")
  <2>1. PICK w \in Work : Reads(p, call, w, marks)
    BY <1>8 DEF ReadsLog
  <2>2. w.cmd # "scan"
    BY <1>8, <2>1 DEF ReadsLog, Reads, Keeps
  <2> HIDE DEF marks, call
  <2> QED
    BY <2>1, <2>2, AloneWent DEF Reads
<1>9. CASE ReadsIdx(p)
  <2> DEFINE call == <<"replace", "store">>
  <2>1. PICK w \in Work : w.cmd = "rebuild" /\ Reads(p, call, w, mark)
    BY <1>9 DEF ReadsIdx
  <2> HIDE DEF call
  <2> QED
    BY <2>1, AloneWent DEF Reads
<1> QED
  BY <1>1, <1>2, <1>3, <1>4, <1>5, <1>6, <1>7, <1>8, <1>9 DEF Looks

LEMMA StoresRepairing ==
    ASSUME Shape, NEW p \in Procs, Repairing(p), Stores(p)
    PROVE  Repairing(p)'
<1> DEFINE call == <<"create", "idx">>
<1>1. PICK w \in Work :
        /\ Keeps(p, w) /\ (At(p, "replace") => w = work[p]) /\ store' = w.got
        /\ \/ Went(p, call, w, CommitMarks)
           \/ Ended(p, Idle, CommitMarks)
  BY DEF Stores
<1>2. At(p, "replace") \/ At(p, "ask") \/ At(p, "build")
  BY DEF Stores
<1>3. tree' = tree /\ file' = file
  BY StoresAlone
<1>4. CASE Went(p, call, w, CommitMarks)
  <2>1. w.cmd = "scan" =>
          w.got = [id |-> tree', ents |-> tree', edges |-> tree', notes |-> Found',
                   told |-> w.got.told]
    <3>1. SUFFICES ASSUME w.cmd = "scan" PROVE Made(w.got)
      BY <1>3, MadeStill
    <3>2. Running(p)
      BY <1>2, AtOnce
    <3>3. At(p, "replace")
      BY <1>1, <1>2, <3>1, <3>2, Follows DEF Keeps
    <3> QED
      BY <1>1, <3>1, <3>3 DEF Repairing
  <2>2. call[1] \notin {"fill", "rename"}
    OBVIOUS
  <2> HIDE DEF call
  <2> QED
    BY <1>1, <1>4, <2>1, <2>2, AloneWent
<1>5. CASE Ended(p, Idle, CommitMarks)
  BY <1>5, AloneIdle
<1> QED
  BY <1>1, <1>4, <1>5

(* A process that nobody else runs beside goes through atomic_write. *)
LEMMA CreatesRepairing ==
    ASSUME Shape, NEW p \in Procs, NEW t \in Target, Repairing(p), Creates(p, t),
           \A q \in Procs \ {p} : ~Running(q)
    PROVE  Repairing(p)'
<1> DEFINE marks == CreateMarks(p, t)
           call == <<"fill", t>>
<1>1. /\ AtFile(p, "create", t) /\ Went(p, call, work[p], marks)
      /\ file' = [file EXCEPT ![t].temp = Blank] /\ tree' = tree /\ store' = store
  BY DEF Creates
<1>2. file'["log"].final = file["log"].final
  BY <1>1 DEF Shape, FilesTyped, Target
<1>3. \A q \in Procs \ {p} : ~Writing(q, t)
  BY DEF Writing, AtFile
<1>4. "clashed" \notin marks[p]
  BY <1>3 DEF CreateMarks, Unmarked
<1>5. work[p].cmd = "scan" => Made(work[p].got) /\ store = work[p].got
  BY <1>1, AtFileIsAt DEF Repairing
<1>6. work[p].cmd = "scan" =>
        work[p].got = [id |-> tree', ents |-> tree', edges |-> tree', notes |-> Found',
                       told |-> work[p].got.told]
  BY <1>1, <1>2, <1>5, MadeStill
<1> HIDE DEF marks, call
<1> QED
  BY <1>1, <1>4, <1>5, <1>6, AloneWent

LEMMA FillsRepairing ==
    ASSUME Shape, NEW p \in Procs, NEW t \in Target, Repairing(p), Fills(p, t)
    PROVE  Repairing(p)'
<1> DEFINE marks == FillMarks(p, t)
           call == <<"rename", t>>
<1>1. /\ AtFile(p, "fill", t) /\ Went(p, call, work[p], marks)
      /\ \A u \in Target \ {t} : file'[u] = file[u]
      /\ tree' = tree /\ store' = store
  BY FillLeaves
<1>2. work[p].cmd = "scan" =>
        Made(work[p].got) /\ store = work[p].got /\ "clashed" \notin mark[p]
  BY <1>1, AtFileIsAt DEF Repairing
<1>3. work[p].cmd = "scan" => file'["log"].final = file["log"].final
  BY <1>1, ScanWrites DEF Target
<1>4. work[p].cmd = "scan" =>
        work[p].got = [id |-> tree', ents |-> tree', edges |-> tree', notes |-> Found',
                       told |-> work[p].got.told]
  BY <1>1, <1>2, <1>3, MadeStill
<1>5. "clashed" \in marks[p] <=> "clashed" \in mark[p]
  BY ClashedStays DEF FillMarks
<1> HIDE DEF marks, call
<1> QED
  BY <1>1, <1>2, <1>4, <1>5, AloneWent

LEMMA RenamesRepairing ==
    ASSUME Shape, WriteInv, NEW p \in Procs, NEW t \in Target, Repairing(p), Renames(p, t)
    PROVE  Repairing(p)'
<1> DEFINE marks == RenameMarks(p, t)
           c1 == <<"readLog", "log">>
           c2 == <<"replace", "store">>
<1>1. /\ AtFile(p, "rename", t) /\ tree' = tree /\ store' = store
      /\ \A u \in Target \ {t} : file'[u] = file[u]
      /\ file'[t] = [final |-> file[t].temp, temp |-> None]
  BY RenameLeaves
<1>2. \/ work[p].cmd = "compile" /\ Went(p, c1, work[p], marks)
      \/ work[p].cmd = "evidence" /\ Went(p, c2, work[p], marks)
      \/ t = "idx" /\ work[p].cmd = "scan" /\ Ended(p, Passed, marks)
      \/ Ended(p, Idle, marks)
  BY RenameLeaves
<1> HIDE DEF marks, c1, c2
<1>3. CASE work[p].cmd = "compile" /\ Went(p, c1, work[p], marks)
  BY <1>3, AloneWent
<1>4. CASE work[p].cmd = "evidence" /\ Went(p, c2, work[p], marks)
  BY <1>4, AloneWent
<1>5. CASE Ended(p, Idle, marks)
  BY <1>5, AloneIdle
<1>6. CASE t = "idx" /\ work[p].cmd = "scan" /\ Ended(p, Passed, marks)
  <2>1. Made(work[p].got) /\ store = work[p].got /\ "clashed" \notin mark[p]
    BY <1>1, <1>6, AtFileIsAt DEF Repairing
  <2>2. file["idx"].temp = work[p].got
    BY <1>1, <1>6, <2>1 DEF WriteInv, Writes, Writing, Output
  <2>3. file'["idx"] = [final |-> store', temp |-> None]
    BY <1>1, <1>6, <2>1, <2>2
  <2>4. file'["log"].final = file["log"].final
    BY <1>1, <1>6 DEF Target
  <2>5. store' = [id |-> tree', ents |-> tree', edges |-> tree', notes |-> Found',
                  told |-> store'.told]
    BY <1>1, <2>1, <2>4, MadeStill
  <2>6. Made(store)'
    BY <2>5 DEF Made
  <2>7. ~Running(p)' /\ \A c : ~At(p, c)'
    BY <1>6, EndedAt
  <2> QED
    BY <2>3, <2>6, <2>7 DEF Repairing
<1> QED
  BY <1>2, <1>3, <1>4, <1>5, <1>6

LEMMA AloneNext ==
    ASSUME Shape, WriteInv, AloneInv, [Next]_vars
    PROVE  AloneInv'
<1>1. CASE Edit
  <2>1. alone' = {}
    BY <1>1 DEF Edit
  <2> QED
    BY <2>1 DEF AloneInv
<1>2. CASE UNCHANGED vars
  <2>1. /\ tree' = tree /\ store' = store /\ file' = file /\ todo' = todo /\ work' = work
        /\ mark' = mark /\ alone' = alone
    BY <1>2 DEF vars, disk, procs, history
  <2>2. ASSUME NEW p \in Procs, Repairing(p) PROVE Repairing(p)'
    BY <2>1, <2>2 DEF Repairing, Made, Found, Records, At, Running
  <2> QED
    BY <2>1, <2>2 DEF AloneInv, Running, Shape
<1>3. ASSUME NEW p \in Procs,
             Looks(p) \/ Stores(p) \/ \E t \in Target : Creates(p, t) \/ Fills(p, t) \/ Renames(p, t)
      PROVE  AloneInv'
  <2>1. PICK marks : OthersGo(p, marks)
    BY <1>3, LooksAlone, StoresAlone, FillLeaves, RenameLeaves DEF Creates, Went
  <2>2. \A q \in Procs \ {p} : Running(q)' <=> Running(q)
    BY <2>1, OthersAt
  <2>3. CASE Starts(p)
    <3>1. \A q \in alone' : q = p /\ \A r \in Procs \ {p} : ~Running(r)
      BY <2>3 DEF Starts
    <3>2. Repairing(p)'
      BY <2>3, LooksRepairing DEF Looks
    <3> QED
      BY <2>2, <3>1, <3>2 DEF AloneInv
  <2>4. CASE ~Starts(p)
    <3>1. Disturb(p)
      BY <1>3, <2>4 DEF Looks, Quits, LoadsId, LoadsEntities, LoadsEdges, StartsOver, Indexes,
                        ReadsLog, ReadsIdx, Reads, Stores, Creates, Fills, Renames
    <3>2. ASSUME p \in alone PROVE Repairing(p)'
      <4>1. Repairing(p) /\ \A q \in Procs \ {p} : ~Running(q)
        BY <3>2 DEF AloneInv
      <4> QED
        BY <1>3, <4>1, LooksRepairing, StoresRepairing, CreatesRepairing, FillsRepairing,
           RenamesRepairing
    <3> QED
      BY <2>2, <3>1, <3>2 DEF AloneInv, Disturb
  <2> QED
    BY <2>3, <2>4
<1> QED
  BY <1>1, <1>2, <1>3, StepCases

(* A pass that nobody disturbs leaves the store and ATLAS.idx with one snapshot of the files *)
(* as they are and of the evidence on record, whatever was done and left before.             *)
THEOREM PassesRepair == Spec => []UndisturbedPassRepairs
<1>1. Init => Shape /\ WriteInv /\ AloneInv
  <2>1. ASSUME Init PROVE AloneInv
    BY <2>1 DEF Init, AloneInv
  <2> QED
    BY <2>1, ShapeInit, WriteInit
<1>2. Shape /\ WriteInv /\ AloneInv /\ [Next]_vars => Shape' /\ WriteInv' /\ AloneInv'
  BY ShapeNext, WriteNext, AloneNext
<1>3. AloneInv => UndisturbedPassRepairs
  <2>1. ASSUME AloneInv, NEW p \in alone, ~Running(p), work[p] = Passed
        PROVE  Made(store) /\ file["idx"] = [final |-> store, temp |-> None]
    <3>1. work[p].cmd = "scan"
      BY <2>1 DEF Passed
    <3> QED
      BY <2>1, <3>1 DEF AloneInv, Repairing
  <2> QED
    BY <2>1 DEF UndisturbedPassRepairs, Made, Found
<1> QED
  BY <1>1, <1>2, <1>3, PTL DEF Spec
=============================================================================
