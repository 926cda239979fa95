------------------------- MODULE JsonlJournalProofs -------------------------
(***************************************************************************)
(* What JsonlJournal's runs check, for any clients, scans, events and      *)
(* number of writes cut short.                                             *)
(*                                                                         *)
(* Each property has a strengthening of its own over the lines of a file.  *)
(* Nothing is lost: once created at most once, a journal keeps the first   *)
(* half of each appended event in a line that has its newline.  Nothing is *)
(* applied twice: without a marker cut short, the sidecar has a line of    *)
(* its own for each marked event.  Corruption is explained: without a torn *)
(* append and without a scan, every line is blank or an event.             *)
(***************************************************************************)
EXTENDS JsonlJournal, SequenceTheorems, TLAPS

-----------------------------------------------------------------------------
(* Files and the halves of records.                                        *)

NonemptyFiles == {file \in Files : file # <<>>}

LEMMA HalvesDiffer ==
    ASSUME NEW x, NEW y
    PROVE  /\ FirstHalf(x) # SecondHalf(y)
           /\ FirstHalf(x) = FirstHalf(y) => x = y
           /\ SecondHalf(x) = SecondHalf(y) => x = y
BY DEF FirstHalf, SecondHalf

LEMMA RecordIsTwoHalves ==
    ASSUME NEW x \in Events \union Scans
    PROVE  /\ Record(x) \in Seq(Halves) /\ Len(Record(x)) = 2
           /\ Record(x)[1] = FirstHalf(x) /\ Record(x)[2] = SecondHalf(x)
           /\ DOMAIN Record(x) = {1, 2}
           /\ \A k \in 1..2 : <<Record(x)[k]>> \in Seq(Halves)
<1>1. FirstHalf(x) \in Halves /\ SecondHalf(x) \in Halves
  BY DEF Halves
<1>2. DOMAIN Record(x) = 1..2 /\ 1..2 = {1, 2}
  BY DEF Record
<1> QED
  BY <1>1, <1>2 DEF Record

LEMMA EmptyIsAFile ==
    /\ Empty \in NonemptyFiles /\ Len(Empty) = 1 /\ Empty[1] = <<>>
    /\ DOMAIN Empty = {1}
<1>1. <<>> \in Seq(Halves)
  OBVIOUS
<1>2. DOMAIN Empty = 1..1 /\ 1..1 = {1}
  BY DEF Empty
<1> QED
  BY <1>1, <1>2 DEF Empty, NonemptyFiles, Files

\* Replacing the last element of a sequence.
LEMMA LastReplaced ==
    ASSUME NEW S, NEW seq \in Seq(S), seq # <<>>, NEW x \in S,
           NEW next, next = SubSeq(seq, 1, Len(seq) - 1) \o <<x>>
    PROVE  /\ next \in Seq(S) /\ Len(next) = Len(seq)
           /\ next[Len(seq)] = x
           /\ \A i \in 1..(Len(seq) - 1) : next[i] = seq[i]
<1> DEFINE n == Len(seq) - 1
           front == SubSeq(seq, 1, n)
<1>1. n \in Nat /\ Len(seq) = n + 1
  OBVIOUS
<1>2. /\ front \in Seq(S) /\ Len(front) = n
      /\ \A i \in 1..n : front[i] = seq[i]
  <2> HIDE DEF n
  <2>1. \A i \in 1..n : seq[i] \in S
    <3>1. \A i \in 1..Len(seq) : seq[i] \in S
      OBVIOUS
    <3> QED
      BY <1>1, <3>1
  <2>2. /\ front \in Seq(S) /\ Len(front) = IF 1 <= n THEN n - 1 + 1 ELSE 0
        /\ \A i \in 1..(n - 1 + 1) : front[i] = seq[1 + i - 1]
    BY <1>1, <2>1, SubSeqProperties
  <2> HIDE DEF front
  <2> QED
    BY <1>1, <2>2
<1>4. <<x>> \in Seq(S) /\ Len(<<x>>) = 1 /\ <<x>>[1] = x
  OBVIOUS
<1>5. next = front \o <<x>>
  OBVIOUS
<1> HIDE DEF n, front
<1>6. next \in Seq(S) /\ Len(next) = n + 1
  BY <1>1, <1>2, <1>4, <1>5
<1>7. next[n + 1] = x
  BY <1>1, <1>2, <1>4, <1>5
<1>8. \A i \in 1..n : next[i] = front[i]
  BY <1>1, <1>2, <1>4, <1>5
<1> QED
  BY <1>1, <1>2, <1>6, <1>7, <1>8 DEF n

\* A write extends the last line, and only that.
LEMMA WriteExtendsLast ==
    ASSUME NEW file \in NonemptyFiles, NEW halves \in Seq(Halves)
    PROVE  /\ Write(file, halves) \in NonemptyFiles
           /\ Len(Write(file, halves)) = Len(file)
           /\ Write(file, halves)[Len(file)] = file[Len(file)] \o halves
           /\ \A i \in 1..(Len(file) - 1) : Write(file, halves)[i] = file[i]
<1>1. Len(file) \in Nat /\ Len(file) > 0 /\ file \in Seq(Seq(Halves))
  BY DEF NonemptyFiles, Files
<1>2. file[Len(file)] \in Seq(Halves)
  BY <1>1
<1>3. file[Len(file)] \o halves \in Seq(Halves)
  BY <1>2
<1>4. Write(file, halves) = SubSeq(file, 1, Len(file) - 1) \o <<file[Len(file)] \o halves>>
  BY DEF Write, Front, Last
<1>5. /\ Write(file, halves) \in Seq(Seq(Halves)) /\ Len(Write(file, halves)) = Len(file)
      /\ Write(file, halves)[Len(file)] = file[Len(file)] \o halves
      /\ \A i \in 1..(Len(file) - 1) : Write(file, halves)[i] = file[i]
  <2> DEFINE line == file[Len(file)] \o halves
  <2>1. file # <<>> /\ line \in Seq(Halves)
    BY <1>3 DEF NonemptyFiles
  <2> HIDE DEF line
  <2>2. /\ SubSeq(file, 1, Len(file) - 1) \o <<line>> \in Seq(Seq(Halves))
        /\ Len(SubSeq(file, 1, Len(file) - 1) \o <<line>>) = Len(file)
        /\ (SubSeq(file, 1, Len(file) - 1) \o <<line>>)[Len(file)] = line
        /\ \A i \in 1..(Len(file) - 1) :
              (SubSeq(file, 1, Len(file) - 1) \o <<line>>)[i] = file[i]
    BY <1>1, <2>1, LastReplaced
  <2> QED
    BY <1>4, <2>2 DEF line
<1>6. Write(file, halves) # <<>>
  BY <1>1, <1>5
<1> QED
  BY <1>5, <1>6 DEF NonemptyFiles, Files

LEMMA NewLineIsBlank ==
    ASSUME NEW file \in NonemptyFiles
    PROVE  /\ NewLine(file) \in NonemptyFiles
           /\ Len(NewLine(file)) = Len(file) + 1
           /\ NewLine(file)[Len(file) + 1] = <<>>
           /\ \A i \in 1..Len(file) : NewLine(file)[i] = file[i]
<1>1. file \in Seq(Seq(Halves)) /\ Len(file) \in Nat
  BY DEF NonemptyFiles, Files
<1>2. <<>> \in Seq(Halves)
  OBVIOUS
<1> QED
  BY <1>1, <1>2 DEF NewLine, NonemptyFiles, Files

\* A record and its newline.
LEMMA EntryWritten ==
    ASSUME NEW file \in NonemptyFiles, NEW halves \in Seq(Halves),
           NEW next, next = NewLine(Write(file, halves))
    PROVE  /\ next \in NonemptyFiles
           /\ Len(next) = Len(file) + 1
           /\ next[Len(file) + 1] = <<>>
           /\ next[Len(file)] = file[Len(file)] \o halves
           /\ \A i \in 1..(Len(file) - 1) : next[i] = file[i]
<1> DEFINE full == Write(file, halves)
<1>1. Len(file) \in Nat /\ Len(file) > 0
  BY DEF NonemptyFiles, Files
<1>2. /\ full \in NonemptyFiles /\ Len(full) = Len(file)
      /\ full[Len(file)] = file[Len(file)] \o halves
      /\ \A i \in 1..(Len(file) - 1) : full[i] = file[i]
  BY WriteExtendsLast
<1>3. /\ next \in NonemptyFiles /\ Len(next) = Len(full) + 1
      /\ next[Len(full) + 1] = <<>>
      /\ \A i \in 1..Len(full) : next[i] = full[i]
  BY <1>2, NewLineIsBlank
<1> HIDE DEF full
<1> QED
  BY <1>1, <1>2, <1>3

\* What a torn write leaves was written, without its newline.
LEMMA TornWritesAPart ==
    ASSUME NEW file, NEW x \in Events \union Scans, NEW next \in Torn(file, x)
    PROVE  \E halves \in Seq(Halves) :
              /\ next = Write(file, halves)
              /\ \A k \in DOMAIN halves : halves[k] \in {FirstHalf(x), SecondHalf(x)}
<1>1. PICK k \in 0..2 : next = Write(file, SubSeq(Record(x), 1, k))
  BY DEF Torn
<1>2. /\ SubSeq(Record(x), 1, k) \in Seq(Halves)
      /\ \A i \in DOMAIN SubSeq(Record(x), 1, k) :
            SubSeq(Record(x), 1, k)[i] \in {FirstHalf(x), SecondHalf(x)}
  BY RecordIsTwoHalves
<1> QED
  BY <1>1, <1>2

\* So was what a torn append leaves, which may end inside a character.
LEMMA TornAppendWritesAPart ==
    ASSUME NEW c \in Clients, NEW e \in Events, AppendTorn(c, e)
    PROVE  \E halves \in Seq(Halves) : journal' = Write(journal, halves)
<1>1. CASE journal' \in Torn(journal, e)
  BY <1>1, TornWritesAPart
<1>2. CASE journal' = Write(journal, <<CutCharacter(e)>>)
  <2>1. <<CutCharacter(e)>> \in Seq(Halves)
    BY DEF Halves
  <2> QED
    BY <1>2, <2>1
<1> QED
  BY <1>1, <1>2 DEF AppendTorn

-----------------------------------------------------------------------------
(* Types.                                                                  *)

\* A file always has a last line, and a scan writes three pieces.
WellFormed ==
    /\ TypeOK
    /\ journal # <<>> /\ sidecar # <<>>
    /\ \A s \in Scans : /\ at[s] \in {"start", "install"} => written[s] = 0
                        /\ at[s] = "write" => written[s] \in 0..2

LEMMA FilesAreNonempty ==
    ASSUME WellFormed
    PROVE  journal \in NonemptyFiles /\ sidecar \in NonemptyFiles
BY DEF WellFormed, TypeOK, NonemptyFiles

LEMMA WellFormedInitially == Init => WellFormed
<1> SUFFICES ASSUME Init PROVE WellFormed
  OBVIOUS
<1>1. Empty \in Files /\ Empty # <<>>
  BY EmptyIsAFile DEF NonemptyFiles
<1> QED
  BY <1>1, FaultsAssumption DEF Init, WellFormed, TypeOK

\* What the steps do to the two files and to the sets of events.
LEMMA FilesStayNonempty ==
    ASSUME WellFormed, Next
    PROVE  /\ journal' \in Files /\ journal' # <<>>
           /\ sidecar' \in Files /\ sidecar' # <<>>
<1> DEFINE Kept == journal' = journal /\ sidecar' = sidecar
<1>1. journal \in NonemptyFiles /\ sidecar \in NonemptyFiles
  BY FilesAreNonempty
<1>2. CASE Kept
  BY <1>1, <1>2 DEF NonemptyFiles
<1>3. CASE journal' = Empty /\ sidecar' = sidecar
  BY <1>1, <1>3, EmptyIsAFile DEF NonemptyFiles
<1>4. ASSUME NEW c \in Clients, NEW e \in Events, AppendEntry(c, e)
      PROVE  journal' \in NonemptyFiles /\ sidecar' = sidecar
  BY <1>1, <1>4, RecordIsTwoHalves, EntryWritten DEF AppendEntry
<1>5. ASSUME NEW c \in Clients, NEW e \in Events, AppendTorn(c, e)
      PROVE  journal' \in NonemptyFiles /\ sidecar' = sidecar
  BY <1>1, <1>5, TornAppendWritesAPart, WriteExtendsLast DEF AppendTorn
<1>6. ASSUME NEW e \in Events, MarkApplied(e)
      PROVE  sidecar' \in NonemptyFiles /\ journal' = journal
  BY <1>1, <1>6, RecordIsTwoHalves, EntryWritten DEF MarkApplied
<1>7. ASSUME NEW e \in Events, MarkTorn(e)
      PROVE  sidecar' \in NonemptyFiles /\ journal' = journal
  BY <1>1, <1>7, TornWritesAPart, WriteExtendsLast DEF MarkTorn
<1>8. ASSUME NEW s \in Scans, WriteScan(s)
      PROVE  journal' \in NonemptyFiles /\ sidecar' = sidecar
  <2>1. CASE written[s] = 2
    BY <1>1, <1>8, <2>1, NewLineIsBlank DEF WriteScan
  <2>2. CASE written[s] # 2
    <3>1. written[s] + 1 \in 1..2
      BY <1>8, <2>2 DEF WellFormed, WriteScan
    <3>2. <<Record(s)[written[s] + 1]>> \in Seq(Halves)
      BY <3>1, RecordIsTwoHalves
    <3> QED
      BY <1>1, <1>8, <2>2, <3>2, WriteExtendsLast DEF WriteScan
  <2> QED
    BY <2>1, <2>2
<1> QED
  BY <1>1, <1>2, <1>3, <1>4, <1>5, <1>6, <1>7, <1>8
     DEF Next, NonemptyFiles, Open, Create, Initialise, Install, ScanDies

LEMMA WellFormedStep ==
    ASSUME WellFormed, [Next]_vars
    PROVE  WellFormed'
<1>1. CASE UNCHANGED vars
  BY <1>1 DEF vars, WellFormed, TypeOK
<1>2. CASE Next
  <2> /\ journal' \in Files /\ journal' # <<>>
      /\ sidecar' \in Files /\ sidecar' # <<>>
    BY <1>2, FilesStayNonempty
  <2>1. ASSUME NEW c \in Clients, Open(c) \/ Create(c)
        PROVE  WellFormed'
    <3>1. PICK place \in {"open", "create"} : at' = [at EXCEPT ![c] = place]
      BY <2>1 DEF Open, Create, Go
    <3>2. exists' \in BOOLEAN
      BY <2>1, Zenon DEF WellFormed, TypeOK, Open, Create
    <3>3. created' \in Nat
      BY <2>1 DEF WellFormed, TypeOK, Open, Create
    <3> QED
      BY <2>1, <3>1, <3>2, <3>3 DEF WellFormed, TypeOK, Open, Create
  <2>2. ASSUME NEW c \in Clients, NEW e \in Events, AppendEntry(c, e)
        PROVE  WellFormed'
    BY <2>2 DEF WellFormed, TypeOK, AppendEntry
  <2>3. ASSUME NEW c \in Clients, NEW e \in Events, AppendTorn(c, e)
        PROVE  WellFormed'
    BY <2>3, FaultsAssumption DEF WellFormed, TypeOK, AppendTorn, Ends, Go
  <2>4. ASSUME NEW e \in Events, MarkApplied(e)
        PROVE  WellFormed'
    BY <2>4 DEF WellFormed, TypeOK, MarkApplied
  <2>5. ASSUME NEW e \in Events, MarkTorn(e)
        PROVE  WellFormed'
    <3>1. Service \in Clients
      BY DEF Clients
    <3> QED
      BY <2>5, <3>1, FaultsAssumption DEF WellFormed, TypeOK, MarkTorn, Ends, Go
  <2>6. ASSUME NEW s \in Scans, Initialise(s) \/ Install(s)
        PROVE  WellFormed'
    <3>1. PICK place \in {"write", "install"} : at' = [at EXCEPT ![s] = place]
      BY <2>6 DEF Initialise, Install, Go
    <3>2. exists' \in BOOLEAN
      BY <2>6, Zenon DEF WellFormed, TypeOK, Initialise, Install
    <3>3. created' \in Nat /\ written[s] = 0
      BY <2>6 DEF WellFormed, TypeOK, Initialise, Install
    <3> QED
      BY <2>6, <3>1, <3>2, <3>3 DEF WellFormed, TypeOK, Initialise, Install
  <2>7. ASSUME NEW s \in Scans, WriteScan(s)
        PROVE  WellFormed'
    BY <2>7 DEF WellFormed, TypeOK, WriteScan, Go
  <2>8. ASSUME NEW s \in Scans, ScanDies(s)
        PROVE  WellFormed'
    BY <2>8, FaultsAssumption DEF WellFormed, TypeOK, ScanDies, Go
  <2> QED
    BY <1>2, <2>1, <2>2, <2>3, <2>4, <2>5, <2>6, <2>7, <2>8 DEF Next
<1> QED
  BY <1>1, <1>2

LEMMA AlwaysWellFormed == Spec => []WellFormed
BY WellFormedInitially, WellFormedStep, PTL DEF Spec

\* Every state of the journal, its sidecar and their writers is well typed.
THEOREM TypeCorrect == Spec => []TypeOK
<1>1. WellFormed => TypeOK
  BY DEF WellFormed
<1> QED
  BY <1>1, AlwaysWellFormed, PTL

-----------------------------------------------------------------------------
(* The sidecar.                                                            *)

\* Each half is of an event that was handed to mark_applied; and unless a marker
\* was cut short, each marked event has a line of its own, with its newline.
MarkersAreWhole ==
    /\ \A i \in DOMAIN sidecar : \A k \in DOMAIN sidecar[i] :
          \E e \in marking : sidecar[i][k] \in {FirstHalf(e), SecondHalf(e)}
    /\ marking = marked =>
          /\ sidecar[Len(sidecar)] = <<>>
          /\ \A e \in marked : Record(e) \in Range(sidecar)

LEMMA MarkersInitially == Init => MarkersAreWhole
<1> SUFFICES ASSUME Init PROVE MarkersAreWhole
  OBVIOUS
<1>1. /\ DOMAIN sidecar = {1} /\ Len(sidecar) = 1 /\ sidecar[1] = <<>>
      /\ marked = {} /\ marking = {}
  BY EmptyIsAFile DEF Init
<1>2. DOMAIN sidecar[1] = {}
  BY <1>1
<1> QED
  BY <1>1, <1>2 DEF MarkersAreWhole

\* The halves of an extended line are those of the line and those written.
LEMMA HalvesOfExtended ==
    ASSUME NEW line \in Seq(Halves), NEW halves \in Seq(Halves),
           NEW k \in DOMAIN (line \o halves)
    PROVE  \/ k \in DOMAIN line /\ (line \o halves)[k] = line[k]
           \/ \E j \in DOMAIN halves : (line \o halves)[k] = halves[j]
<1>1. k \in 1..(Len(line) + Len(halves)) /\ Len(line) \in Nat /\ Len(halves) \in Nat
  BY ConcatProperties
<1>2. CASE k \in 1..Len(line)
  BY <1>1, <1>2, ConcatProperties
<1>3. CASE k \notin 1..Len(line)
  <2>1. k - Len(line) \in 1..Len(halves)
    BY <1>1, <1>3
  <2>2. (line \o halves)[k] = halves[k - Len(line)]
    BY <1>1, <1>3, ConcatProperties
  <2> QED
    BY <2>1, <2>2
<1> QED
  BY <1>2, <1>3

LEMMA MarkersStep ==
    ASSUME WellFormed, MarkersAreWhole, [Next]_vars
    PROVE  MarkersAreWhole'
<1> DEFINE Of(e) == {FirstHalf(e), SecondHalf(e)}
           last == Len(sidecar)
<1>1. sidecar \in NonemptyFiles /\ last \in Nat /\ last > 0 /\ DOMAIN sidecar = 1..last
  BY FilesAreNonempty DEF NonemptyFiles, Files
<1>2. sidecar[last] \in Seq(Halves)
  BY <1>1 DEF NonemptyFiles, Files
<1>3. marked \subseteq marking /\ marking \subseteq Events
  BY DEF WellFormed, TypeOK
<1>4. CASE UNCHANGED <<sidecar, marking, marked>>
  BY <1>4 DEF MarkersAreWhole
<1>5. ASSUME NEW e \in Events, NEW halves \in Seq(Halves),
             \A j \in DOMAIN halves : halves[j] \in Of(e),
             marking' = marking \union {e},
             sidecar'[last] = sidecar[last] \o halves,
             \A i \in 1..(last - 1) : sidecar'[i] = sidecar[i]
      PROVE  \A i \in 1..last : \A k \in DOMAIN sidecar'[i] :
                \E x \in marking' : sidecar'[i][k] \in Of(x)
  <2> SUFFICES ASSUME NEW i \in 1..last, NEW k \in DOMAIN sidecar'[i]
               PROVE  \E x \in marking' : sidecar'[i][k] \in Of(x)
    OBVIOUS
  <2>1. ASSUME NEW j \in DOMAIN sidecar[i], sidecar'[i][k] = sidecar[i][j]
        PROVE  \E x \in marking' : sidecar'[i][k] \in Of(x)
    BY <1>1, <1>5, <2>1 DEF MarkersAreWhole
  <2>2. ASSUME NEW j \in DOMAIN halves, sidecar'[i][k] = halves[j]
        PROVE  \E x \in marking' : sidecar'[i][k] \in Of(x)
    BY <1>5, <2>2
  <2>3. CASE i = last
    <3>1. sidecar'[i] = sidecar[i] \o halves
      BY <1>5, <2>3
    <3>2. \/ k \in DOMAIN sidecar[i] /\ sidecar'[i][k] = sidecar[i][k]
          \/ \E j \in DOMAIN halves : sidecar'[i][k] = halves[j]
      BY <1>2, <2>3, <3>1, HalvesOfExtended
    <3> QED
      BY <2>1, <2>2, <3>2
  <2>4. CASE i # last
    <3>1. i \in 1..(last - 1)
      <4>1. last \in Nat /\ i \in 1..last
        BY <1>1
      <4> HIDE DEF last
      <4> QED
        BY <2>4, <4>1
    <3>2. sidecar'[i] = sidecar[i]
      BY <1>5, <3>1
    <3> QED
      BY <2>1, <3>2
  <2> QED
    BY <2>3, <2>4
<1>6. ASSUME NEW e \in Events, MarkApplied(e)
      PROVE  MarkersAreWhole'
  <2>1. /\ Record(e) \in Seq(Halves)
        /\ \A j \in DOMAIN Record(e) : Record(e)[j] \in Of(e)
    BY RecordIsTwoHalves
  <2>2. /\ Len(sidecar') = last + 1 /\ sidecar'[last + 1] = <<>>
        /\ sidecar'[last] = sidecar[last] \o Record(e)
        /\ \A i \in 1..(last - 1) : sidecar'[i] = sidecar[i]
        /\ sidecar' \in NonemptyFiles
    BY <1>1, <1>6, <2>1, EntryWritten DEF MarkApplied
  <2>3. /\ marking' = marking \union {e} /\ marked' = marked \union {e}
        /\ e \notin marking
    BY <1>6 DEF MarkApplied
  <2>4. DOMAIN sidecar' = 1..(last + 1)
    BY <1>1, <2>2 DEF NonemptyFiles, Files
  <2>5. \A i \in DOMAIN sidecar' : \A k \in DOMAIN sidecar'[i] :
           \E x \in marking' : sidecar'[i][k] \in Of(x)
    <3>1. \A i \in 1..last : \A k \in DOMAIN sidecar'[i] :
             \E x \in marking' : sidecar'[i][k] \in Of(x)
      BY <1>5, <2>1, <2>2, <2>3
    <3>2. DOMAIN sidecar'[last + 1] = {}
      BY <2>2
    <3> QED
      BY <1>1, <2>4, <3>1, <3>2
  <2>6. ASSUME marking' = marked', NEW x \in marked'
        PROVE  Record(x) \in Range(sidecar')
    <3>1. marking = marked
      BY <1>3, <2>3, <2>6
    <3>2. CASE x = e
      <4>1. sidecar'[last] = <<>> \o Record(e)
        BY <2>2, <3>1 DEF MarkersAreWhole
      <4>2. sidecar'[last] = Record(e)
        BY <2>1, <4>1
      <4> QED
        BY <1>1, <2>4, <3>2, <4>2 DEF Range
    <3>3. CASE x \in marked
      <4>1. PICK i \in 1..last : sidecar[i] = Record(x)
        BY <1>1, <3>1, <3>3 DEF MarkersAreWhole, Range
      <4>2. i # last
        <5>1. Record(x) # <<>>
          BY DEF Record
        <5> QED
          BY <3>1, <4>1, <5>1 DEF MarkersAreWhole
      <4>3. sidecar'[i] = Record(x) /\ i \in DOMAIN sidecar'
        BY <1>1, <2>2, <2>4, <4>1, <4>2
      <4> QED
        BY <4>3 DEF Range
    <3> QED
      BY <2>3, <2>6, <3>2, <3>3
  <2> QED
    BY <2>2, <2>5, <2>6 DEF MarkersAreWhole
<1>7. ASSUME NEW e \in Events, MarkTorn(e)
      PROVE  MarkersAreWhole'
  <2>1. PICK halves \in Seq(Halves) :
           /\ sidecar' = Write(sidecar, halves)
           /\ \A j \in DOMAIN halves : halves[j] \in Of(e)
    BY <1>7, TornWritesAPart DEF MarkTorn
  <2>2. /\ Len(sidecar') = last /\ sidecar'[last] = sidecar[last] \o halves
        /\ \A i \in 1..(last - 1) : sidecar'[i] = sidecar[i]
        /\ sidecar' \in NonemptyFiles
    BY <1>1, <2>1, WriteExtendsLast
  <2>3. marking' = marking \union {e} /\ marked' = marked /\ e \notin marking
    BY <1>7 DEF MarkTorn
  <2>4. DOMAIN sidecar' = 1..last
    BY <1>1, <2>2 DEF NonemptyFiles, Files
  <2>5. \A i \in DOMAIN sidecar' : \A k \in DOMAIN sidecar'[i] :
           \E x \in marking' : sidecar'[i][k] \in Of(x)
    <3>1. \A i \in 1..last : \A k \in DOMAIN sidecar'[i] :
             \E x \in marking' : sidecar'[i][k] \in Of(x)
      BY <1>5, <2>1, <2>2, <2>3
    <3> QED
      BY <2>4, <3>1
  <2>6. marking' # marked'
    BY <1>3, <2>3
  <2> QED
    BY <2>5, <2>6 DEF MarkersAreWhole
<1> QED
  BY <1>4, <1>6, <1>7
     DEF Next, vars, Open, Create, AppendEntry, AppendTorn, Initialise, Install, WriteScan,
         ScanDies

LEMMA AppliedWereMarked ==
    ASSUME WellFormed, MarkersAreWhole
    PROVE  AppliedIds(sidecar) \subseteq marking
<1> SUFFICES ASSUME NEW e \in Events, NEW i \in DOMAIN sidecar, sidecar[i] = Record(e)
             PROVE  e \in marking
  BY DEF AppliedIds, Parsed, Range
<1>1. 1 \in DOMAIN sidecar[i] /\ sidecar[i][1] = FirstHalf(e)
  BY RecordIsTwoHalves
<1>2. PICK x \in marking : sidecar[i][1] \in {FirstHalf(x), SecondHalf(x)}
  BY <1>1 DEF MarkersAreWhole
<1> QED
  BY <1>1, <1>2, HalvesDiffer

LEMMA AlwaysMarkersAreWhole == Spec => []MarkersAreWhole
<1>1. MarkersAreWhole /\ WellFormed /\ [Next]_vars => MarkersAreWhole'
  BY MarkersStep
<1> QED
  BY <1>1, MarkersInitially, AlwaysWellFormed, PTL DEF Spec

\* A restart repeats no applied event unless a marker was cut short, and takes none
\* for applied that was not handed to mark_applied.
THEOREM AppliedOnceAlways == Spec => []AppliedOnce
<1>1. WellFormed /\ MarkersAreWhole => AppliedOnce
  <2> SUFFICES ASSUME WellFormed, MarkersAreWhole PROVE AppliedOnce
    OBVIOUS
  <2>1. ASSUME marking = marked, NEW e \in marked PROVE e \in AppliedIds(sidecar)
    BY <2>1 DEF MarkersAreWhole, AppliedIds, Parsed, WellFormed, TypeOK
  <2> QED
    BY <2>1, AppliedWereMarked DEF AppliedOnce, Pending
<1> QED
  BY <1>1, AlwaysWellFormed, AlwaysMarkersAreWhole, PTL

-----------------------------------------------------------------------------
(* The journal.                                                            *)

LEMMA JournalLines ==
    ASSUME WellFormed
    PROVE  /\ journal \in NonemptyFiles /\ Len(journal) \in Nat /\ Len(journal) > 0
           /\ DOMAIN journal = 1..Len(journal)
           /\ journal[Len(journal)] \in Seq(Halves)
BY FilesAreNonempty DEF NonemptyFiles, Files

\* What the journal is made of after a step.
LEMMA JournalStep ==
    ASSUME WellFormed, Next
    PROVE  \/ journal' = journal
           \/ journal' = Empty /\ created' = created + 1
           \/ \E c \in Clients, e \in Events :
                 /\ AppendEntry(c, e)
                 /\ Len(journal') = Len(journal) + 1
                 /\ journal'[Len(journal) + 1] = <<>>
                 /\ journal'[Len(journal)] = journal[Len(journal)] \o Record(e)
                 /\ \A i \in 1..(Len(journal) - 1) : journal'[i] = journal[i]
           \/ /\ Len(journal') \in {Len(journal), Len(journal) + 1}
              /\ \A i \in 1..(Len(journal) - 1) : journal'[i] = journal[i]
              /\ \/ \E c \in Clients, e \in Events : AppendTorn(c, e)
                 \/ \E s \in Scans : WriteScan(s)
<1> USE JournalLines
<1>1. ASSUME NEW c \in Clients, NEW e \in Events, AppendEntry(c, e)
      PROVE  /\ Len(journal') = Len(journal) + 1
             /\ journal'[Len(journal) + 1] = <<>>
             /\ journal'[Len(journal)] = journal[Len(journal)] \o Record(e)
             /\ \A i \in 1..(Len(journal) - 1) : journal'[i] = journal[i]
  <2>1. journal' = NewLine(Write(journal, Record(e))) /\ Record(e) \in Seq(Halves)
    BY <1>1, RecordIsTwoHalves DEF AppendEntry
  <2> QED
    BY <2>1, EntryWritten
<1>2. ASSUME NEW c \in Clients, NEW e \in Events, AppendTorn(c, e)
      PROVE  /\ Len(journal') = Len(journal)
             /\ \A i \in 1..(Len(journal) - 1) : journal'[i] = journal[i]
  <2>1. PICK halves \in Seq(Halves) : journal' = Write(journal, halves)
    BY <1>2, TornAppendWritesAPart
  <2> QED
    BY <2>1, WriteExtendsLast
<1>3. ASSUME NEW s \in Scans, WriteScan(s)
      PROVE  /\ Len(journal') \in {Len(journal), Len(journal) + 1}
             /\ \A i \in 1..(Len(journal) - 1) : journal'[i] = journal[i]
  <2>1. CASE written[s] = 2
    <3>1. journal' = NewLine(journal)
      BY <1>3, <2>1 DEF WriteScan
    <3> QED
      BY <3>1, NewLineIsBlank
  <2>2. CASE written[s] # 2
    <3>1. written[s] + 1 \in 1..2
      BY <1>3, <2>2 DEF WellFormed, WriteScan
    <3>2. <<Record(s)[written[s] + 1]>> \in Seq(Halves)
      BY <3>1, RecordIsTwoHalves
    <3>3. journal' = Write(journal, <<Record(s)[written[s] + 1]>>)
      BY <1>3, <2>2 DEF WriteScan
    <3> QED
      BY <3>2, <3>3, WriteExtendsLast
  <2> QED
    BY <2>1, <2>2
<1> QED
  BY <1>1, <1>2, <1>3
     DEF Next, Open, Create, MarkApplied, MarkTorn, Initialise, Install, ScanDies

\* A write cut short makes a readable journal unreadable only by cutting a character
\* in two.
THEOREM CrashLeavesATailAlways == Spec => CrashLeavesATail
<1>1. ASSUME WellFormed, [Next]_vars, faults' # faults, Readable, IsText(journal')
      PROVE  Readable'
  <2>1. CASE journal' = journal
    BY <1>1, <2>1 DEF Readable, ReadAll, IsText, BadLines, Blank, Parses
  <2>2. ASSUME NEW c \in Clients, NEW e \in Events, AppendTorn(c, e)
        PROVE  Readable'
    <3>1. PICK halves \in Seq(Halves) : journal' = Write(journal, halves)
      BY <2>2, TornAppendWritesAPart
    <3>2. /\ journal \in NonemptyFiles /\ Len(journal) \in Nat
          /\ DOMAIN journal = 1..Len(journal)
          /\ Len(journal') = Len(journal) /\ DOMAIN journal' = 1..Len(journal)
          /\ \A i \in 1..(Len(journal) - 1) : journal'[i] = journal[i]
      <4>1. /\ journal \in NonemptyFiles /\ Len(journal) \in Nat
            /\ DOMAIN journal = 1..Len(journal)
        BY <1>1, JournalLines
      <4>2. /\ journal' \in NonemptyFiles /\ Len(journal') = Len(journal)
            /\ \A i \in 1..(Len(journal) - 1) : journal'[i] = journal[i]
        BY <3>1, <4>1, WriteExtendsLast
      <4>3. DOMAIN journal' = 1..Len(journal')
        BY <4>2 DEF NonemptyFiles, Files
      <4> QED
        BY <4>1, <4>2, <4>3
    <3>3. \A i \in DOMAIN journal' \ {Len(journal)} : i \in DOMAIN journal /\ journal'[i] = journal[i]
      BY <3>2
    <3>4. BadLines(journal') \subseteq {Len(journal)}
      BY <1>1, <3>3 DEF Readable, ReadAll, BadLines
    <3> QED
      BY <1>1, <3>2, <3>4 DEF Readable, ReadAll
  <2> QED
    BY <1>1, <2>1, <2>2
       DEF Next, vars, Open, Create, AppendEntry, MarkApplied, MarkTorn, Initialise, Install,
           WriteScan, ScanDies
<1>2. WellFormed /\ [Next]_vars => [faults' # faults /\ Readable /\ IsText(journal') => Readable']_vars
  BY <1>1
<1> QED
  BY <1>2, AlwaysWellFormed, PTL DEF Spec, CrashLeavesATail

-----------------------------------------------------------------------------
(* Corruption has a cause.                                                 *)

Undisturbed == tried = appended /\ \A s \in Scans : written[s] = 0

\* Without a torn append and without a scan, lines are events and the last is blank.
LinesAreEvents ==
    Undisturbed =>
        /\ journal[Len(journal)] = <<>>
        /\ \A i \in DOMAIN journal : Blank(journal[i]) \/ Parses(journal[i])

LEMMA EmptyIsBlank == ASSUME journal = Empty PROVE LinesAreEvents
BY EmptyIsAFile DEF LinesAreEvents, Blank

LEMMA LinesInitially == Init => LinesAreEvents
BY EmptyIsBlank DEF Init

LEMMA LinesStep ==
    ASSUME WellFormed, LinesAreEvents, [Next]_vars
    PROVE  LinesAreEvents'
<1>1. CASE journal' = Empty
  BY <1>1, EmptyIsAFile DEF LinesAreEvents, Blank
<1>2. ASSUME NEW c \in Clients, NEW e \in Events, AppendEntry(c, e), Undisturbed',
             Len(journal') = Len(journal) + 1, journal'[Len(journal) + 1] = <<>>,
             journal'[Len(journal)] = journal[Len(journal)] \o Record(e),
             \A i \in 1..(Len(journal) - 1) : journal'[i] = journal[i]
      PROVE  LinesAreEvents'
  <2>1. Undisturbed
    BY <1>2 DEF Undisturbed, AppendEntry, WellFormed, TypeOK
  <2>2. journal'[Len(journal)] = Record(e)
    <3>1. Record(e) \in Seq(Halves)
      BY RecordIsTwoHalves
    <3> QED
      BY <1>2, <2>1, <3>1 DEF LinesAreEvents
  <2>3. /\ Len(journal) \in Nat /\ DOMAIN journal = 1..Len(journal)
        /\ DOMAIN journal' = 1..(Len(journal) + 1)
    <3>1. journal' \in Files
      BY <1>2, FilesStayNonempty DEF Next
    <3> QED
      BY <1>2, <3>1, JournalLines DEF Files
  <2>4. ASSUME NEW i \in DOMAIN journal'
        PROVE  Blank(journal'[i]) \/ Parses(journal'[i])
    <3>1. CASE i = Len(journal) + 1
      BY <1>2, <3>1 DEF Blank
    <3>2. CASE i = Len(journal)
      BY <2>2, <3>2 DEF Parses
    <3>3. CASE i \in 1..(Len(journal) - 1)
      BY <1>2, <2>1, <2>3, <3>3 DEF LinesAreEvents
    <3> QED
      BY <2>3, <2>4, <3>1, <3>2, <3>3
  <2> QED
    BY <1>2, <2>4 DEF LinesAreEvents
<1>3. ASSUME NEW c \in Clients, NEW e \in Events, AppendTorn(c, e)
      PROVE  ~Undisturbed'
  BY <1>3 DEF AppendTorn, Undisturbed, WellFormed, TypeOK
<1>4. ASSUME NEW s \in Scans, WriteScan(s)
      PROVE  ~Undisturbed'
  <2>1. written'[s] = written[s] + 1 /\ written[s] \in 0..3
    BY <1>4 DEF WriteScan, WellFormed, TypeOK
  <2> QED
    BY <2>1 DEF Undisturbed
<1>5. CASE ~Undisturbed'
  BY <1>5 DEF LinesAreEvents
<1>6. ASSUME UNCHANGED journal, Undisturbed', [Next]_vars
      PROVE  LinesAreEvents'
  <2>1. CASE Undisturbed
    BY <1>6, <2>1 DEF LinesAreEvents, Blank, Parses
  <2>2. appended \subseteq tried
    BY DEF WellFormed, TypeOK
  <2>3. ASSUME NEW c \in Clients, NEW e \in Events, AppendEntry(c, e)
        PROVE  Undisturbed
    <3>1. /\ tried' = tried \union {e} /\ appended' = appended \union {e}
          /\ e \notin tried /\ UNCHANGED written
      BY <2>3 DEF AppendEntry
    <3>2. tried' = appended' /\ \A s \in Scans : written'[s] = 0
      BY <1>6 DEF Undisturbed
    <3> QED
      BY <2>2, <3>1, <3>2 DEF Undisturbed
  <2>4. UNCHANGED <<tried, appended, written>> => Undisturbed
    BY <1>6 DEF Undisturbed
  <2>5. \/ UNCHANGED <<tried, appended, written>>
        \/ \E c \in Clients, e \in Events : AppendEntry(c, e) \/ AppendTorn(c, e)
        \/ \E s \in Scans : WriteScan(s)
    BY <1>6 DEF Next, vars, Open, Create, MarkApplied, MarkTorn, Initialise, Install, ScanDies
  <2>6. ASSUME NEW c \in Clients, NEW e \in Events, AppendEntry(c, e) \/ AppendTorn(c, e)
        PROVE  Undisturbed
    BY <1>3, <1>6, <2>3, <2>6
  <2>7. ASSUME NEW s \in Scans, WriteScan(s)
        PROVE  Undisturbed
    BY <1>4, <1>6, <2>7
  <2> QED
    BY <2>1, <2>4, <2>5, <2>6, <2>7
<1> QED
  <2>1. CASE UNCHANGED vars
    BY <2>1 DEF vars, LinesAreEvents, Undisturbed, Blank, Parses
  <2>2. CASE Next
    BY <1>1, <1>2, <1>3, <1>4, <1>5, <1>6, <2>2, JournalStep
  <2> QED
    BY <2>1, <2>2

LEMMA AlwaysLinesAreEvents == Spec => []LinesAreEvents
<1>1. LinesAreEvents /\ WellFormed /\ [Next]_vars => LinesAreEvents'
  BY LinesStep
<1> QED
  BY <1>1, LinesInitially, AlwaysWellFormed, PTL DEF Spec

\* A journal is corrupt only after an append was cut short or a scan wrote to it.
THEOREM CorruptionIsExplainedAlways == Spec => []CorruptionIsExplained
<1>1. WellFormed /\ LinesAreEvents => CorruptionIsExplained
  <2> SUFFICES ASSUME WellFormed, LinesAreEvents, ~Readable, Undisturbed PROVE FALSE
    BY DEF CorruptionIsExplained, Undisturbed, WellFormed, TypeOK
  <2>1. BadLines(journal) = {}
    BY DEF LinesAreEvents, BadLines
  <2>2. ASSUME NEW i \in DOMAIN journal, NEW k \in DOMAIN journal[i], NEW e \in Events
        PROVE  journal[i][k] # CutCharacter(e)
    <3>1. CASE Blank(journal[i])
      BY <2>2, <3>1 DEF Blank
    <3>2. ASSUME NEW x \in Events, journal[i] = Record(x)
          PROVE  journal[i][k] # CutCharacter(e)
      <4>1. k \in {1, 2}
        BY <2>2, <3>2, RecordIsTwoHalves
      <4>2. journal[i][k] \in {FirstHalf(x), SecondHalf(x)}
        BY <3>2, <4>1, RecordIsTwoHalves
      <4>3. FirstHalf(x) # CutCharacter(e) /\ SecondHalf(x) # CutCharacter(e)
        BY DEF FirstHalf, SecondHalf, CutCharacter
      <4> QED
        BY <4>2, <4>3
    <3> QED
      BY <3>1, <3>2 DEF LinesAreEvents, Parses
  <2>3. IsText(journal)
    BY <2>2 DEF IsText
  <2> QED
    BY <2>1, <2>3 DEF Readable, ReadAll
<1> QED
  BY <1>1, AlwaysWellFormed, AlwaysLinesAreEvents, PTL

-----------------------------------------------------------------------------
(* Nothing is lost.                                                        *)

\* While no journal has been created, either there is none and none to write to, or
\* there is one and nobody is about to put another in its place.
CreationComesFirst ==
    created = 0 =>
        IF exists THEN \A p \in Clients \union Scans : at[p] \notin {"create", "install"}
        ELSE appended = {} /\ \A c \in Clients : at[c] # "open"

\* The first half of an event is in a line that has its newline.
Kept(e) ==
    \E i \in 1..(Len(journal) - 1) :
        \E k \in DOMAIN journal[i] : journal[i][k] = FirstHalf(e)

AppendedIsKept ==
    /\ CreationComesFirst
    /\ created <= 1 => \A e \in appended : Kept(e)

LEMMA KeptInitially == Init => AppendedIsKept
<1> SUFFICES ASSUME Init PROVE AppendedIsKept
  OBVIOUS
<1>1. CreationComesFirst
  <2>1. \A p \in Clients \union Scans : at[p] \in {"closed", "start"}
    BY DEF Init
  <2> QED
    BY <2>1 DEF CreationComesFirst, Init
<1> QED
  BY <1>1 DEF AppendedIsKept, Init

LEMMA CreationStep ==
    ASSUME WellFormed, CreationComesFirst, [Next]_vars
    PROVE  CreationComesFirst'
<1>1. /\ at \in [Clients \union Scans -> {"closed", "create", "open", "start", "install", "write", "done"}]
      /\ created \in Nat
  BY DEF WellFormed, TypeOK
<1>2. CASE created' = created + 1
  BY <1>1, <1>2 DEF CreationComesFirst
<1>3. ASSUME NEW p \in Clients \union Scans, at' = [at EXCEPT ![p] = "open"], p \in Clients,
             exists, UNCHANGED <<exists, created, appended>>
      PROVE  CreationComesFirst'
  BY <1>1, <1>3 DEF CreationComesFirst
<1>4. ASSUME NEW p \in Clients \union Scans, NEW place \in {"create", "install"},
             at' = [at EXCEPT ![p] = place],
             ~exists, UNCHANGED <<exists, created, appended>>
      PROVE  CreationComesFirst'
  BY <1>1, <1>4 DEF CreationComesFirst
<1>5. ASSUME NEW p \in Clients \union Scans, NEW place \in {"closed", "write", "done"},
             at' = [at EXCEPT ![p] = place], UNCHANGED <<exists, created, appended>>
      PROVE  CreationComesFirst'
  <2>1. \A q \in Clients \union Scans : at'[q] = at[q] \/ at'[q] \in {"closed", "write", "done"}
    BY <1>1, <1>5
  <2> QED
    BY <1>5, <2>1 DEF CreationComesFirst
<1>6. ASSUME NEW c \in Clients, NEW e \in Events, AppendEntry(c, e)
      PROVE  CreationComesFirst'
  BY <1>6 DEF CreationComesFirst, AppendEntry
<1>7. CASE UNCHANGED <<exists, created, appended, at>>
  BY <1>7 DEF CreationComesFirst
<1>8. Service \in Clients
  BY DEF Clients
<1>9. ASSUME NEW c \in Clients, Open(c) PROVE CreationComesFirst'
  BY <1>3, <1>4, <1>9 DEF Open, Go
<1>10. ASSUME NEW c \in Clients, NEW e \in Events, AppendTorn(c, e) PROVE CreationComesFirst'
  BY <1>5, <1>10 DEF AppendTorn, Ends, Go
<1>11. ASSUME NEW e \in Events, MarkTorn(e) PROVE CreationComesFirst'
  BY <1>5, <1>8, <1>11 DEF MarkTorn, Ends, Go
<1>12. ASSUME NEW s \in Scans, Initialise(s) PROVE CreationComesFirst'
  BY <1>4, <1>5, <1>12 DEF Initialise, Go
<1>13. ASSUME NEW s \in Scans, WriteScan(s) \/ ScanDies(s) PROVE CreationComesFirst'
  BY <1>5, <1>13 DEF WriteScan, ScanDies, Go
<1> QED
  BY <1>2, <1>6, <1>7, <1>9, <1>10, <1>11, <1>12, <1>13
     DEF Next, vars, Create, Install, MarkApplied

\* A line that has its newline is never written to again.
LEMMA KeptStaysKept ==
    ASSUME WellFormed, Next, created' = created, NEW e, Kept(e)
    PROVE  Kept(e)'
<1>1. PICK i \in 1..(Len(journal) - 1) :
         \E k \in DOMAIN journal[i] : journal[i][k] = FirstHalf(e)
  BY DEF Kept
<1>2. /\ Len(journal) \in Nat
      /\ Len(journal') \in {Len(journal), Len(journal) + 1}
      /\ journal'[i] = journal[i]
  <2>1. created \in Nat
    BY DEF WellFormed, TypeOK
  <2>2. i \in 1..(Len(journal) - 1) /\ Len(journal) \in Nat
    BY JournalLines
  <2> QED
    BY <2>1, <2>2, JournalStep
<1>3. i \in 1..(Len(journal') - 1)
  BY <1>2
<1> QED
  BY <1>1, <1>2, <1>3 DEF Kept

LEMMA KeptStep ==
    ASSUME WellFormed, AppendedIsKept, [Next]_vars
    PROVE  AppendedIsKept'
<1>1. CreationComesFirst'
  BY CreationStep DEF AppendedIsKept
<1>2. SUFFICES ASSUME created' <= 1, NEW e \in appended'
               PROVE  Kept(e)'
  BY <1>1 DEF AppendedIsKept
<1>3. CASE UNCHANGED vars
  BY <1>2, <1>3 DEF vars, AppendedIsKept, Kept
<1>4. ASSUME NEW p \in Clients \union Scans, at[p] \in {"create", "install"},
             created' = created + 1, UNCHANGED appended
      PROVE  FALSE
  <2>1. created = 0
    BY <1>2, <1>4 DEF WellFormed, TypeOK
  <2> QED
    BY <1>2, <1>4, <2>1 DEF AppendedIsKept, CreationComesFirst
<1>5. ASSUME NEW c \in Clients, NEW x \in Events, AppendEntry(c, x)
      PROVE  Kept(e)'
  <2>1. CASE e \in appended
    <3>1. Kept(e)
      BY <1>2, <1>5, <2>1 DEF AppendEntry, AppendedIsKept
    <3>2. Next /\ created' = created
      BY <1>5 DEF Next, AppendEntry
    <3> QED
      BY <3>1, <3>2, KeptStaysKept
  <2>2. CASE e = x
    <3> DEFINE line == journal[Len(journal)]
    <3>1. journal' = NewLine(Write(journal, Record(x)))
      BY <1>5 DEF AppendEntry
    <3>2. Record(x) \in Seq(Halves) /\ Len(Record(x)) = 2 /\ Record(x)[1] = FirstHalf(x)
      BY RecordIsTwoHalves
    <3>3. /\ Len(journal') = Len(journal) + 1 /\ Len(journal) \in Nat /\ Len(journal) > 0
          /\ journal'[Len(journal)] = line \o Record(x) /\ line \in Seq(Halves)
      BY <3>1, <3>2, EntryWritten, JournalLines
    <3>4. /\ Len(line) + 1 \in DOMAIN (line \o Record(x))
          /\ (line \o Record(x))[Len(line) + 1] = FirstHalf(x)
      <4> HIDE DEF line
      <4>1. /\ Len(line \o Record(x)) = Len(line) + 2 /\ Len(line) \in Nat
            /\ line \o Record(x) \in Seq(Halves)
            /\ (line \o Record(x))[Len(line) + 1] = Record(x)[1]
        <5>1. Len(line) \in Nat /\ line \in Seq(Halves) /\ Record(x) \in Seq(Halves)
          BY <3>2, <3>3
        <5>2. /\ line \o Record(x) \in Seq(Halves)
              /\ Len(line \o Record(x)) = Len(line) + Len(Record(x))
              /\ \A i \in 1..(Len(line) + Len(Record(x))) : (line \o Record(x))[i] =
                    IF i <= Len(line) THEN line[i] ELSE Record(x)[i - Len(line)]
          BY <5>1, ConcatProperties
        <5>3. Len(line) + 1 \in 1..(Len(line) + Len(Record(x)))
          BY <3>2, <5>1
        <5>4. ~(Len(line) + 1 <= Len(line)) /\ Len(line) + 1 - Len(line) = 1
          BY <5>1
        <5> QED
          BY <3>2, <5>1, <5>2, <5>3, <5>4
      <4> QED
        BY <3>2, <4>1
    <3>5. Len(journal) \in 1..(Len(journal') - 1)
      BY <3>3
    <3> HIDE DEF line
    <3> QED
      BY <2>2, <3>3, <3>4, <3>5 DEF Kept
  <2> QED
    BY <1>2, <1>5, <2>1, <2>2 DEF AppendEntry
<1>6. ASSUME Next, UNCHANGED <<created, appended>>
      PROVE  Kept(e)'
  BY <1>2, <1>6, KeptStaysKept DEF AppendedIsKept
<1> QED
  BY <1>3, <1>4, <1>5, <1>6
     DEF Next, Open, Create, AppendTorn, MarkApplied, MarkTorn, Initialise, Install, WriteScan,
         ScanDies

LEMMA AlwaysAppendedIsKept == Spec => []AppendedIsKept
<1>1. AppendedIsKept /\ WellFormed /\ [Next]_vars => AppendedIsKept'
  BY KeptStep
<1> QED
  BY <1>1, KeptInitially, AlwaysWellFormed, PTL DEF Spec

\* A journal that can be read and was created at most once hands back every event that
\* was appended and not handed to mark_applied.
THEOREM RestartMissesNothingAlways == Spec => []RestartMissesNothing
<1>1. WellFormed /\ MarkersAreWhole /\ AppendedIsKept => RestartMissesNothing
  <2> SUFFICES ASSUME WellFormed, MarkersAreWhole, AppendedIsKept, Readable, created <= 1,
                      NEW e \in appended, e \notin marking
               PROVE  e \in Pending
    BY DEF RestartMissesNothing
  <2>1. PICK i \in 1..(Len(journal) - 1) :
           \E k \in DOMAIN journal[i] : journal[i][k] = FirstHalf(e)
    BY DEF AppendedIsKept, Kept
  <2>2. i \in DOMAIN journal /\ i # Len(journal)
    <3>1. Len(journal) \in Nat /\ DOMAIN journal = 1..Len(journal)
      BY JournalLines
    <3>2. ASSUME NEW n \in Nat, NEW j \in 1..(n - 1) PROVE j \in 1..n /\ j # n
      OBVIOUS
    <3>3. i \in 1..(Len(journal) - 1)
      OBVIOUS
    <3> QED
      BY <3>1, <3>2, <3>3
  <2>3. Blank(journal[i]) \/ Parses(journal[i])
    BY <2>2 DEF Readable, ReadAll, BadLines
  <2>4. ~Blank(journal[i])
    BY <2>1 DEF Blank
  <2>5. PICK x \in Events : journal[i] = Record(x)
    BY <2>3, <2>4 DEF Parses
  <2>6. x = e
    BY <2>1, <2>5, RecordIsTwoHalves, HalvesDiffer
  <2>7. e \in ReadAll(journal).entries
    BY <2>2, <2>5, <2>6 DEF ReadAll, Parsed, Range
  <2>8. e \notin AppliedIds(sidecar)
    BY AppliedWereMarked
  <2> QED
    BY <2>7, <2>8 DEF Pending
<1> QED
  BY <1>1, AlwaysWellFormed, AlwaysMarkersAreWhole, AlwaysAppendedIsKept, PTL
=============================================================================
