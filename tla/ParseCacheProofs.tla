--------------------------- MODULE ParseCacheProofs ---------------------------
(***************************************************************************)
(* Proofs about ParseCache, for any files, contents and languages: its     *)
(* types, that a strange parse is one that raced, that nothing dead is     *)
(* kept, and that a pass over files that keep still is exact.              *)
(***************************************************************************)
EXTENDS ParseCache, TLAPS

\* A cached parse could be made, of the content it stands for or of one that
\* raced, in a language that content has been used in.
EntriesAreExplained ==
    \A c \in DOMAIN cache :
        /\ cache[c].content \notin Unparsable
        /\ cache[c].content # c => c \in raced
        /\ cache[c].language \in seen[c]

\* A file that waits for its parse is as it was hashed, or has raced.
WaitingIsWatched ==
    \A f \in File : Awaited(f) =>
        hashed[f] \in raced \/ (f \in DOMAIN tree /\ tree[f] = hashed[f])

\* What a pass holds in each phase.
PassIsOrderly ==
    /\ phase = "idle" => hashed = Empty
    /\ phase \in {"idle", "scan"} => parses = Empty /\ at = 1
    /\ phase \in {"parse", "done"} => unread = {}
    /\ phase = "done" => at = N + 1
    /\ \A f \in DOMAIN parses : f < at
    /\ DOMAIN hashed \intersect unread = {}

\* While no file changes, the scan has found what is there.
QuietScanIsTrue ==
    phase # "idle" /\ quiet =>
        \A f \in File \ unread :
            /\ f \in DOMAIN hashed <=> f \in DOMAIN tree
            /\ f \in DOMAIN hashed => hashed[f] = tree[f]

\* A content has been used in the language of every file that is done.
LanguagesAreNoted ==
    phase \in {"parse", "done"} =>
        \A f \in DOMAIN hashed \intersect Parsed :
            f < at => LanguageOf[f] \in seen[hashed[f]]

\* While no file changes, every file that is done is exact or doubtful.
QuietPrefixIsExact ==
    phase \in {"parse", "done"} /\ quiet =>
        \A f \in File : f < at => Exact(f) \/ Doubtful(f)

Inv ==
    /\ TypeOK
    /\ EntriesAreExplained
    /\ WaitingIsWatched
    /\ PassIsOrderly
    /\ QuietScanIsTrue
    /\ LanguagesAreNoted
    /\ QuietPrefixIsExact
    /\ CacheIsLive

-----------------------------------------------------------------------------
(* Partial functions.                                                      *)

LEMMA PartialIs ==
    ASSUME NEW D, NEW R, NEW fun \in Partial(D, R)
    PROVE  /\ DOMAIN fun \subseteq D
           /\ fun \in [DOMAIN fun -> R]
<1>1. PICK S \in SUBSET D : fun \in [S -> R]
    BY DEF Partial
<1> QED
    BY <1>1

LEMMA PartialHas ==
    ASSUME NEW D, NEW R, NEW S \in SUBSET D, NEW fun \in [S -> R]
    PROVE  fun \in Partial(D, R)
BY DEF Partial

LEMMA EmptyIsPartial ==
    ASSUME NEW D, NEW R
    PROVE  Empty \in Partial(D, R) /\ DOMAIN Empty = {}
<1>1. Empty \in [{} -> R] /\ DOMAIN Empty = {}
    BY DEF Empty
<1> QED
    BY <1>1, PartialHas

LEMMA WithIsPartial ==
    ASSUME NEW D, NEW R, NEW fun \in Partial(D, R), NEW x \in D, NEW y \in R
    PROVE  With(fun, x, y) \in Partial(D, R)
<1>1. DOMAIN fun \subseteq D /\ \A z \in DOMAIN fun : fun[z] \in R
    BY PartialIs
<1>2. With(fun, x, y) \in [DOMAIN fun \union {x} -> R]
    BY <1>1 DEF With
<1> QED
    BY <1>1, <1>2, PartialHas

LEMMA ShrunkIsPartial ==
    ASSUME NEW D, NEW R, NEW fun \in Partial(D, R), NEW S \in SUBSET DOMAIN fun
    PROVE  [z \in S |-> fun[z]] \in Partial(D, R)
<1>1. DOMAIN fun \subseteq D /\ \A z \in DOMAIN fun : fun[z] \in R
    BY PartialIs
<1>2. S \in SUBSET D /\ [z \in S |-> fun[z]] \in [S -> R]
    BY <1>1
<1> QED
    BY <1>2, PartialHas

-----------------------------------------------------------------------------
(* Types.                                                                  *)

LEMMA ParseOfType ==
    ASSUME TypeOK, NEW f \in Parsed, f \in DOMAIN tree
    PROVE  ParseOf(f) \in Parse
<1>1. tree[f] \in Content
    BY PartialIs DEF TypeOK
<1>2. LanguageOf[f] \in Language
    BY DEF Language
<1> QED
    BY <1>1, <1>2 DEF ParseOf, Parse

LEMMA RestType == ASSUME Rest
                  PROVE  /\ hashed' \in Partial(File, Content)
                         /\ parses' \in Partial(Parsed, Parse)
                         /\ unread' \subseteq File /\ at' \in 1..N + 1
BY NAssumption, EmptyIsPartial DEF Rest

LEMMA ParseFileType == ASSUME TypeOK, ParseFile
                       PROVE  TypeOK'
<1>1. /\ at \in File /\ at' = at + 1
      /\ UNCHANGED <<tree, hashed, unread, phase, quiet, raced>>
    BY DEF ParseFile
<1>2. at' \in 1..N + 1
    BY <1>1, NAssumption DEF File
<1>3. CASE at \in DOMAIN hashed /\ at \in Parsed
    <2>1. /\ Hit(at) \/ Miss(at)
          /\ seen' = [seen EXCEPT ![hashed[at]] = @ \union {LanguageOf[at]}]
        BY <1>3 DEF ParseFile
    <2>2. hashed[at] \in Content /\ LanguageOf[at] \in Language
        BY <1>3, PartialIs DEF TypeOK, Language
    <2>3. seen' \in [Content -> SUBSET Language]
        BY <2>1, <2>2 DEF TypeOK
    <2>4. cache' \in Partial(Content, Parse) /\ parses' \in Partial(Parsed, Parse)
        <3>1. CASE Hit(at)
            <4>1. cache[hashed[at]] \in Parse
                BY <3>1, PartialIs DEF Hit, TypeOK
            <4> QED
                BY <1>3, <3>1, <4>1, WithIsPartial DEF Hit, TypeOK
        <3>2. CASE Miss(at) /\ Parsable(at)
            <4>1. ParseOf(at) \in Parse
                BY <1>3, <3>2, ParseOfType DEF Parsable
            <4> QED
                BY <1>3, <2>2, <3>2, <4>1, WithIsPartial DEF Miss, Keep, TypeOK
        <3>3. CASE Miss(at) /\ ~Parsable(at)
            BY <3>3 DEF Miss, TypeOK
        <3> QED
            BY <2>1, <3>1, <3>2, <3>3
    <2> QED
        BY <1>1, <1>2, <2>3, <2>4 DEF TypeOK
<1>4. CASE ~(at \in DOMAIN hashed /\ at \in Parsed)
    BY <1>1, <1>2, <1>4 DEF ParseFile, TypeOK
<1> QED
    BY <1>3, <1>4

LEMMA TypeStep == ASSUME TypeOK, [Next]_vars
                  PROVE  TypeOK'
<1>1. ASSUME NEW f \in File, Remove(f) PROVE TypeOK'
    <2>1. tree' \in Partial(File, Content)
        BY <1>1, ShrunkIsPartial DEF Remove, TypeOK
    <2>2. raced' \subseteq Content
        BY <1>1, PartialIs DEF Remove, Touch, Awaited, TypeOK
    <2> QED
        BY <1>1, <2>1, <2>2 DEF Remove, Touch, TypeOK
<1>2. ASSUME NEW f \in File, NEW c \in Content, Write(f, c) PROVE TypeOK'
    <2>1. tree' \in Partial(File, Content)
        BY <1>2, WithIsPartial DEF Write, TypeOK
    <2>2. raced' \subseteq Content
        BY <1>2, PartialIs DEF Write, Touch, Awaited, TypeOK
    <2> QED
        BY <1>2, <2>1, <2>2 DEF Write, Touch, TypeOK
<1>3. ASSUME NEW f \in File, ReadFile(f) PROVE TypeOK'
    <2>1. f \in DOMAIN tree => tree[f] \in Content
        BY PartialIs DEF TypeOK
    <2>2. hashed' \in Partial(File, Content)
        BY <1>3, <2>1, WithIsPartial DEF ReadFile, TypeOK
    <2> QED
        BY <1>3, <2>2 DEF ReadFile, TypeOK
<1>4. CASE Begin
    BY <1>4 DEF Begin, TypeOK
<1>5. CASE ScanFails
    BY <1>5, RestType DEF ScanFails, TypeOK
<1>6. CASE Retain
    <2>1. cache' \in Partial(Content, Parse)
        BY <1>6, ShrunkIsPartial DEF Retain, TypeOK
    <2>2. seen' \in [Content -> SUBSET Language]
        BY <1>6 DEF Retain, TypeOK
    <2> QED
        BY <1>6, <2>1, <2>2 DEF Retain, TypeOK
<1>7. CASE ParseFile
    BY <1>7, ParseFileType
<1>8. CASE Enriched
    BY <1>8 DEF Enriched, TypeOK
<1>9. CASE End
    BY <1>9, RestType DEF End, TypeOK
<1>10. CASE Restart
    BY <1>10, RestType, EmptyIsPartial DEF Restart, TypeOK
<1>11. CASE UNCHANGED vars
    BY <1>11 DEF vars, TypeOK
<1> QED
    BY <1>1, <1>2, <1>3, <1>4, <1>5, <1>6, <1>7, <1>8, <1>9, <1>10, <1>11 DEF Next

LEMMA TypeInit == Init => TypeOK
<1> SUFFICES ASSUME Init PROVE TypeOK
    OBVIOUS
<1>1. tree \in Partial(File, Content)
    BY PartialHas DEF Init
<1>2. 1 \in 1..N + 1
    BY NAssumption
<1> QED
    BY <1>1, <1>2, EmptyIsPartial DEF Init, TypeOK

\* Every state is well typed, for any files, contents and languages.
THEOREM TypeCorrect == Spec => []TypeOK
BY TypeInit, TypeStep, PTL DEF Spec

-----------------------------------------------------------------------------
(* The invariant, one lemma for each part.                                 *)

\* The changes of the files, together: they leave everything of the pass alone.
Change == \E f \in File : Touch(f) /\ \A g \in File \ {f} :
              /\ g \in DOMAIN tree' <=> g \in DOMAIN tree
              /\ g \in DOMAIN tree => tree'[g] = tree[g]

LEMMA ChangeIs ==
    ASSUME NEW f \in File, Remove(f) \/ \E c \in Content : Write(f, c)
    PROVE  Change
<1>1. CASE Remove(f)
    BY <1>1 DEF Remove, Change
<1>2. ASSUME NEW c \in Content, Write(f, c) PROVE Change
    <2>1. Touch(f) /\ tree' = With(tree, f, c)
        BY <1>2 DEF Write
    <2> QED
        BY <2>1 DEF With, Change
<1> QED
    BY <1>1, <1>2

\* How a step changes the things of the pass.
LEMMA Steps ==
    ASSUME [Next]_vars
    PROVE  \/ Change
           \/ \E f \in File : ReadFile(f)
           \/ Begin \/ ScanFails \/ Retain \/ ParseFile \/ Enriched \/ End \/ Restart
           \/ UNCHANGED vars
BY ChangeIs DEF Next

\* What a hit gives, and what is kept.
LEMMA ParseFileIs ==
    ASSUME TypeOK, ParseFile, at \in DOMAIN hashed, at \in Parsed
    PROVE  /\ hashed[at] \in Content
           /\ seen' = [c \in Content |-> IF c = hashed[at]
                          THEN seen[c] \union {LanguageOf[at]} ELSE seen[c]]
           /\ \/ Hit(at)
              \/ hashed[at] \notin DOMAIN cache /\ Parsable(at) /\ Keep(at)
              \/ hashed[at] \notin DOMAIN cache /\ ~Parsable(at)
                    /\ UNCHANGED <<cache, parses>>
<1>1. hashed[at] \in Content
    BY PartialIs DEF TypeOK
<1>2. Hit(at) \/ Miss(at)
    BY DEF ParseFile
<1>3. seen' = [seen EXCEPT ![hashed[at]] = @ \union {LanguageOf[at]}]
    BY DEF ParseFile
<1> QED
    BY <1>1, <1>2, <1>3 DEF Miss, TypeOK

LEMMA EntriesStep ==
    ASSUME Inv, TypeOK', [Next]_vars
    PROVE  EntriesAreExplained'
<1> USE DEF EntriesAreExplained
<1>1. DOMAIN cache \subseteq Content
    BY PartialIs DEF Inv, TypeOK
<1>2. CASE Change
    BY <1>2 DEF Change, Touch, Inv
<1>3. ASSUME NEW f \in File, ReadFile(f) PROVE EntriesAreExplained'
    BY <1>3 DEF ReadFile, Inv
<1>4. CASE Begin \/ ScanFails \/ Enriched \/ End
    BY <1>4 DEF Begin, ScanFails, Enriched, End, Inv
<1>5. CASE Retain
    BY <1>1, <1>5 DEF Retain, Inv
<1>6. CASE ParseFile
    <2>1. CASE at \in DOMAIN hashed /\ at \in Parsed
        <3>1. UNCHANGED raced /\ WaitingIsWatched /\ at \in File /\ phase = "parse"
            BY <1>6 DEF ParseFile, Inv
        <3>2. \A c \in Content : seen[c] \subseteq seen'[c]
            BY <1>6, <2>1, ParseFileIs DEF Inv
        <3>3. CASE UNCHANGED cache
            BY <1>1, <3>1, <3>2, <3>3 DEF Inv
        <3>4. CASE Parsable(at) /\ Keep(at)
            <4>1. hashed[at] \in raced \/ tree[at] = hashed[at]
                BY <2>1, <3>1 DEF WaitingIsWatched, Awaited, File
            <4>2. LanguageOf[at] \in seen'[hashed[at]]
                BY <1>6, <2>1, ParseFileIs DEF Inv
            <4>3. /\ ParseOf(at).content = tree[at]
                  /\ ParseOf(at).language = LanguageOf[at]
                BY DEF ParseOf
            <4>4. /\ DOMAIN cache' = DOMAIN cache \union {hashed[at]}
                  /\ cache'[hashed[at]] = ParseOf(at)
                  /\ \A c \in DOMAIN cache \ {hashed[at]} : cache'[c] = cache[c]
                BY <3>4 DEF Keep, With
            <4>5. tree[at] \notin Unparsable
                BY <3>4 DEF Parsable
            <4> QED
                BY <1>1, <3>1, <3>2, <4>1, <4>2, <4>3, <4>4, <4>5 DEF Inv
        <3> QED
            BY <1>6, <2>1, <3>3, <3>4, ParseFileIs DEF Hit, Inv
    <2>2. CASE ~(at \in DOMAIN hashed /\ at \in Parsed)
        BY <1>6, <2>2 DEF ParseFile, Inv
    <2> QED
        BY <2>1, <2>2
<1>7. CASE Restart
    <2>1. DOMAIN cache' = {}
        BY <1>7, EmptyIsPartial DEF Restart
    <2> QED
        BY <2>1
<1>8. CASE UNCHANGED vars
    BY <1>8 DEF vars, Inv
<1> QED
    BY <1>2, <1>3, <1>4, <1>5, <1>6, <1>7, <1>8, Steps

LEMMA WaitingStep ==
    ASSUME Inv, TypeOK', [Next]_vars
    PROVE  WaitingIsWatched'
<1> USE DEF WaitingIsWatched, Awaited
<1>1. CASE Change
    <2>1. PICK f \in File : Touch(f) /\ \A g \in File \ {f} :
              /\ g \in DOMAIN tree' <=> g \in DOMAIN tree
              /\ g \in DOMAIN tree => tree'[g] = tree[g]
        BY <1>1 DEF Change
    <2> QED
        BY <2>1 DEF Touch, Inv
<1>2. ASSUME NEW f \in File, ReadFile(f) PROVE WaitingIsWatched'
    <2>1. CASE f \in DOMAIN tree
        <3>1. /\ DOMAIN hashed' = DOMAIN hashed \union {f} /\ hashed'[f] = tree[f]
              /\ \A g \in DOMAIN hashed \ {f} : hashed'[g] = hashed[g]
            BY <1>2, <2>1 DEF ReadFile, With
        <3> QED
            BY <1>2, <2>1, <3>1 DEF ReadFile, Inv
    <2>2. CASE f \notin DOMAIN tree
        BY <1>2, <2>2 DEF ReadFile, Inv
    <2> QED
        BY <2>1, <2>2
<1>3. CASE Begin
    BY <1>3, EmptyIsPartial DEF Begin, Inv, PassIsOrderly
<1>4. CASE ScanFails \/ End \/ Restart
    BY <1>4 DEF ScanFails, End, Restart
<1>5. CASE Retain
    <2>1. \A f \in DOMAIN hashed : hashed[f] \in Live
        BY DEF Live, Range
    <2> QED
        BY <1>5, <2>1 DEF Retain, Inv
<1>6. CASE ParseFile
    <2>1. at \in Nat /\ at' = at + 1
        BY <1>6, NAssumption DEF ParseFile, File
    <2> QED
        BY <1>6, <2>1 DEF ParseFile, File, Inv
<1>7. CASE Enriched \/ UNCHANGED vars
    BY <1>7 DEF Enriched, vars, Inv
<1> QED
    BY <1>1, <1>2, <1>3, <1>4, <1>5, <1>6, <1>7, Steps

LEMMA OrderlyStep ==
    ASSUME Inv, TypeOK', [Next]_vars
    PROVE  PassIsOrderly'
<1> USE DEF PassIsOrderly
<1>0. CASE Begin
    BY <1>0 DEF Begin, Empty, Inv
<1>1. CASE Change \/ Retain \/ UNCHANGED vars
    BY <1>1 DEF Change, Touch, Retain, vars, Inv
<1>2. ASSUME NEW f \in File, ReadFile(f) PROVE PassIsOrderly'
    BY <1>2 DEF ReadFile, With, Inv
<1>3. CASE ScanFails \/ End \/ Restart
    BY <1>3, EmptyIsPartial DEF ScanFails, End, Restart, Rest
<1>4. CASE Enriched
    BY <1>4 DEF Enriched, Inv
<1>5. CASE ParseFile
    <2>1. at \in Nat /\ at' = at + 1 /\ phase = "parse"
          /\ UNCHANGED <<phase, unread>>
        BY <1>5, NAssumption DEF ParseFile, File
    <2>2. DOMAIN parses \subseteq File /\ File \subseteq Nat
        BY PartialIs, LanguageAssumption, NAssumption DEF Inv, TypeOK, File
    <2>3. DOMAIN parses' \subseteq DOMAIN parses \union {at}
        BY <1>5 DEF ParseFile, Hit, Miss, Keep, With
    <2>4. ASSUME NEW f \in DOMAIN parses'
          PROVE  f < at'
        <3>1. CASE f = at
            BY <2>1, <3>1
        <3>2. CASE f \in DOMAIN parses
            <4>1. f \in Nat /\ f < at
                BY <2>2, <3>2 DEF Inv
            <4> QED
                BY <2>1, <4>1
        <3> QED
            BY <2>3, <3>1, <3>2
    <2>5. UNCHANGED hashed
        BY <1>5 DEF ParseFile
    <2> QED
        BY <2>1, <2>4, <2>5 DEF Inv
<1> QED
    BY <1>0, <1>1, <1>2, <1>3, <1>4, <1>5, Steps

LEMMA QuietScanStep ==
    ASSUME Inv, TypeOK', [Next]_vars
    PROVE  QuietScanIsTrue'
<1> USE DEF QuietScanIsTrue
<1>1. CASE Change
    BY <1>1 DEF Change, Touch
<1>2. ASSUME NEW f \in File, ReadFile(f) PROVE QuietScanIsTrue'
    <2>1. /\ UNCHANGED <<tree, quiet, phase>> /\ phase # "idle"
          /\ unread' = unread \ {f} /\ f \in unread
        BY <1>2 DEF ReadFile
    <2>2. CASE f \in DOMAIN tree
        <3>1. /\ DOMAIN hashed' = DOMAIN hashed \union {f} /\ hashed'[f] = tree[f]
              /\ \A g \in DOMAIN hashed \ {f} : hashed'[g] = hashed[g]
            BY <1>2, <2>2 DEF ReadFile, With
        <3> QED
            BY <2>1, <2>2, <3>1 DEF Inv
    <2>3. CASE f \notin DOMAIN tree
        <3>1. UNCHANGED hashed
            BY <1>2, <2>3 DEF ReadFile
        <3> QED
            BY <2>1, <2>3, <3>1 DEF Inv, PassIsOrderly
    <2> QED
        BY <2>2, <2>3
<1>3. CASE Begin
    BY <1>3 DEF Begin
<1>4. CASE ScanFails \/ End \/ Restart
    BY <1>4 DEF ScanFails, End, Restart
<1>5. CASE Retain \/ ParseFile \/ Enriched \/ UNCHANGED vars
    BY <1>5 DEF Retain, ParseFile, Enriched, vars, Inv
<1> QED
    BY <1>1, <1>2, <1>3, <1>4, <1>5, Steps

LEMMA LanguagesStep ==
    ASSUME Inv, TypeOK', [Next]_vars
    PROVE  LanguagesAreNoted'
<1> USE DEF LanguagesAreNoted
<1>1. CASE Change \/ Enriched \/ UNCHANGED vars
    BY <1>1 DEF Change, Touch, Enriched, vars, Inv
<1>2. ASSUME NEW f \in File, ReadFile(f) PROVE LanguagesAreNoted'
    BY <1>2 DEF ReadFile
<1>3. CASE Begin \/ ScanFails \/ End \/ Restart
    BY <1>3 DEF Begin, ScanFails, End, Restart
<1>4. CASE Retain
    <2>1. at' = 1
        BY <1>4 DEF Retain, Inv, PassIsOrderly
    <2>2. \A f \in Parsed : ~(f < 1)
        BY LanguageAssumption, NAssumption DEF File
    <2> QED
        BY <2>1, <2>2
<1>5. CASE ParseFile
    <2>1. /\ at \in Nat /\ at' = at + 1 /\ UNCHANGED hashed
          /\ phase = "parse"
        BY <1>5, NAssumption DEF ParseFile, File
    <2>2. SUFFICES ASSUME NEW f \in DOMAIN hashed \intersect Parsed, f < at'
                   PROVE  LanguageOf[f] \in seen'[hashed[f]]
        BY <2>1
    <2>3. f \in Nat /\ hashed[f] \in Content
        BY PartialIs, LanguageAssumption, NAssumption DEF Inv, TypeOK, File
    <2>4. CASE f = at
        BY <1>5, <2>4, ParseFileIs DEF Inv
    <2>5. CASE f < at
        <3>1. LanguageOf[f] \in seen[hashed[f]]
            BY <2>1, <2>5 DEF Inv
        <3>2. CASE at \in DOMAIN hashed /\ at \in Parsed
            BY <1>5, <2>3, <3>1, <3>2, ParseFileIs DEF Inv
        <3>3. CASE ~(at \in DOMAIN hashed /\ at \in Parsed)
            BY <1>5, <3>1, <3>3 DEF ParseFile
        <3> QED
            BY <3>2, <3>3
    <2> QED
        BY <2>1, <2>2, <2>3, <2>4, <2>5
<1> QED
    BY <1>1, <1>2, <1>3, <1>4, <1>5, Steps

\* What was exact or doubtful before the parse of another file still is.
LEMMA OthersKeep ==
    ASSUME Inv, ParseFile, quiet, NEW f \in File, f < at
    PROVE  (Exact(f) \/ Doubtful(f))'
<1>1. Exact(f) \/ Doubtful(f)
    BY DEF ParseFile, Inv, QuietPrefixIsExact
<1>2. UNCHANGED <<tree, hashed, raced>> /\ f # at
    BY DEF ParseFile, File
<1>3. /\ f \in DOMAIN parses' <=> f \in DOMAIN parses
      /\ f \in DOMAIN parses => parses'[f] = parses[f]
    BY <1>2 DEF ParseFile, Hit, Miss, Keep, With
<1>4. CASE Exact(f)
    BY <1>2, <1>3, <1>4 DEF Exact, Parsable, ParseOf
<1>5. CASE Doubtful(f)
    <2>1. /\ f \in DOMAIN hashed /\ f \in Parsed
          /\ LanguageOf[f] \in seen[hashed[f]]
        BY <1>5 DEF Doubtful, ParseFile, Inv, LanguagesAreNoted
    <2>2. hashed[f] \in Content
        BY <2>1, PartialIs DEF Inv, TypeOK
    <2>3. seen[hashed[f]] \subseteq seen'[hashed[f]]
        <3>1. CASE at \in DOMAIN hashed /\ at \in Parsed
            BY <2>2, <3>1, ParseFileIs DEF Inv
        <3>2. CASE ~(at \in DOMAIN hashed /\ at \in Parsed)
            BY <3>2 DEF ParseFile
        <3> QED
            BY <3>1, <3>2
    <2> QED
        BY <1>2, <1>5, <2>1, <2>3 DEF Doubtful
<1> QED
    BY <1>1, <1>4, <1>5

\* The file that is parsed comes out exact or doubtful.
LEMMA ParsedIsExact ==
    ASSUME Inv, ParseFile, quiet, NEW f \in File, f = at
    PROVE  (Exact(f) \/ Doubtful(f))'
<1>1. /\ UNCHANGED <<tree, hashed, raced>> /\ phase = "parse"
      /\ f \notin DOMAIN parses
    <2>1. f \in DOMAIN parses => f < f
        BY DEF Inv, PassIsOrderly
    <2> QED
        BY <2>1, NAssumption DEF ParseFile, File
<1>2. /\ f \in DOMAIN hashed <=> f \in DOMAIN tree
      /\ f \in DOMAIN hashed => hashed[f] = tree[f]
    BY <1>1 DEF Inv, PassIsOrderly, QuietScanIsTrue
<1>3. CASE ~(f \in DOMAIN hashed /\ f \in Parsed)
    <2>1. UNCHANGED parses
        BY <1>3 DEF ParseFile
    <2> QED
        BY <1>1, <1>2, <1>3, <2>1 DEF Exact, Parsable
<1>4. CASE f \in DOMAIN hashed /\ f \in Parsed
    <2>1. hashed[f] \in Content /\ f \in DOMAIN tree
        BY <1>2, <1>4, PartialIs DEF Inv, TypeOK
    <2>2. CASE Hit(f)
        <3> DEFINE c == hashed[f]
                   p == cache[c]
        <3>1. c \in DOMAIN cache /\ parses' = With(parses, f, p)
            BY <2>2 DEF Hit
        <3>2. f \in DOMAIN parses' /\ parses'[f] = p
            BY <3>1 DEF With
        <3>3. p = [content |-> p.content, language |-> p.language]
            <4>1. p \in Parse
                BY <3>1, PartialIs DEF Inv, TypeOK
            <4> QED
                BY <4>1 DEF Parse
        <3>4. /\ p.content \notin Unparsable
              /\ p.content # c => c \in raced
              /\ p.language \in seen[c]
            BY <3>1 DEF Inv, EntriesAreExplained
        <3>5. seen'[c] = seen[c] \union {LanguageOf[f]}
            BY <1>4, <2>1, ParseFileIs DEF Inv
        <3>6. CASE p.content = c /\ p.language = LanguageOf[f]
            <4>1. Parsable(f) /\ p = ParseOf(f)
                BY <1>2, <1>4, <2>1, <3>3, <3>4, <3>6 DEF Parsable, ParseOf
            <4> QED
                BY <1>1, <1>4, <3>2, <4>1 DEF Exact, Parsable, ParseOf
        <3>7. CASE p.content # c
            BY <1>1, <1>4, <3>4, <3>7 DEF Doubtful
        <3>8. CASE p.language # LanguageOf[f]
            <4>1. seen'[c] # {LanguageOf[f]}
                BY <3>4, <3>5, <3>8
            <4> QED
                BY <1>1, <1>4, <4>1 DEF Doubtful
        <3> QED
            BY <3>6, <3>7, <3>8
    <2>3. CASE Parsable(f) /\ Keep(f)
        BY <1>1, <1>4, <2>3 DEF Keep, With, Exact, Parsable, ParseOf
    <2>4. CASE ~Parsable(f) /\ UNCHANGED parses
        BY <1>1, <2>4 DEF Exact, Parsable
    <2> QED
        BY <1>4, <2>2, <2>3, <2>4, ParseFileIs DEF Inv
<1> QED
    BY <1>3, <1>4

LEMMA QuietPrefixStep ==
    ASSUME Inv, TypeOK', [Next]_vars
    PROVE  QuietPrefixIsExact'
<1> USE DEF QuietPrefixIsExact
<1>1. CASE Change
    BY <1>1 DEF Change, Touch
<1>2. ASSUME NEW f \in File, ReadFile(f) PROVE QuietPrefixIsExact'
    BY <1>2 DEF ReadFile
<1>3. CASE Begin \/ ScanFails \/ End \/ Restart
    BY <1>3 DEF Begin, ScanFails, End, Restart
<1>4. CASE Retain
    <2>1. at' = 1
        BY <1>4 DEF Retain, Inv, PassIsOrderly
    <2>2. \A f \in File : ~(f < 1)
        BY NAssumption DEF File
    <2> QED
        BY <2>1, <2>2
<1>5. CASE ParseFile
    <2>1. at \in Nat /\ at' = at + 1 /\ UNCHANGED quiet
        BY <1>5, NAssumption DEF ParseFile, File
    <2>2. SUFFICES ASSUME quiet, NEW f \in File, f < at'
                   PROVE  (Exact(f) \/ Doubtful(f))'
        BY <2>1
    <2>3. f < at \/ f = at
        BY <2>1, <2>2, NAssumption DEF File
    <2> QED
        BY <1>5, <2>2, <2>3, OthersKeep, ParsedIsExact
<1>6. CASE Enriched \/ UNCHANGED vars
    BY <1>6 DEF Enriched, vars, Inv, Exact, Doubtful, Parsable, ParseOf
<1> QED
    BY <1>1, <1>2, <1>3, <1>4, <1>5, <1>6, Steps

LEMMA LiveStep ==
    ASSUME Inv, TypeOK', [Next]_vars
    PROVE  CacheIsLive'
<1> USE DEF CacheIsLive
<1>1. CASE Change \/ Enriched \/ UNCHANGED vars
    BY <1>1 DEF Change, Touch, Enriched, vars, Live, Inv
<1>2. ASSUME NEW f \in File, ReadFile(f) PROVE CacheIsLive'
    BY <1>2 DEF ReadFile
<1>3. CASE Begin \/ ScanFails \/ End \/ Restart
    BY <1>3 DEF Begin, ScanFails, End, Restart
<1>4. CASE Retain
    BY <1>4 DEF Retain, Live
<1>5. CASE ParseFile
    <2>1. DOMAIN cache \subseteq Live /\ Live' = Live
        BY <1>5 DEF ParseFile, Live, Inv
    <2>2. at \in DOMAIN hashed => hashed[at] \in Live
        BY DEF Live, Range
    <2> QED
        BY <1>5, <2>1, <2>2 DEF ParseFile, Hit, Miss, Keep, With
<1> QED
    BY <1>1, <1>2, <1>3, <1>4, <1>5, Steps

LEMMA InvInit == Init => Inv
<1> SUFFICES ASSUME Init PROVE Inv
    OBVIOUS
<1>1. TypeOK
    BY TypeInit
<1>2. DOMAIN Empty = {}
    BY DEF Empty
<1>3. EntriesAreExplained /\ WaitingIsWatched /\ PassIsOrderly
    BY <1>2 DEF Init, EntriesAreExplained, WaitingIsWatched, Awaited, PassIsOrderly
<1>4. QuietScanIsTrue /\ LanguagesAreNoted /\ QuietPrefixIsExact /\ CacheIsLive
    BY DEF Init, QuietScanIsTrue, LanguagesAreNoted, QuietPrefixIsExact, CacheIsLive
<1> QED
    BY <1>1, <1>3, <1>4 DEF Inv

LEMMA InvStep == Inv /\ [Next]_vars => Inv'
<1> SUFFICES ASSUME Inv, [Next]_vars PROVE Inv'
    OBVIOUS
<1>1. TypeOK'
    BY TypeStep DEF Inv
<1> QED
    BY <1>1, EntriesStep, WaitingStep, OrderlyStep, QuietScanStep, LanguagesStep,
       QuietPrefixStep, LiveStep DEF Inv

LEMMA Invariance == Spec => []Inv
BY InvInit, InvStep, PTL DEF Spec

-----------------------------------------------------------------------------
(* The properties.                                                         *)

\* A pass during which no file changes gives every file the parse that a pass
\* without a cache would, but for contents that raced or have two languages.
THEOREM QuietPassesAreExact == Spec => []QuietPassIsExact
<1>1. Inv => QuietPassIsExact
    <2> SUFFICES ASSUME Inv, phase = "done", quiet, NEW f \in File
                 PROVE  Exact(f) \/ Doubtful(f)
        BY DEF QuietPassIsExact
    <2>1. at = N + 1 /\ f < N + 1
        BY NAssumption DEF Inv, PassIsOrderly, File
    <2> QED
        BY <2>1 DEF Inv, QuietPrefixIsExact
<1> QED
    BY <1>1, Invariance, PTL

\* A cached parse is of another content than its key's only after a race.
THEOREM OnlyRacesAreStrange == Spec => []StrangeParseIsRaced
<1>1. Inv => StrangeParseIsRaced
    BY DEF Inv, EntriesAreExplained, StrangeParseIsRaced
<1> QED
    BY <1>1, Invariance, PTL

\* After a pass has retained, the cache has no content that no file had.
THEOREM NothingDeadIsKept == Spec => []CacheIsLive
<1>1. Inv => CacheIsLive
    BY DEF Inv
<1> QED
    BY <1>1, Invariance, PTL
=============================================================================
