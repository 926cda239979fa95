------------------------------ MODULE ParseCache ------------------------------
(***************************************************************************)
(* The resident service's pass over the files of a project, and the parses *)
(* that it keeps from pass to pass.  The scan reads every file and hashes  *)
(* it; enrichment then takes, file by file, the parse kept under that hash *)
(* or else reads the file again and parses what it finds.  Files change at *)
(* any time, also between the two readings.                                *)
(*                                                                         *)
(* A fingerprint stands for the content it is the hash of, and a parse for *)
(* the content and the language that it was made from.                     *)
(***************************************************************************)
EXTENDS Naturals, Functions

CONSTANTS
    N,              \* files 1..N, in the order of their paths
    Content,        \* what may be in a file
    Unparsable,     \* contents that no grammar gets a parse from
    LanguageOf      \* the language of each file that has a grammar

File == 1..N
Parsed == DOMAIN LanguageOf
Language == {LanguageOf[f] : f \in Parsed}
Parse == [content : Content, language : Language]

ASSUME NAssumption == N \in Nat
ASSUME LanguageAssumption == Parsed \subseteq File

\* The files that exist, the cache and the results are functions that grow.
Partial(D, R) == UNION {[S -> R] : S \in SUBSET D}
Empty == [x \in {} |-> x]
With(fun, x, y) == [z \in DOMAIN fun \union {x} |-> IF z = x THEN y ELSE fun[z]]

VARIABLES
    tree,       \* the files on disk
    cache,      \* ParseCache.entries
    hashed,     \* the files of the scan, with their fingerprints
    parses,     \* the parses that the pass has come to
    unread,     \* the files that the scan has still to look for
    at,         \* the next file to parse
    phase,      \* where the pass is
    quiet,      \* whether no file has changed since the pass began
    raced,      \* fingerprints of files that changed before they were parsed,
    seen        \* and the languages of the others, while they are in use

vars == <<tree, cache, hashed, parses, unread, at, phase, quiet, raced, seen>>

TypeOK ==
    /\ tree \in Partial(File, Content)
    /\ cache \in Partial(Content, Parse)
    /\ hashed \in Partial(File, Content)
    /\ parses \in Partial(Parsed, Parse)
    /\ unread \subseteq File /\ at \in 1..N + 1
    /\ phase \in {"idle", "scan", "parse", "done"}
    /\ quiet \in BOOLEAN
    /\ raced \subseteq Content
    /\ seen \in [Content -> SUBSET Language]

Rest == hashed' = Empty /\ parses' = Empty /\ unread' = {} /\ at' = 1

Init ==
    /\ tree \in [File -> Content]
    /\ cache = Empty
    /\ hashed = Empty /\ parses = Empty /\ unread = {} /\ at = 1
    /\ phase = "idle" /\ quiet = FALSE
    /\ raced = {} /\ seen = [c \in Content |-> {}]

-----------------------------------------------------------------------------

\* Whether file f has been hashed and is still to be parsed.
Awaited(f) == phase \in {"scan", "parse"} /\ f \in DOMAIN hashed /\ f >= at

Touch(f) ==
    /\ quiet' = FALSE
    /\ raced' = IF Awaited(f) THEN raced \union {hashed[f]} ELSE raced
    /\ UNCHANGED <<cache, hashed, parses, unread, at, phase, seen>>

Write(f, c) ==
    /\ f \in DOMAIN tree => tree[f] # c
    /\ tree' = With(tree, f, c)
    /\ Touch(f)

Remove(f) ==
    /\ f \in DOMAIN tree
    /\ tree' = [g \in DOMAIN tree \ {f} |-> tree[g]]
    /\ Touch(f)

Begin ==
    /\ phase = "idle"
    /\ phase' = "scan" /\ unread' = File /\ quiet' = TRUE
    /\ UNCHANGED <<tree, cache, hashed, parses, at, raced, seen>>

\* collect_files reads and hashes a file, if it is there.
ReadFile(f) ==
    /\ phase = "scan" /\ f \in unread
    /\ hashed' = IF f \in DOMAIN tree THEN With(hashed, f, tree[f]) ELSE hashed
    /\ unread' = unread \ {f}
    /\ UNCHANGED <<tree, cache, parses, at, phase, quiet, raced, seen>>

\* A file vanishes under the scan or cannot be read.
ScanFails ==
    /\ phase = "scan"
    /\ phase' = "idle" /\ Rest
    /\ UNCHANGED <<tree, cache, quiet, raced, seen>>

\* A mutant: nothing is evicted.
RetainAll ==
    /\ phase = "scan" /\ unread = {}
    /\ phase' = "parse"
    /\ UNCHANGED <<tree, cache, hashed, parses, unread, at, quiet, raced, seen>>

Live == Range(hashed)

\* retain_fingerprints: what no file contains any more is evicted.
Retain ==
    /\ phase = "scan" /\ unread = {}
    /\ cache' = [c \in DOMAIN cache \intersect Live |-> cache[c]]
    /\ raced' = raced \intersect Live
    /\ seen' = [c \in Content |-> IF c \in Live THEN seen[c] ELSE {}]
    /\ phase' = "parse"
    /\ UNCHANGED <<tree, hashed, parses, unread, at, quiet>>

\* parse_one, on the content that the file has now.
Parsable(f) == f \in DOMAIN tree /\ tree[f] \notin Unparsable
ParseOf(f) == [content |-> tree[f], language |-> LanguageOf[f]]

\* A mutant: a parse is kept under the fingerprint of any file.
KeepUnderAnyHash(f) ==
    \E c \in Live : /\ cache' = With(cache, c, ParseOf(f))
                    /\ parses' = With(parses, f, ParseOf(f))

\* The parse of a file that the cache does not have, kept under its hash.
Keep(f) ==
    /\ cache' = With(cache, hashed[f], ParseOf(f))
    /\ parses' = With(parses, f, ParseOf(f))

\* A mutant: a hit is taken for a file with nothing to add.
HitIgnored(f) == hashed[f] \in DOMAIN cache /\ UNCHANGED <<cache, parses>>

Hit(f) ==
    /\ hashed[f] \in DOMAIN cache
    /\ parses' = With(parses, f, cache[hashed[f]])
    /\ UNCHANGED cache

Miss(f) ==
    /\ hashed[f] \notin DOMAIN cache
    /\ IF Parsable(f) THEN Keep(f) ELSE UNCHANGED <<cache, parses>>

\* A mutant: the pass does not stop at the last file.
ParseFileForever ==
    /\ phase = "parse"
    /\ at' = at + 1
    /\ UNCHANGED <<tree, cache, hashed, parses, unread, phase, quiet, raced, seen>>

\* parse_cached.
ParseFile ==
    /\ phase = "parse" /\ at \in File
    /\ IF at \in DOMAIN hashed /\ at \in Parsed
       THEN /\ Hit(at) \/ Miss(at)
            /\ seen' = [seen EXCEPT ![hashed[at]] = @ \union {LanguageOf[at]}]
       ELSE UNCHANGED <<cache, parses, seen>>
    /\ at' = at + 1
    /\ UNCHANGED <<tree, hashed, unread, phase, quiet, raced>>

Enriched ==
    /\ phase = "parse" /\ at = N + 1
    /\ phase' = "done"
    /\ UNCHANGED <<tree, cache, hashed, parses, unread, at, quiet, raced, seen>>

\* The snapshot is stored, or anything after the parse fails.
End ==
    /\ phase = "done"
    /\ phase' = "idle" /\ Rest
    /\ UNCHANGED <<tree, cache, quiet, raced, seen>>

\* The service dies and starts again with an empty cache.
Restart ==
    /\ cache' = Empty /\ raced' = {} /\ seen' = [c \in Content |-> {}]
    /\ phase' = "idle" /\ quiet' = FALSE /\ Rest
    /\ UNCHANGED tree

Next ==
    \/ \E f \in File : Remove(f) \/ ReadFile(f) \/ \E c \in Content : Write(f, c)
    \/ Begin \/ ScanFails \/ Retain \/ ParseFile \/ Enriched \/ End \/ Restart

Spec == Init /\ [][Next]_vars

-----------------------------------------------------------------------------
(* What must hold.                                                         *)

\* Whether the pass has for file f what a pass without a cache would have.
Exact(f) ==
    IF f \in Parsed /\ Parsable(f)
    THEN f \in DOMAIN parses /\ parses[f] = ParseOf(f)
    ELSE f \notin DOMAIN parses

\* Whether what is kept for file f may be of another content or language.
Doubtful(f) ==
    /\ f \in DOMAIN hashed /\ f \in Parsed
    /\ \/ hashed[f] \in raced
       \/ seen[hashed[f]] # {LanguageOf[f]}

\* A pass during which no file changes comes to the very parses that a pass
\* without the cache would, whatever was cached before, failed or evicted,
\* unless the content was in a file that once changed while it waited for its
\* parse, or in files of two languages.
QuietPassIsExact ==
    phase = "done" /\ quiet => \A f \in File : Exact(f) \/ Doubtful(f)

\* A long-lived service keeps no parse of a content the project has lost.
CacheIsLive == phase \in {"parse", "done"} => DOMAIN cache \subseteq Live

\* A parse under a hash that is not its own has one cause: a file with that
\* hash changed before it was parsed.
StrangeParseIsRaced ==
    \A c \in DOMAIN cache : cache[c].content # c => c \in raced

-----------------------------------------------------------------------------
(* What the comments of the code promise and the code does not keep.        *)

\* "The result is identical", and an entry "is never wrong", for files of one
\* language.
CacheIsNeverWrong == phase = "done" /\ quiet => \A f \in File : Exact(f)
=============================================================================
