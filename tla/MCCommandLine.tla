--------------------------- MODULE MCCommandLine ---------------------------
(***************************************************************************)
(* The parts of the system that share no state with one another: Green,    *)
(* the ATLAS.idx codec and rebuild, permissions, the Orbit compiler, the   *)
(* supervisor and the semantic lane.  A session uses one of them; the      *)
(* others rest.                                                            *)
(***************************************************************************)
EXTENDS Green, IdxCodec, Permissions, Orbit, Supervision, SemanticLane, TLC

CONSTANTS u, g, p, m, n,            \* identities of a tree
          f, h, s1, s2, e1,         \* more of them, sockets and an edge
          root1, root2,             \* projects
          Sessions                  \* the parts the run is about

VARIABLE session

-----------------------------------------------------------------------------
(* Green: a universe, a galaxy, a planet and two entities of a file's       *)
(* scale, side by side, one in the other, and a file in itself; listed      *)
(* parents first and children first.                                        *)
MCEntities == {u, g, p, m, n}

Measured(axis, outcome) ==
    [axis |-> axis, outcome |-> outcome, proof |-> 1, inferred |-> FALSE, fresh |-> TRUE]

Saying(evidence, sockets) ==
    [fresh |-> TRUE, evidence |-> evidence, required |-> {}, sockets |-> sockets, conflicts |-> {}]

Passing == {Measured(axis, "pass") : axis \in Axes}

MCFacts == {Saying(Passing, {}),
            Saying(Passing \cup {Measured("content", "fail")}, {}),
            Saying(Passing, {[optional |-> FALSE, resolution |-> ResolveAgainst({1})]})}

MCFloor == [scale \in Scales |-> [axis \in Axes |-> 1]]

Node(scale, parent) == [scale |-> scale, parent |-> parent]

Tree(parent) ==
    u :> Node(Universe, NoParent) @@ g :> Node(Galaxy, u) @@ p :> Node(Planet, g)
      @@ m :> Node(Moon, p) @@ n :> Node(Moon, parent)

MCShapes == {Tree(m), Tree(p), Tree(n)}

Listing(s) == [e \in MCEntities |-> CHOOSE i \in 1..5 : s[i] = e]

MCPositions == {Listing(<<u, g, p, m, n>>), Listing(<<n, m, p, g, u>>)}

-----------------------------------------------------------------------------
(* ATLAS.idx: a galaxy, a planet, a file and a declaration in it.           *)
Portion(id, scale, parent) ==
    [id |-> id, scale |-> scale, parent |-> parent, path |-> IF scale = MoonScale THEN None ELSE id,
     says |-> id, aside |-> "spans", summary |-> "", inferred |-> <<>>, clauses |-> <<>>,
     uncertainty |-> <<>>, evidence |-> {}, inherited |-> {}, green |-> {}, sockets |-> {}]

Attested(fingerprint) == [says |-> "pass", fingerprint |-> fingerprint]

Required(id, copy, resolution) ==
    [id |-> id, copy |-> copy, entity |-> h, source |-> "parser", says |-> id, resolution |-> resolution]

(* A root without anything in it. *)
Bare == [id |-> "bare", entities |-> {}, edges |-> {}, records |-> {}, conflicts |-> {}, sources |-> {}]

MCSnapshots ==
    {Bare} \cup
    {[id |-> "s",
      entities |->
        {[Portion(g, 1, None) EXCEPT !.clauses = <<"goal">>, !.uncertainty = <<"unsure">>],
         [Portion(p, 3, g) EXCEPT !.summary = "folder", !.green = green],
         [Portion(f, 4, p) EXCEPT !.inferred = inferred, !.evidence = evidence],
         [Portion(h, 4, f) EXCEPT !.sockets = 
            {Required(s1, copy, resolution) : copy \in copies} \cup {Required(s2, 1, Unresolved)}]},
      edges |-> {[id |-> e1, from |-> f, to |-> h, source |-> "parser", says |-> "contains",
                  aside |-> "text", evidence |-> attested]},
      records |-> {}, conflicts |-> {}, sources |-> {}] :
        green \in {{}, {[axes |-> "yellow", overall |-> "yellow", aside |-> "reason"]}},
        inferred \in {<<>>, <<"one", "two">>},
        evidence \in {{}, {Attested("a")}, {Attested("a"), Attested("b")}},
        attested \in {{}, {Attested("a")}},
        copies \in {{1}, {1, 2}},
        resolution \in {Unresolved, [kind |-> "fit", says |-> s2], [kind |-> "hole", says |-> "no_match"]}}

-----------------------------------------------------------------------------
(* Permissions. *)
MCPatterns == {<<"**">>, <<"src", "*">>}
MCPaths    == {<<"src", "a">>, <<"b">>}

-----------------------------------------------------------------------------
(* Orbit: 1 is the universe, 2 the galaxy, 3 a system, 4 and 5 planets,     *)
(* 6 and 7 files, 8 a declaration.                                          *)
Link(from, to, inferred) ==
    [id |-> <<from, to>>, from |-> from, to |-> to, inferred |-> inferred, cost |-> 1]

MCGalaxies ==
    {[scale |-> <<0, 1, 2, 3, 3, 4, 4, 4>>, parent |-> <<0, 1, 2, 3, 3, 4, 5, 6>>, first |-> 2,
      links |-> {Link(4, 6, FALSE), Link(6, 7, FALSE), Link(8, 7, TRUE), Link(6, 8, FALSE)},
      cost |-> cost] : cost \in {<<1, 2, 1, 3, 2, 4, 2, 3>>, <<9, 1, 1, 2, 2, 1, 1, 6>>}}

MCRequests ==
    {[targets |-> targets, compare |-> Len(targets) = 2, matches |-> <<0, 0, 0, 1, 1, 2, 0, 1>>,
      exclusions |-> excluded, scale |-> scale, depth |-> depth, inferred |-> inferred,
      budget |-> budget] :
        targets \in {<<>>, <<6>>, <<4, 7>>}, excluded \in {{}, {6}, {2, 7}},
        scale \in {1, 3, 4, 5}, depth \in {1, 2}, inferred \in BOOLEAN, budget \in {1, 8, 20, 60}}

-----------------------------------------------------------------------------
(* The supervisor: two sets of roots, one of them given in both orders.     *)
MCRootLists == {<<root1>>, <<root1, root2>>, <<root2, root1>>}

-----------------------------------------------------------------------------
(* The semantic lane: two declarations of a file of a galaxy, whose purpose *)
(* is protected, and a partner that answers anything.                       *)
MCList  == <<"d1", "d2">>
MCFiles == [d \in Declarations |-> "file"]
MCBelow == [e \in Known |->
    CASE e = "galaxy" -> Known [] e = "file" -> Known \ {"galaxy"} [] OTHER -> {e}]

Relating(id, e, plane, required, code) ==
    [id |-> id, from |-> e, plane |-> plane, required |-> required, code |-> code]
MCSkeleton == {Relating("held", "galaxy", "declared", TRUE, Proven)}

Proposed(kind, e) == [kind |-> kind, of |-> e, sound |-> TRUE, pinned |-> TRUE]
Proposing(edge) == [kind |-> "edge", of |-> edge.from, sound |-> TRUE, pinned |-> TRUE, edge |-> edge]

MCCandidates ==
    {Proposed("summary", e) : e \in {"d1", "d2", "galaxy"}}
    \cup {[Proposed("summary", "file") EXCEPT !.pinned = FALSE],
          [Proposed("summary", "d1") EXCEPT !.sound = FALSE], Proposed("context", "file"),
          Proposing(Relating("new", "galaxy", "inferred", FALSE, Unknown)),
          Proposing(Relating("held", "file", "inferred", FALSE, Unknown))}
    \cup {Proposing(Relating("new", "file", plane, required, code)) :
            plane \in {"declared", "observed", "inferred"}, required \in BOOLEAN,
            code \in {Unknown, Proven}}

MCProposals == {<<>>} \cup {<<c>> : c \in MCCandidates} \cup {<<c, d>> : c, d \in MCCandidates}

-----------------------------------------------------------------------------
AnyOf(S) == {CHOOSE x \in S : TRUE}

GreenRests ==
    shape = Tree(n) /\ position = Listing(<<u, g, p, m, n>>)
      /\ facts \in [Entities -> AnyOf(Facts)] /\ GreenInit
IdxRests == compiled = Bare /\ IdxInit
OrbitRests == galaxy \in AnyOf(Galaxies) /\ request \in AnyOf({r \in OrbitRequests : r.targets = <<>>}) /\ OrbitInit
SupervisionRests == platform = "linux" /\ SupervisionInit

LaneRests == LaneInit /\ source.has = {}

MCInit ==
    /\ session \in Sessions
    /\ IF session = "green" THEN GreenInit ELSE GreenRests
    /\ IF session = "idx" THEN IdxInit ELSE IdxRests
    /\ PermissionInit
    /\ IF session = "orbit" THEN OrbitInit ELSE OrbitRests
    /\ IF session = "service" THEN SupervisionInit ELSE SupervisionRests
    /\ IF session = "lane" THEN LaneInit ELSE LaneRests

MCNext ==
    /\ UNCHANGED session
    /\ \/ session = "green" /\ GreenNext
          /\ UNCHANGED <<idxVars, permissionVars, orbitVars, supVars, laneVars>>
       \/ session = "idx" /\ IdxNext
          /\ UNCHANGED <<greenVars, permissionVars, orbitVars, supVars, laneVars>>
       \/ session = "permission" /\ PermissionNext
          /\ UNCHANGED <<greenVars, idxVars, orbitVars, supVars, laneVars>>
       \/ session = "orbit" /\ OrbitNext
          /\ UNCHANGED <<greenVars, idxVars, permissionVars, supVars, laneVars>>
       \/ session = "service" /\ SupervisionNext
          /\ UNCHANGED <<greenVars, idxVars, permissionVars, orbitVars, laneVars>>
       \/ session = "lane" /\ LaneNext
          /\ UNCHANGED <<greenVars, idxVars, permissionVars, orbitVars, supVars>>
=============================================================================
