------------------------- MODULE ReachabilityProofs -------------------------
(***************************************************************************)
(* reachable_within computes what it says for every graph, finite or not:  *)
(* its early end at an empty frontier and its skipping of papers it has    *)
(* already seen lose nothing.                                              *)
(***************************************************************************)
EXTENDS Reachability, TLAPS

\* Citations from a union are the union of the citations, and papers are papers.
LEMMA CitedFacts ==
  /\ \A S, T : Cited(S \cup T) = Cited(S) \cup Cited(T)
  /\ \A S, T : S \subseteq T => Cited(S) \subseteq Cited(T)
  /\ \A S : Cited(S) \subseteq Nodes
  /\ Cited({}) = {}
BY DEF Cited

\* Within, one distance at a time.
LEMMA WithinSteps ==
  /\ Within(0) = {}
  /\ Within(1) = Cited({start})
  /\ Within(2) = Cited({start}) \cup Cited(Within(1))
  /\ Within(3) = Cited({start}) \cup Cited(Within(2))
<1>1. /\ Within(0) = {} /\ Within(1) = PathEnds1
      /\ Within(2) = PathEnds1 \cup PathEnds2
      /\ Within(3) = PathEnds1 \cup PathEnds2 \cup PathEnds3
  BY DEF Within, UpTo
<1>2. Cited(PathEnds1 \cup PathEnds2) = Cited(PathEnds1) \cup Cited(PathEnds2)
  BY CitedFacts
<1>. QED  BY <1>1, <1>2 DEF PathEnds1, PathEnds2, PathEnds3

\* The papers at distance l + 1 or less are cited by the start or at distance l or less.
LEMMA WithinNext ==
  ASSUME NEW l \in 0 .. 2
  PROVE  Within(l + 1) = Cited({start}) \cup Cited(Within(l))
<1>1. Cited({start}) \cup Cited({}) = Cited({start})
  BY CitedFacts
<1>2. l = 0 \/ l = 1 \/ l = 2
  OBVIOUS
<1>. QED  BY <1>1, <1>2, WithinSteps

\* Each distance includes the lower ones.
LEMMA WithinGrows ==
  ASSUME NEW l \in 0 .. 2
  PROVE  Within(l) \subseteq Within(l + 1)
<1>1. Within(0) \subseteq Within(1)
  BY WithinSteps
<1>2. Within(1) \subseteq Within(2)
  BY WithinSteps
<1>3. Within(2) \subseteq Within(3)
  BY <1>2, WithinSteps, CitedFacts
<1>. QED  BY <1>1, <1>2, <1>3

\* If a distance adds nothing, no greater one does.
LEMMA WithinCloses ==
  ASSUME NEW l \in 1 .. 3, NEW d \in 1 .. 3, l <= d, Within(l) = Within(l - 1)
  PROVE  Within(d) = Within(l)
<1>1. Within(1) = Within(0) => Within(2) = Within(1)
  BY WithinSteps, CitedFacts
<1>2. Within(2) = Within(1) => Within(3) = Within(2)
  BY WithinSteps
<1>3. CASE l = 1
  <2>1. d = 1 \/ d = 2 \/ d = 3
    OBVIOUS
  <2>. QED  BY <1>1, <1>2, <1>3, <2>1
<1>4. CASE l = 2
  <2>1. d = 2 \/ d = 3
    BY <1>4
  <2>. QED  BY <1>2, <1>4, <2>1
<1>5. CASE l = 3
  BY <1>5
<1>. QED  BY <1>3, <1>4, <1>5

-----------------------------------------------------------------------------

\* What the loop maintains: its variables have their types, the papers it has seen are
\* those within its rounds and the frontier those it saw last.
IInv == TypeOK /\ FrontierIsFresh /\ (round = 0 => frontier = {start}) /\ GroundTruthCorrect

LEMMA InitInv == Init => IInv
<1>1. \A S : S = {start} /\ start \in Nodes => S \subseteq Nodes
  OBVIOUS
<1>2. Init => TypeOK
  BY StartsAssumption, <1>1 DEF Init, TypeOK, Depths
<1>. QED  BY <1>2, WithinSteps DEF Init, IInv, FrontierIsFresh, GroundTruthCorrect

\* One more hop extends the papers seen by exactly one distance.
LEMMA HopSees ==
  ASSUME IInv, MoreHops
  PROVE  /\ seen \cup Fresh = Within(round + 1)
         /\ Fresh = Within(round + 1) \ Within(round)
<1>1. round \in 0 .. 2 /\ hops \in 1 .. 3
  BY DEF IInv, TypeOK, MoreHops, Depths
<1>2. seen = Within(round)
  BY DEF IInv, FrontierIsFresh
<1>3. Within(round + 1) = Cited({start}) \cup Cited(Within(round))
  BY <1>1, WithinNext
<1>4. Within(round) \subseteq Within(round + 1)
  BY <1>1, WithinGrows
<1>5. CASE round = 0
  BY <1>2, <1>3, <1>5, WithinSteps, CitedFacts DEF IInv, Fresh
<1>6. CASE round # 0
  <2>1. frontier = Within(round) \ Within(round - 1)
    BY <1>1, <1>6 DEF IInv, FrontierIsFresh
  <2>2. Within(round) = Cited({start}) \cup Cited(Within(round - 1))
    <3>1. round - 1 \in 0 .. 2 /\ (round - 1) + 1 = round
      BY <1>1, <1>6
    <3>. QED  BY <3>1, WithinNext
  <2>3. Within(round - 1) \subseteq Within(round)
    <3>1. round - 1 \in 0 .. 2 /\ (round - 1) + 1 = round
      BY <1>1, <1>6
    <3>. QED  BY <3>1, WithinGrows
  <2>4. Within(round) = Within(round - 1) \cup frontier
    BY <2>1, <2>3
  <2>5. Within(round + 1) = Within(round) \cup Cited(frontier)
    BY <1>3, <2>2, <2>4, CitedFacts
  <2>. QED  BY <1>2, <1>4, <2>5 DEF Fresh
<1>. QED  BY <1>5, <1>6

LEMMA HopInv == IInv /\ Hop => IInv'
<1>. SUFFICES ASSUME IInv, Hop PROVE IInv'
  OBVIOUS
<1>1. seen' = Within(round + 1) /\ frontier' = Within(round + 1) \ Within(round)
  BY HopSees DEF Hop
<1>2. round' = round + 1 /\ (round + 1) - 1 = round /\ round' # 0
  BY DEF Hop, IInv, TypeOK
<1>3. UNCHANGED <<edges, start, hops, pc, answer>> /\ pc = "loop"
  BY DEF Hop, graph
<1>4. PathEnds1' = PathEnds1 /\ PathEnds2' = PathEnds2 /\ PathEnds3' = PathEnds3
  BY <1>3 DEF PathEnds1, PathEnds2, PathEnds3, Cited
<1>5. TypeOK'
  <2>1. round' \in 0 .. hops'
    BY <1>3 DEF Hop, MoreHops, IInv, TypeOK, Depths
  <2>2. Fresh \subseteq Nodes
    BY CitedFacts DEF Fresh
  <2>. QED  BY <1>3, <2>1, <2>2 DEF IInv, TypeOK, Hop
<1>6. FrontierIsFresh'
  <2>1. Within(round)' = Within(round + 1)
    BY <1>2, <1>4 DEF Within, UpTo
  <2>2. Within(round - 1)' = Within(round)
    BY <1>2, <1>4 DEF Within, UpTo
  <2>. QED  BY <1>1, <2>1, <2>2 DEF FrontierIsFresh
<1>. QED  BY <1>2, <1>3, <1>5, <1>6 DEF IInv, GroundTruthCorrect

\* At the end of the loop everything within the hops asked for was seen: the rounds are
\* done, or the last one found nothing and no later one would.
LEMMA AllSeen ==
  ASSUME IInv, ~MoreHops
  PROVE  seen = Within(hops)
<1>1. round \in 0 .. hops /\ hops \in 1 .. 3
  BY DEF IInv, TypeOK, Depths
<1>2. seen = Within(round)
  BY DEF IInv, FrontierIsFresh
<1>3. CASE round = hops
  BY <1>2, <1>3
<1>4. CASE round # hops
  <2>1. frontier = {} /\ round \in 1 .. 2 /\ round <= hops
    BY <1>1, <1>4 DEF MoreHops, IInv
  <2>2. round \in 1 .. 3 /\ round - 1 \in 0 .. 2 /\ (round - 1) + 1 = round
    BY <2>1
  <2>3. Within(round - 1) \subseteq Within(round)
    BY <2>2, WithinGrows
  <2>4. Within(round) \subseteq Within(round - 1)
    BY <2>1 DEF IInv, FrontierIsFresh
  <2>5. Within(hops) = Within(round)
    <3>1. Within(round) = Within(round - 1)
      BY <2>3, <2>4
    <3>. QED  BY <1>1, <2>1, <2>2, <3>1, WithinCloses
  <2>. QED  BY <1>2, <2>5
<1>. QED  BY <1>3, <1>4

LEMMA ReturnInv == IInv /\ Return => IInv'
<1>. SUFFICES ASSUME IInv, Return PROVE IInv'
  OBVIOUS
<1>1. answer' = Within(hops) \ {start}
  BY AllSeen DEF Return
<1>2. UNCHANGED <<edges, start, hops, frontier, seen, round>> /\ pc' = "returned"
  BY DEF Return, graph
<1>3. \A l : Within(l)' = Within(l)
  BY <1>2 DEF Within, UpTo, PathEnds1, PathEnds2, PathEnds3, Cited
<1>4. TypeOK'
  BY <1>2 DEF IInv, TypeOK, Return
<1>5. FrontierIsFresh' /\ (round = 0 => frontier = {start})'
  BY <1>2, <1>3 DEF IInv, FrontierIsFresh
<1>6. GroundTruthCorrect'
  BY <1>1, <1>2, <1>3 DEF GroundTruthCorrect
<1>. QED  BY <1>4, <1>5, <1>6 DEF IInv

\* IInv is inductive.
THEOREM LoopInvariant == Spec => []IInv
<1>1. IInv /\ UNCHANGED vars => IInv'
  <2>. SUFFICES ASSUME IInv, UNCHANGED vars PROVE IInv'
    OBVIOUS
  <2>1. \A l : Within(l)' = Within(l)
    BY DEF vars, Within, UpTo, PathEnds1, PathEnds2, PathEnds3, Cited
  <2>2. Within(hops)' = Within(hops) /\ Within(round)' = Within(round)
        /\ Within(round - 1)' = Within(round - 1)
    BY <2>1 DEF vars
  <2>. QED  BY <2>2 DEF vars, IInv, TypeOK, FrontierIsFresh, GroundTruthCorrect
<1>2. IInv /\ [Next]_vars => IInv'
  BY <1>1, HopInv, ReturnInv DEF Next
<1>. QED  BY <1>2, InitInv, PTL DEF Spec

\* The variables of the call keep their types.
THEOREM TypeCorrect == Spec => []TypeOK
<1>1. IInv => TypeOK
  BY DEF IInv
<1>. QED  BY <1>1, LoopInvariant, PTL

\* No paper but the start is expanded twice, in any graph.
THEOREM FreshFrontier == Spec => []FrontierIsFresh
<1>1. IInv => FrontierIsFresh
  BY DEF IInv
<1>. QED  BY <1>1, LoopInvariant, PTL

\* The ground truth of the traversals is right for every graph, start and depth that
\* compute_expected asks for.
THEOREM TruthCorrect == Spec => []GroundTruthCorrect
<1>1. IInv => GroundTruthCorrect
  BY DEF IInv
<1>. QED  BY <1>1, LoopInvariant, PTL
-----------------------------------------------------------------------------
(* The queries. *)

\* A paper other than the start that some path of two or three citations reaches is cited
\* by the start, or the path repeats no citation and does not come back to the start.
LEMMA PathsShorten ==
  ASSUME NEW m \in Nodes, m # start, NEW a \in Nodes, Edge(start, a)
  PROVE  /\ Edge(a, m) => m \in At1 \/ (a # start /\ Trail2(start, a, m))
         /\ \A b \in Nodes : Edge(a, b) /\ Edge(b, m) =>
              \/ m \in At1
              \/ b # start /\ Trail2(start, b, m)
              \/ a # start /\ Trail2(start, a, m)
              \/ a # start /\ b # start /\ Trail3(start, a, b, m)
BY DEF At1, Trail2, Trail3, Edge

\* The papers at the ends of paths, by their paths.
LEMMA EndsByPath ==
  ASSUME start \in Nodes
  PROVE  /\ PathEnds1 = At1
         /\ PathEnds2 = {m \in Nodes : \E a \in Nodes : Edge(start, a) /\ Edge(a, m)}
         /\ PathEnds3 = {m \in Nodes : \E a, b \in Nodes : Edge(start, a) /\ Edge(a, b) /\ Edge(b, m)}
<1>1. PathEnds1 = At1
  BY DEF PathEnds1, Cited, At1, Edge
<1>2. PathEnds2 = {m \in Nodes : \E a \in Nodes : Edge(start, a) /\ Edge(a, m)}
  BY <1>1 DEF PathEnds2, Cited, At1, Edge
<1>3. PathEnds3 = {m \in Nodes : \E a, b \in Nodes : Edge(start, a) /\ Edge(a, b) /\ Edge(b, m)}
  BY <1>2 DEF PathEnds3, Cited, Edge
<1>. QED  BY <1>1, <1>2, <1>3

\* Not repeating a citation costs no paper, nor does never coming back to the start.
LEMMA CypherReaches ==
  ASSUME start \in Nodes, NEW k \in Depths
  PROVE  /\ BoltTraversal(k) = Within(k) \ {start}
         /\ CognoTraversal(k) = Within(k) \ {start}
<1> DEFINE C2 == {m \in Others : \E a \in Others : Trail2(start, a, m)}
           C3 == {m \in Others : \E a, b \in Others : Trail3(start, a, b, m)}
<1>1. /\ PathEnds1 = At1
      /\ PathEnds2 = {m \in Nodes : \E a \in Nodes : Edge(start, a) /\ Edge(a, m)}
      /\ PathEnds3 = {m \in Nodes : \E a, b \in Nodes : Edge(start, a) /\ Edge(a, b) /\ Edge(b, m)}
  BY EndsByPath
<1>2. At2 \subseteq PathEnds2 /\ At3 \subseteq PathEnds3
  BY <1>1 DEF At2, At3, Trail2, Trail3
<1>3. C2 \subseteq At2 /\ C3 \subseteq At3
  BY DEF At2, At3, Others
<1>4. PathEnds2 \ {start} \subseteq At1 \cup C2
  BY <1>1, PathsShorten DEF Others
<1>5. PathEnds3 \ {start} \subseteq At1 \cup C2 \cup C3
  <2>. SUFFICES ASSUME NEW m \in Nodes, m # start, NEW a \in Nodes, NEW b \in Nodes,
                       Edge(start, a), Edge(a, b), Edge(b, m)
                PROVE  m \in At1 \cup C2 \cup C3
    BY <1>1
  <2>1. \/ m \in At1
        \/ b # start /\ Trail2(start, b, m)
        \/ a # start /\ Trail2(start, a, m)
        \/ a # start /\ b # start /\ Trail3(start, a, b, m)
    BY PathsShorten
  <2>. QED  BY <2>1 DEF Others
<1>6. \A S2, S3 :
        /\ S2 \subseteq PathEnds2 /\ S3 \subseteq PathEnds3 /\ C2 \subseteq S2 /\ C3 \subseteq S3
        => UpTo(k, At1, S2, S3) \ {start} = UpTo(k, PathEnds1, PathEnds2, PathEnds3) \ {start}
  <2>. HIDE DEF C2, C3
  <2>1. k = 1 \/ k = 2 \/ k = 3
    BY DEF Depths
  <2>. QED  BY <2>1, <1>1, <1>4, <1>5 DEF UpTo
<1>7. CognoTraversal(k) = UpTo(k, At1, C2, C3) \ {start}
  BY DEF CognoTraversal
<1>. HIDE DEF C2, C3
<1>. QED  BY <1>2, <1>3, <1>6, <1>7 DEF BoltTraversal, Within

\* Without a citation from the start no path leaves it.
LEMMA FalkorReaches ==
  ASSUME start \in Nodes, NEW k \in Depths
  PROVE  FalkorTraversal(k) = Within(k) \ {start}
<1>1. CASE At1 = {}
  <2>1. PathEnds1 = {}
    BY <1>1, EndsByPath
  <2>2. PathEnds2 = {} /\ PathEnds3 = {}
    BY <2>1, CitedFacts DEF PathEnds2, PathEnds3
  <2>. QED  BY <1>1, <2>1, <2>2 DEF FalkorTraversal, Within, UpTo
<1>2. CASE At1 # {}
  BY <1>2, CypherReaches DEF FalkorTraversal, BoltTraversal
<1>. QED  BY <1>1, <1>2

\* Visiting every paper once, at its least depth, costs no paper.
LEMMA ArangoReaches ==
  ASSUME start \in Nodes, NEW k \in Depths
  PROVE  ArangoTraversal(k) = Within(k) \ {start}
<1>1. Visited1 = PathEnds1 \ {start}
  BY DEF Visited1, PathEnds1
<1>2. Visited1 \cup Visited2 = (PathEnds1 \cup PathEnds2) \ {start}
  <2>1. Cited(Visited1) \subseteq PathEnds2
    BY <1>1, CitedFacts DEF PathEnds2
  <2>2. PathEnds2 \subseteq Cited(Visited1) \cup PathEnds1
    <3>1. PathEnds1 \subseteq Visited1 \cup {start}
      BY <1>1
    <3>2. Cited(PathEnds1) \subseteq Cited(Visited1 \cup {start})
      BY <3>1, CitedFacts
    <3>3. Cited(Visited1 \cup {start}) = Cited(Visited1) \cup Cited({start})
      BY CitedFacts
    <3>. QED  BY <3>2, <3>3 DEF PathEnds2, PathEnds1
  <2>. QED  BY <1>1, <2>1, <2>2 DEF Visited2
<1>3. Visited1 \cup Visited2 \cup Visited3 = (PathEnds1 \cup PathEnds2 \cup PathEnds3) \ {start}
  <2>1. Cited(Visited1) \subseteq Visited1 \cup Visited2 \cup {start}
    BY DEF Visited2
  <2>2. Cited(Visited2) \subseteq PathEnds2 \cup PathEnds3
    <3>1. Visited2 \subseteq PathEnds1 \cup PathEnds2
      BY <1>2
    <3>2. Cited(Visited2) \subseteq Cited(PathEnds1 \cup PathEnds2)
      BY <3>1, CitedFacts
    <3>3. Cited(PathEnds1 \cup PathEnds2) = Cited(PathEnds1) \cup Cited(PathEnds2)
      BY CitedFacts
    <3>. QED  BY <3>2, <3>3 DEF PathEnds2, PathEnds3
  <2>3. PathEnds3 \subseteq Cited(Visited1) \cup Cited(Visited2) \cup PathEnds1
    <3>1. PathEnds2 \subseteq Visited1 \cup Visited2 \cup {start}
      BY <1>2
    <3>2. Cited(PathEnds2) \subseteq Cited(Visited1 \cup Visited2 \cup {start})
      BY <3>1, CitedFacts
    <3>3. Cited(Visited1 \cup Visited2 \cup {start})
            = Cited(Visited1) \cup Cited(Visited2) \cup PathEnds1
      <4>1. Cited((Visited1 \cup Visited2) \cup {start}) = Cited(Visited1 \cup Visited2) \cup Cited({start})
        BY CitedFacts
      <4>2. Cited(Visited1 \cup Visited2) = Cited(Visited1) \cup Cited(Visited2)
        BY CitedFacts
      <4>. QED  BY <4>1, <4>2 DEF PathEnds1
    <3>. QED  BY <3>2, <3>3 DEF PathEnds3
  <2>. QED  BY <1>2, <2>1, <2>2, <2>3 DEF Visited3
<1>4. k = 1 \/ k = 2 \/ k = 3
  BY DEF Depths
<1>. QED  BY <1>1, <1>2, <1>3, <1>4 DEF ArangoTraversal, Within, UpTo

\* Every adapter's query counts the papers the ground truth counts, for every graph, start
\* and depth: Cypher's ban on repeated citations, CognoDB's on coming back to the start,
\* FalkorDB's union of depths and ArangoDB's global uniqueness make no difference.
THEOREM QueriesAgree == Spec => []EnginesAgree
<1>1. IInv => EnginesAgree
  <2>. SUFFICES ASSUME IInv, pc = "returned"
                PROVE  \A counted \in {BoltTraversal(hops), CognoTraversal(hops), FalkorTraversal(hops),
                         ArangoTraversal(hops)} : counted = answer
    BY DEF EnginesAgree
  <2>1. start \in Nodes /\ hops \in Depths
    BY StartsAssumption DEF IInv, TypeOK
  <2>2. answer = Within(hops) \ {start}
    BY DEF IInv, GroundTruthCorrect
  <2>. QED  BY <2>1, <2>2, CypherReaches, FalkorReaches, ArangoReaches
<1>. QED  BY <1>1, LoopInvariant, PTL

-----------------------------------------------------------------------------
(* What Dataset calls the count of a traversal. *)

AnyDraw(seed, S, k) == S

\* The width of an id, the sample of start papers and how it is drawn play no part in it.
Prepared == INSTANCE Dataset WITH Width <- 7, StartCount <- 1, Draw <- AnyDraw

\* expected.json holds, for a start and a depth, the size of what reachable_within returned
\* (compute_expected), and an adapter's traversal the size of what its query counts: both
\* are CountWithin, so the model of the pipeline may use it for either.
CountsAreThese ==
  pc = "returned" =>
    \A counted \in {answer, BoltTraversal(hops), CognoTraversal(hops), FalkorTraversal(hops),
                    ArangoTraversal(hops)} :
      Cardinality(counted) = Prepared!CountWithin(edges, start, hops)

LEMMA SameCardinality == \A S : Prepared!Cardinality(S) = Cardinality(S)
BY DEF Prepared!Cardinality, Cardinality

LEMMA CountWithinCounts ==
  ASSUME TypeOK
  PROVE  Prepared!CountWithin(edges, start, hops) = Cardinality(Within(hops) \ {start})
<1>1. edges \subseteq Nodes \X Nodes /\ hops \in 1 .. 3
  BY DEF TypeOK, Depths
<1>2. ASSUME NEW S PROVE Prepared!CitedBy(edges, S) = Cited(S)
  <2>1. ASSUME NEW m \in Prepared!CitedBy(edges, S) PROVE m \in Cited(S)
    <3>1. PICK c \in edges : c[1] \in S /\ m = c[2]
      BY <2>1 DEF Prepared!CitedBy
    <3>2. c = <<c[1], m>> /\ m \in Nodes
      BY <1>1, <3>1
    <3>. QED  BY <3>1, <3>2 DEF Cited
  <2>2. ASSUME NEW m \in Cited(S) PROVE m \in Prepared!CitedBy(edges, S)
    <3>1. PICK n \in S : <<n, m>> \in edges
      BY <2>2 DEF Cited
    <3>2. <<n, m>>[1] = n /\ <<n, m>>[2] = m
      OBVIOUS
    <3>. QED  BY <3>1, <3>2 DEF Prepared!CitedBy
  <2>. QED  BY <2>1, <2>2
<1>3. hops = 1 \/ hops = 2 \/ hops = 3
  BY <1>1
<1>4. Within(hops) = PathEnds1 \cup (IF hops >= 2 THEN PathEnds2 ELSE {})
                       \cup (IF hops >= 3 THEN PathEnds3 ELSE {})
  BY <1>3 DEF Within, UpTo
<1>5. /\ PathEnds1 = Prepared!CitedBy(edges, {start})
      /\ PathEnds2 = Prepared!CitedBy(edges, Prepared!CitedBy(edges, {start}))
      /\ PathEnds3 = Prepared!CitedBy(edges, Prepared!CitedBy(edges, Prepared!CitedBy(edges, {start})))
  BY <1>2 DEF PathEnds1, PathEnds2, PathEnds3
<1>6. CASE hops = 1
  BY <1>4, <1>5, <1>6, SameCardinality DEF Prepared!CountWithin
<1>7. CASE hops = 2
  BY <1>4, <1>5, <1>7, SameCardinality DEF Prepared!CountWithin
<1>8. CASE hops = 3
  BY <1>4, <1>5, <1>8, SameCardinality DEF Prepared!CountWithin
<1>. QED  BY <1>3, <1>6, <1>7, <1>8

\* Ground truth and queries count the same function of the graph that the pipeline's model
\* is built from.
THEOREM CountsAgree == Spec => []CountsAreThese
<1>1. IInv => CountsAreThese
  <2>. SUFFICES ASSUME IInv, pc = "returned",
                       NEW counted \in {answer, BoltTraversal(hops), CognoTraversal(hops),
                                        FalkorTraversal(hops), ArangoTraversal(hops)}
                PROVE  counted = Within(hops) \ {start}
    BY CountWithinCounts DEF CountsAreThese, IInv
  <2>1. start \in Nodes /\ hops \in Depths
    BY StartsAssumption DEF IInv, TypeOK
  <2>2. answer = Within(hops) \ {start}
    BY DEF IInv, GroundTruthCorrect
  <2>. QED  BY <2>1, <2>2, CypherReaches, FalkorReaches, ArangoReaches
<1>. QED  BY <1>1, LoopInvariant, PTL
=============================================================================
