---------------------------- MODULE Reachability ----------------------------
(***************************************************************************)
(* The ground truth of the traversal workloads, reachable_within of        *)
(* scripts/prepare_dataset.py, and the queries the adapters send for the   *)
(* same question, each by what its engine computes.                        *)
(*                                                                         *)
(* The function's loop is a state machine: one step for each hop.  The     *)
(* graph is a relation: parallel citations do not change a distinct count. *)
(***************************************************************************)
EXTENDS Integers, FiniteSets

CONSTANTS
  Nodes,    \* papers
  Starts    \* those a traversal starts from

ASSUME StartsAssumption == Starts \subseteq Nodes

VARIABLES
  edges,      \* the citations
  start,      \* arguments of the call
  hops,
  frontier,   \* its locals
  seen,
  round,      \* iterations of the loop that are done
  pc,         \* "loop" or "returned"
  answer      \* what it returned

vars == <<edges, start, hops, frontier, seen, round, pc, answer>>
graph == <<edges, start, hops>>

\* compute_expected asks for one, two and three hops.
Depths == 1 .. 3

Init ==
  /\ edges \in SUBSET (Nodes \X Nodes) /\ start \in Starts /\ hops \in Depths
  /\ frontier = {start} /\ seen = {} /\ round = 0 /\ pc = "loop" /\ answer = {}

Cited(nodes) == {m \in Nodes : \E n \in nodes : <<n, m>> \in edges}

\* The papers cited from the frontier that were not seen before.  The start is not seen
\* at first: a cycle brings it back once.
Fresh == Cited(frontier) \ seen

\* Mutant: one hop too many.
OneHopMore == round <= hops /\ frontier # {}

MoreHops == round < hops /\ frontier # {}

Hop ==
  /\ pc = "loop" /\ MoreHops
  /\ frontier' = Fresh /\ seen' = seen \cup Fresh /\ round' = round + 1
  /\ UNCHANGED <<graph, pc, answer>>

\* Mutant: the start is not left out.
ReturnSeen ==
  /\ pc = "loop" /\ ~MoreHops
  /\ pc' = "returned" /\ answer' = seen
  /\ UNCHANGED <<graph, frontier, seen, round>>

\* The start paper is left out of the answer.
Return ==
  /\ pc = "loop" /\ ~MoreHops
  /\ pc' = "returned" /\ answer' = seen \ {start}
  /\ UNCHANGED <<graph, frontier, seen, round>>

Next == Hop \/ Return

Spec == Init /\ [][Next]_vars

-----------------------------------------------------------------------------
(* The queries, by the papers they count.  An engine that drops paths back  *)
(* to the origin is CognoDB (bolt.py:35-44).                                *)

Edge(a, b) == <<a, b>> \in edges

\* Cypher never matches one relationship twice in a pattern.
Trail2(a, b, c) == Edge(a, b) /\ Edge(b, c) /\ <<a, b>> # <<b, c>>
Trail3(a, b, c, d) ==
  Trail2(a, b, c) /\ Edge(c, d) /\ <<c, d>> # <<a, b>> /\ <<c, d>> # <<b, c>>

UpTo(k, one, two, three) ==
  (IF k >= 1 THEN one ELSE {}) \cup (IF k >= 2 THEN two ELSE {}) \cup (IF k >= 3 THEN three ELSE {})

At1 == {m \in Nodes : Edge(start, m)}
At2 == {m \in Nodes : \E a \in Nodes : Trail2(start, a, m)}
At3 == {m \in Nodes : \E a, b \in Nodes : Trail3(start, a, b, m)}

\* (n)-[:CITES*1..k]->(m) WHERE m <> n, count(DISTINCT m)
BoltTraversal(k) == UpTo(k, At1, At2, At3) \ {start}

\* The same on an engine where no path may come back to the start.
Others == Nodes \ {start}
CognoTraversal(k) ==
  UpTo(k, At1, {m \in Others : \E a \in Others : Trail2(start, a, m)},
       {m \in Others : \E a, b \in Others : Trail3(start, a, b, m)}) \ {start}

\* Mutant: papers at exactly k citations instead of up to k.
FalkorExactDepth(k) == IF k = 1 THEN At1 \ {start} ELSE IF k = 2 THEN At2 \ {start} ELSE At3 \ {start}

\* The union of depths the FalkorDB adapter writes out.  Without a citation from the
\* start the first MATCH has no row and the count is zero.
FalkorTraversal(k) == IF At1 = {} THEN {} ELSE UpTo(k, At1, At2, At3) \ {start}

\* 1..k OUTBOUND with uniqueVertices global and bfs, FILTER v._key != @key: a paper is
\* visited at its least depth, and the start is never visited again.
Visited1 == Cited({start}) \ {start}
Visited2 == Cited(Visited1) \ (Visited1 \cup {start})
Visited3 == Cited(Visited2) \ (Visited1 \cup Visited2 \cup {start})
ArangoTraversal(k) == UpTo(k, Visited1, Visited2, Visited3)

-----------------------------------------------------------------------------
(* Properties. *)

\* The papers at the end of a path of exactly one, two and three citations, whatever the
\* path repeats.
PathEnds1 == Cited({start})
PathEnds2 == Cited(PathEnds1)
PathEnds3 == Cited(PathEnds2)

\* "OTHER nodes reachable from `start` in 1..hops steps" (prepare_dataset.py:117)
Within(l) == UpTo(l, PathEnds1, PathEnds2, PathEnds3)

TypeOK ==
  /\ edges \subseteq Nodes \X Nodes /\ start \in Starts /\ hops \in Depths
  /\ frontier \subseteq Nodes /\ seen \subseteq Nodes /\ round \in 0 .. hops
  /\ pc \in {"loop", "returned"} /\ answer \subseteq Nodes

\* The frontier of a round is the papers whose shortest path takes that many citations:
\* apart from the start itself no paper is expanded twice.
FrontierIsFresh ==
  /\ seen = Within(round)
  /\ round > 0 => frontier = Within(round) \ Within(round - 1)

\* Whatever the graph, its cycles and self-loops included, and although the loop stops at
\* an empty frontier, the answer is every paper but the start at the end of some path of
\* at most that many citations.
GroundTruthCorrect == pc = "returned" => answer = Within(hops) \ {start}

\* Every engine counts what the ground truth counts, so that a MISMATCH is never the fault
\* of the question asked (bolt.py:42-44, falkordb.py:45-46).
EnginesAgree ==
  pc = "returned" =>
    \A counted \in {BoltTraversal(hops), CognoTraversal(hops), FalkorTraversal(hops),
                    ArangoTraversal(hops)} : Cardinality(counted) = Cardinality(answer)
=============================================================================
