------------------------------- MODULE Dataset -------------------------------
(***************************************************************************)
(* What scripts/prepare_dataset.py computes from the two raw files, what   *)
(* benchmarks/workloads.py makes of it, and what a loaded database answers.*)
(*                                                                         *)
(* A paper id is its sequence of digits, an edge a pair of ids, a date the *)
(* year it starts with.  Draw stands for random.Random(seed).sample.       *)
(***************************************************************************)
EXTENDS Integers, Sequences, FiniteSets, TLC

CONSTANTS
  Width,         \* digits of a canonical id (7 in the code)
  StartCount,    \* START_NODE_COUNT
  Draw(_, _, _)  \* Draw(seed, S, k): the k members of S drawn with that seed

ASSUME SizesAssumption == Width \in Nat \ {0} /\ StartCount \in Nat \ {0}

-----------------------------------------------------------------------------
(* Ids and dates. *)

CrossListed(id) == Len(id) > Width /\ id[1] = 1 /\ id[2] = 1

Unprefixed(id) == IF CrossListed(id) THEN SubSeq(id, 3, Len(id)) ELSE id

Normalise(id) == [i \in 1 .. (Width - Len(Unprefixed(id))) |-> 0] \o Unprefixed(id)

\* Mutant: a later line replaces an earlier one whatever it is.
AddDateLastWins(dates, line) ==
  [n \in DOMAIN dates \cup {Normalise(line.id)} |->
     IF n = Normalise(line.id) THEN line.year ELSE dates[n]]

\* Mutant: a later line never replaces an earlier one.
AddDateFirstWins(dates, line) ==
  [n \in DOMAIN dates \cup {Normalise(line.id)} |->
     IF n \in DOMAIN dates THEN dates[n] ELSE line.year]

\* One line of the dates file: a cross-listing never replaces what is already there.
AddDate(dates, line) ==
  LET key == Normalise(line.id)
  IN  IF key \notin DOMAIN dates \/ ~CrossListed(line.id)
      THEN [n \in DOMAIN dates \cup {key} |-> IF n = key THEN line.year ELSE dates[n]]
      ELSE dates

-----------------------------------------------------------------------------
(* The graph. *)

ReadEdges(lines) == [i \in DOMAIN lines |-> <<Normalise(lines[i][1]), Normalise(lines[i][2])>>]

Before(a, b) == \E i \in DOMAIN a : a[i] < b[i] /\ \A j \in 1 .. (i - 1) : a[j] = b[j]
EdgeBefore(e, f) == Before(e[1] \o e[2], f[1] \o f[2])

\* The positions drawn from the sorted edges, in their order.
SampleEdges(edges, limit, seed) ==
  LET ordered == SortSeq(edges, EdgeBefore)
      drawn == Draw(seed, DOMAIN ordered, limit)
  IN  [i \in 1 .. limit |-> ordered[CHOOSE p \in drawn : Cardinality({q \in drawn : q <= p}) = i]]

\* --edges 0 keeps them all, and so does a limit the file does not reach.
Kept(lines, request) ==
  IF request.edges = 0 \/ request.edges >= Len(lines) THEN ReadEdges(lines)
  ELSE SampleEdges(ReadEdges(lines), request.edges, request.seed)

Papers(edges) == UNION {{edges[i][1], edges[i][2]} : i \in DOMAIN edges}
Cites(edges) == {edges[i] : i \in DOMAIN edges}

\* Papers nothing is known of stay, with an empty year.
Years(papers, dates) == [n \in papers |-> IF n \in DOMAIN dates THEN dates[n] ELSE ""]

Histogram(years) ==
  [y \in {years[n] : n \in DOMAIN years} \ {""} |-> Cardinality({n \in DOMAIN years : years[n] = y})]

Citing(edges) == {edges[i][1] : i \in DOMAIN edges}

\* pick_start_nodes: drawn among the papers that cite, each with its out-degree.
PickStartNodes(edges, seed) ==
  LET citing == Citing(edges)
      chosen == IF StartCount >= Cardinality(citing) THEN citing ELSE Draw(seed, citing, StartCount)
  IN  [n \in chosen |-> Cardinality({i \in DOMAIN edges : edges[i][1] = n})]

CitedBy(cites, papers) == {e[2] : e \in {c \in cites : c[1] \in papers}}

\* What reachable_within returns and every adapter's query counts: the other papers up to
\* k citations away (GroundTruthCorrect and EnginesAgree of Reachability).
CountWithin(cites, n, k) ==
  LET one == CitedBy(cites, {n})
      two == IF k >= 2 THEN CitedBy(cites, one) ELSE {}
      three == IF k >= 3 THEN CitedBy(cites, two) ELSE {}
  IN  Cardinality((one \cup two \cup three) \ {n})

\* Mutant: papers without a year get no answers.
ExpectedOfDated(cites, starts, years) ==
  LET dated == {n \in starts : years[n] # ""}
  IN  [counts |-> [k \in 1 .. 3 |-> [n \in dated |-> CountWithin(cites, n, k)]],
       years |-> [n \in dated |-> years[n]],
       histogram |-> Histogram(years)]

Expected(cites, starts, years) ==
  [counts |-> [k \in 1 .. 3 |-> [n \in starts |-> CountWithin(cites, n, k)]],
   years |-> [n \in starts |-> years[n]],
   histogram |-> Histogram(years)]

-----------------------------------------------------------------------------
(* The workloads (build_workloads): what each asks, and the answers it wants. *)

Workloads == {"one_hop", "two_hop", "three_hop", "point_lookup", "filtered_lookup", "aggregation"}

Arguments(starts, expected) ==
  [w \in Workloads |-> IF w = "filtered_lookup" THEN DOMAIN expected.histogram
                       ELSE IF w = "aggregation" THEN {"None"} ELSE starts]

Wanted(expected) ==
  [one_hop |-> expected.counts[1], two_hop |-> expected.counts[2], three_hop |-> expected.counts[3],
   point_lookup |-> expected.years, filtered_lookup |-> expected.histogram,
   aggregation |-> [none \in {"None"} |-> Cardinality(DOMAIN expected.histogram)]]

-----------------------------------------------------------------------------
(* A loaded database: the year property of each paper and who cites whom. *)

Null == "null"

\* Mutant: the empty year is stored as it is.
StoredAsRead(year) == year

\* year or None
Stored(year) == IF year = "" THEN Null ELSE year

\* A citation is joined to the papers at its ends, if both are there.
Database(years, edges) ==
  [years |-> [n \in DOMAIN years |-> Stored(years[n])],
   cites |-> {e \in Cites(edges) : {e[1], e[2]} \subseteq DOMAIN years}]

\* ArangoDB stores an edge by the keys of its papers, which need not be there.
DatabaseOfKeys(years, edges) == [Database(years, edges) EXCEPT !.cites = Cites(edges)]

PointLookup(db, n) == IF n \in DOMAIN db.years /\ db.years[n] # Null THEN db.years[n] ELSE ""

FilteredLookup(db, year) == Cardinality({n \in DOMAIN db.years : db.years[n] = year})

Aggregation(db) == Cardinality({db.years[n] : n \in DOMAIN db.years} \ {Null})

\* What the database answers to each workload's calls, those that were asked and answered.
Answers(db, args) ==
  [one_hop |-> [n \in args.one_hop |-> CountWithin(db.cites, n, 1)],
   two_hop |-> [n \in args.two_hop |-> CountWithin(db.cites, n, 2)],
   three_hop |-> [n \in args.three_hop |-> CountWithin(db.cites, n, 3)],
   point_lookup |-> [n \in args.point_lookup |-> PointLookup(db, n)],
   filtered_lookup |-> [y \in args.filtered_lookup |-> FilteredLookup(db, y)],
   aggregation |-> [none \in args.aggregation |-> Aggregation(db)]]

\* An argument without ground truth is not compared; what is not a mismatch is ok.
Mismatched(answers, wanted, w) ==
  \E a \in DOMAIN answers[w] \cap DOMAIN wanted[w] : answers[w][a] # wanted[w][a]
=============================================================================
