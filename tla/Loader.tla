------------------------------- MODULE Loader -------------------------------
(***************************************************************************)
(* The ingest: main of scripts/load_data.py over the adapters' connect,    *)
(* setup_schema, reset and load, run again and again against the same      *)
(* servers and the same results/load_results.json.                         *)
(*                                                                         *)
(* A target is one database; its flavour says which adapter drives it.     *)
(* Every driver call can fail, before or after its effect, and the process *)
(* can die between any two steps, also while it rewrites the file.         *)
(*                                                                         *)
(* Abstracted: a paper is a position of nodes.csv, a stored node the pair  *)
(* of that paper and the run that created it, a stored relationship its    *)
(* row of edges.csv, the run, and the two stored nodes it joins (ArangoDB  *)
(* joins keys, not nodes, written 0).  Rates and timings are left out.     *)
(***************************************************************************)
EXTENDS Integers, Sequences, FiniteSets

CONSTANTS
  Targets,       \* the configured databases
  Configs,       \* what the environment may configure: for each target its adapter, or "unset"
  NumPapers,     \* rows of nodes.csv
  Citations,     \* rows of edges.csv: pairs of papers
  BatchSize,     \* rows per UNWIND
  DeleteLimit,   \* nodes per query of the Bolt reset (10000 in the code)
  Nobody,        \* no target
  MaxRuns        \* bound: invocations of load_data.py

ASSUME TargetsAssumption ==
  Configs \subseteq [Targets -> {"bolt", "falkordb", "arangodb", "unset"}] /\ Nobody \notin Targets
ASSUME DatasetAssumption ==
  NumPapers \in Nat \ {0} /\ Citations \in Seq((1 .. NumPapers) \X (1 .. NumPapers)) /\ Citations # <<>>
ASSUME SizesAssumption == {BatchSize, DeleteLimit} \subseteq Nat \ {0} /\ MaxRuns \in Nat

VARIABLES
  flavour,   \* flavour[t]: which adapter drives t, or "unset"
  nodes,     \* nodes[t]: the Paper nodes stored in t
  edges,     \* edges[t]: the CITES relationships stored in t
  indexes,   \* indexes[t]: the properties t has an index on
  bench,     \* bench[t]: whether rows of the mixed workload were left behind in t
  torn,      \* whether load_results.json is a half-written file
  saved,     \* its records, one for each target
  run,       \* how many times load_data.py was started
  pc,        \* where the process is; "idle" when none runs
  keep,      \* --keep
  todo,      \* targets this run has still to load
  cur,       \* the target being loaded
  pos,       \* position in the statements, collections or rows of the current step
  listed,    \* the indexes setup_schema returned
  records    \* the dictionary the process will write

server == <<nodes, edges, indexes, bench>>
file == <<torn, saved>>
vars == <<flavour, server, file, run, pc, keep, todo, cur, pos, listed, records>>

Papers == 1 .. NumPapers
Rows == 1 .. Len(Citations)
Runs == 0 .. MaxRuns
Indexed == <<"id", "year">>

Record == [status : {"none", "failed", "loaded"}, run : Runs, indexes : SUBSET {"id", "year"}]
NoRecord == [status |-> "none", run |-> 0, indexes |-> {}]

Steps == {"idle", "next", "connect", "schema", "reset", "nodes", "edges", "record", "failed", "save", "saving"}

Init ==
  /\ flavour \in Configs
  /\ nodes = [t \in Targets |-> {}] /\ edges = [t \in Targets |-> {}]
  /\ indexes = [t \in Targets |-> {}]
  /\ bench = [t \in Targets |-> FALSE]
  /\ torn = FALSE /\ saved = [t \in Targets |-> NoRecord]
  /\ run = 0 /\ pc = "idle" /\ keep = FALSE /\ todo = {} /\ cur = Nobody /\ pos = 0
  /\ listed = {} /\ records = [t \in Targets |-> NoRecord]

-----------------------------------------------------------------------------
(* The process and its file. *)

\* selected_targets: of those asked for, the ones the environment has an address of.
Selected(asked) == {t \in asked : flavour[t] # "unset"}

Begin(known) ==
  /\ pc = "idle" /\ run < MaxRuns
  /\ run' = run + 1
  /\ \E asked \in SUBSET Targets :
       \/ Selected(asked) = {} /\ UNCHANGED <<pc, keep, todo, records>>
       \/ torn /\ UNCHANGED <<pc, keep, todo, records>>
       \/ /\ Selected(asked) # {} /\ ~torn
          /\ pc' = "next" /\ records' = known
          /\ keep' \in BOOLEAN /\ todo' = Selected(asked)
  /\ UNCHANGED <<flavour, server, file, cur, pos, listed>>

\* Mutant: the records of earlier runs are not read.
StartFromNothing == Begin([t \in Targets |-> NoRecord])

\* main starts: it ends at once when no target is selected, or when the records of earlier
\* runs, which are read before anything is done, are half-written.
Start == Begin(saved)

\* Mutant: a target stays in the list.
PickAgain ==
  /\ pc = "next"
  /\ \E t \in todo : cur' = t
  /\ pc' = "connect"
  /\ UNCHANGED <<server, file, flavour, run, keep, todo, pos, listed, records>>

Pick ==
  /\ pc = "next"
  /\ \E t \in todo : cur' = t /\ todo' = todo \ {t}
  /\ pc' = "connect"
  /\ UNCHANGED <<server, file, flavour, run, keep, pos, listed, records>>

\* The process is gone; what it had not written is lost.
Ended ==
  /\ pc' = "idle" /\ keep' = FALSE /\ todo' = {} /\ cur' = Nobody /\ pos' = 0
  /\ listed' = {} /\ records' = [t \in Targets |-> NoRecord]
  /\ UNCHANGED <<server, file, flavour, run>>

Exit == pc = "next" /\ todo = {} /\ Ended

Crash == pc # "idle" /\ Ended

\* An exception inside the try block: the target's record will say so.
Fail ==
  /\ pc' = "failed"
  /\ UNCHANGED <<file, flavour, run, keep, todo, cur, pos, listed, records>>

RecordLoad ==
  /\ pc = "record"
  /\ records' = [records EXCEPT ![cur] = [status |-> "loaded", run |-> run, indexes |-> listed]]
  /\ pc' = "save"
  /\ UNCHANGED <<server, file, flavour, run, keep, todo, cur, pos, listed>>

\* Mutant: a failed load leaves no record.
FailureForgotten ==
  /\ pc = "failed" /\ pc' = "save"
  /\ UNCHANGED <<server, file, flavour, run, keep, todo, cur, pos, listed, records>>

RecordFailure ==
  /\ pc = "failed"
  /\ records' = [records EXCEPT ![cur] = [status |-> "failed", run |-> run, indexes |-> {}]]
  /\ pc' = "save"
  /\ UNCHANGED <<server, file, flavour, run, keep, todo, cur, pos, listed>>

\* write_text truncates the file and then fills it.
BeginSave ==
  /\ pc = "save"
  /\ torn' = TRUE /\ saved' = [t \in Targets |-> NoRecord]
  /\ pc' = "saving"
  /\ UNCHANGED <<server, flavour, run, keep, todo, cur, pos, listed, records>>

EndSave ==
  /\ pc = "saving"
  /\ torn' = FALSE /\ saved' = records
  /\ pc' = "next"
  /\ UNCHANGED <<server, flavour, run, keep, todo, cur, pos, listed, records>>

-----------------------------------------------------------------------------
(* connect and setup_schema. *)

\* Connecting to ArangoDB also creates the collections, and with them the index on _key.
CreateCollections ==
  IF flavour[cur] = "arangodb" THEN indexes' = [indexes EXCEPT ![cur] = @ \cup {"id"}]
  ELSE UNCHANGED indexes

Connect ==
  /\ pc = "connect"
  /\ \/ /\ pc' = "schema" /\ pos' = 0 /\ listed' = {}
        /\ CreateCollections
        /\ UNCHANGED <<file, flavour, run, keep, todo, cur, records>>
     \/ Fail /\ (CreateCollections \/ UNCHANGED indexes)
  /\ UNCHANGED <<nodes, edges, bench>>

\* After the last statement main clears the target, unless told to keep its data.
AfterStatement ==
  /\ pc' = IF pos + 1 < Len(Indexed) THEN "schema" ELSE IF keep THEN "nodes" ELSE "reset"
  /\ pos' = IF pos + 1 < Len(Indexed) THEN pos + 1 ELSE 0
  /\ UNCHANGED <<nodes, edges, bench, file, flavour, run, keep, todo, cur, records>>

\* The statement succeeds, or the server says the index already exists.
CreateIndex ==
  /\ pc = "schema"
  /\ indexes' = [indexes EXCEPT ![cur] = @ \cup {Indexed[pos + 1]}]
  /\ listed' = listed \cup {Indexed[pos + 1]}
  /\ AfterStatement

\* Mutant: a statement that failed is listed with the others.
FailureListed ==
  /\ pc = "schema"
  /\ listed' = listed \cup {Indexed[pos + 1]}
  /\ UNCHANGED indexes
  /\ AfterStatement

\* Any other error is logged and the statement left out of the list.  ArangoDB's _key
\* index is listed without a statement that could fail.
CreateIndexFails ==
  /\ pc = "schema" /\ ~(flavour[cur] = "arangodb" /\ Indexed[pos + 1] = "id")
  /\ indexes' \in {indexes, [indexes EXCEPT ![cur] = @ \cup {Indexed[pos + 1]}]}
  /\ AfterStatement
  /\ UNCHANGED listed

-----------------------------------------------------------------------------
(* reset. *)

AfterReset ==
  /\ pc' = "nodes" /\ pos' = 0
  /\ UNCHANGED <<indexes, file, flavour, run, keep, todo, cur, listed, records>>

\* Detaching and deleting some stored nodes, rows of the mixed workload among them.
Delete(ns, alsoBench) ==
  /\ nodes' = [nodes EXCEPT ![cur] = @ \ ns]
  /\ edges' = [edges EXCEPT ![cur] =
       {e \in @ : /\ <<Citations[e.row][1], e.src>> \notin ns
                  /\ <<Citations[e.row][2], e.dst>> \notin ns}]
  /\ bench' = [bench EXCEPT ![cur] = @ /\ ~alsoBench]

\* One query of the Bolt reset: up to DeleteLimit nodes, whichever the server picks.
\* The rows of the mixed workload count as one node.
DeleteSome ==
  /\ \E ns \in SUBSET nodes[cur], b \in BOOLEAN :
       LET deleted == Cardinality(ns) + (IF b THEN 1 ELSE 0)
           stored == Cardinality(nodes[cur]) + (IF bench[cur] THEN 1 ELSE 0)
       IN  /\ b => bench[cur]
           /\ deleted = (IF stored < DeleteLimit THEN stored ELSE DeleteLimit)
           /\ Delete(ns, b)
  /\ UNCHANGED indexes

Empty(t) == nodes[t] = {} /\ ~bench[t]

\* Mutant: one query is taken to empty the database.
ResetOneQuery ==
  /\ pc = "reset" /\ flavour[cur] = "bolt"
  /\ DeleteSome /\ AfterReset

ResetBolt ==
  /\ pc = "reset" /\ flavour[cur] = "bolt"
  /\ \/ /\ ~Empty(cur) /\ DeleteSome
        /\ UNCHANGED <<pc, pos, file, flavour, run, keep, todo, cur, listed, records>>
     \/ Empty(cur) /\ AfterReset /\ UNCHANGED <<nodes, edges, bench>>
     \/ Fail /\ (DeleteSome \/ UNCHANGED server)

\* graph.delete() drops the graph key, and with it the indexes.  Any error counts as
\* an absent key.
ResetFalkor ==
  /\ pc = "reset" /\ flavour[cur] = "falkordb"
  /\ pc' = "nodes" /\ pos' = 0
  /\ \/ /\ nodes' = [nodes EXCEPT ![cur] = {}] /\ edges' = [edges EXCEPT ![cur] = {}]
        /\ indexes' = [indexes EXCEPT ![cur] = {}] /\ bench' = [bench EXCEPT ![cur] = FALSE]
     \/ UNCHANGED server
  /\ UNCHANGED <<file, flavour, run, keep, todo, cur, listed, records>>

\* Truncating cites, papers and bench_writes, in this order.
TruncateNext ==
  /\ edges' = IF pos = 0 THEN [edges EXCEPT ![cur] = {}] ELSE edges
  /\ nodes' = IF pos = 1 THEN [nodes EXCEPT ![cur] = {}] ELSE nodes
  /\ bench' = IF pos = 2 THEN [bench EXCEPT ![cur] = FALSE] ELSE bench

ResetArango ==
  /\ pc = "reset" /\ flavour[cur] = "arangodb"
  /\ \/ pos = 2 /\ TruncateNext /\ AfterReset
     \/ /\ pos < 2 /\ TruncateNext /\ pos' = pos + 1
        /\ UNCHANGED <<pc, indexes, file, flavour, run, keep, todo, cur, listed, records>>
     \/ Fail /\ UNCHANGED indexes /\ (TruncateNext \/ UNCHANGED <<nodes, edges, bench>>)

-----------------------------------------------------------------------------
(* load: batches of papers, then batches of citations (iter_batches). *)

\* Mutant: the slice starts one row early.
BatchFromZero(last) == pos .. (IF pos + BatchSize < last THEN pos + BatchSize ELSE last)

Batch(last) == (pos + 1) .. (IF pos + BatchSize < last THEN pos + BatchSize ELSE last)

\* Mutant: a last batch that is not full is skipped.
FullBatchesOnly(last, then) ==
  /\ pc' = IF pos + 2 * BatchSize <= last THEN pc ELSE then
  /\ pos' = IF pos + 2 * BatchSize <= last THEN pos + BatchSize ELSE 0
  /\ UNCHANGED <<file, flavour, run, keep, todo, cur, listed, records>>

AfterBatch(last, then) ==
  /\ pc' = IF pos + BatchSize < last THEN pc ELSE then
  /\ pos' = IF pos + BatchSize < last THEN pos + BatchSize ELSE 0
  /\ UNCHANGED <<file, flavour, run, keep, todo, cur, listed, records>>

\* ArangoDB refuses a second document with the same _key, and with it the batch.
Accepted ==
  flavour[cur] = "arangodb" => \A n \in nodes[cur] : n[1] \notin Batch(NumPapers)

InsertPapers ==
  /\ Accepted
  /\ nodes' = [nodes EXCEPT ![cur] = @ \cup {<<p, run>> : p \in Batch(NumPapers)}]
  /\ UNCHANGED <<edges, indexes, bench>>

LoadPapers ==
  /\ pc = "nodes"
  /\ \/ InsertPapers /\ AfterBatch(NumPapers, "edges")
     \/ Fail /\ (InsertPapers \/ UNCHANGED server)

\* MATCH both ends and CREATE: one relationship for each pair of stored nodes that
\* matches, none when an end is missing.  ArangoDB inserts one edge whatever is stored.
Joined(row) ==
  IF flavour[cur] = "arangodb" THEN {[row |-> row, run |-> run, src |-> 0, dst |-> 0]}
  ELSE {[row |-> row, run |-> run, src |-> a[2], dst |-> b[2]] :
          a \in {n \in nodes[cur] : n[1] = Citations[row][1]},
          b \in {n \in nodes[cur] : n[1] = Citations[row][2]}}

InsertCitations ==
  /\ edges' = [edges EXCEPT ![cur] = @ \cup UNION {Joined(row) : row \in Batch(Len(Citations))}]
  /\ UNCHANGED <<nodes, indexes, bench>>

LoadCitations ==
  /\ pc = "edges"
  /\ \/ InsertCitations /\ AfterBatch(Len(Citations), "record")
     \/ Fail /\ (InsertCitations \/ UNCHANGED server)

-----------------------------------------------------------------------------

\* Between two runs a benchmark may have failed to clean up after its writers.
BenchmarkLeavesRows ==
  /\ pc = "idle"
  /\ \E t \in Targets : bench' = [bench EXCEPT ![t] = TRUE]
  /\ UNCHANGED <<nodes, edges, indexes, file, flavour, run, pc, keep, todo, cur, pos, listed, records>>

NoMoreRuns == pc = "idle" /\ run = MaxRuns /\ UNCHANGED vars

Process ==
  \/ Pick \/ Exit \/ Connect \/ CreateIndex \/ CreateIndexFails
  \/ ResetBolt \/ ResetFalkor \/ ResetArango
  \/ LoadPapers \/ LoadCitations
  \/ RecordLoad \/ RecordFailure \/ BeginSave \/ EndSave

Next == Start \/ Process \/ Crash \/ BenchmarkLeavesRows \/ NoMoreRuns

Spec == Init /\ [][Next]_vars

\* A running process is scheduled and every driver call ends.
FairSpec == Spec /\ WF_vars(Process)

-----------------------------------------------------------------------------
(* Properties. *)

StoredNode == Papers \X Runs
StoredEdge == [row : Rows, run : Runs, src : Runs, dst : Runs]

TypeOK ==
  /\ nodes \in [Targets -> SUBSET StoredNode] /\ edges \in [Targets -> SUBSET StoredEdge]
  /\ indexes \in [Targets -> SUBSET {"id", "year"}] /\ bench \in [Targets -> BOOLEAN]
  /\ torn \in BOOLEAN /\ saved \in [Targets -> Record] /\ records \in [Targets -> Record]
  /\ run \in Runs /\ pc \in Steps /\ keep \in BOOLEAN /\ todo \subseteq Targets
  /\ cur \in Targets \cup {Nobody} /\ listed \subseteq {"id", "year"}
  /\ pos \in Nat /\ flavour \in Configs

JustLoaded == pc = "save" /\ records[cur].status = "loaded"

\* A load that is about to be published stored every paper and every citation, whatever
\* earlier runs left behind ("Outcome of ingesting the dataset", common.py:49).
LoadedIsComplete ==
  JustLoaded =>
    /\ \A p \in Papers : <<p, run>> \in nodes[cur]
    /\ \A row \in Rows : \E e \in edges[cur] : e.row = row /\ e.run = run

\* Without --keep it stored nothing else: each paper and citation once, nothing of an
\* earlier, failed or interrupted load, and no row of the mixed workload ("so a run
\* always starts from a known-empty database", common.py:134).
LoadedIsExact ==
  JustLoaded /\ ~keep =>
    /\ nodes[cur] = Papers \X {run}
    /\ \A e \in edges[cur] : e.run = run
    /\ \A row \in Rows : Cardinality({e \in edges[cur] : e.row = row}) = 1
    /\ ~bench[cur]

\* The same of the platforms whose reset says when it failed.
LoadedIsExactElsewhere ==
  JustLoaded /\ flavour[cur] # "falkordb" => LoadedIsExact

\* The indexes published with a load are on the database it measured ("so the README can
\* state exactly which properties were indexed on each platform", common.py:138-139).
ListedIndexesExist == JustLoaded => records[cur].indexes \subseteq indexes[cur]

\* The same wherever no reset dropped the schema after it was set up.
ListedIndexesExistElsewhere ==
  JustLoaded /\ (flavour[cur] = "falkordb" => keep) => ListedIndexesExist

\* When a run turns to the next target, the file on disk holds this run's record of the
\* last one, failed or not: one failing target hides no other.
EveryTargetRecorded ==
  pc = "next" /\ cur # Nobody =>
    /\ ~torn /\ saved[cur].run = run
    /\ saved[cur].status = "loaded" \/ saved[cur].indexes = {}

\* What the file says of a target, or is about to say while it is being rewritten, is
\* only ever replaced by something newer: a run over other targets does not drop it, and
\* neither does a crash, unless it tears the file.
OnRecord(t) == IF torn THEN records[t].run ELSE saved[t].run
RecordsSurvive ==
  [][(torn => pc' # "idle") => \A t \in Targets : OnRecord(t)' >= OnRecord(t)]_vars

\* Every run ends: the Bolt reset loop and the batches come to an end.
RunsEnd == pc # "idle" ~> pc = "idle"
=============================================================================
