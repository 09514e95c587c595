----------------------------- MODULE LoaderProofs -----------------------------
(***************************************************************************)
(* The loader keeps its guarantees for every set of targets, dataset,      *)
(* batch size and number of runs.                                          *)
(***************************************************************************)
EXTENDS Loader, FiniteSetTheorems, TLAPS

Loading == {"nodes", "edges", "record"}

\* Where the process is in what it does to its target.
PlaceInv ==
  /\ pc = "idle" => cur = Nobody
  /\ pc \notin {"idle", "next"} => cur \in Targets
  /\ pc = "schema" => pos \in 0 .. 1
  /\ pc = "reset" => pos \in 0 .. 2 /\ ~keep
  /\ pc = "nodes" => pos < NumPapers
  /\ pc = "edges" => pos < Len(Citations)

\* No index is listed that the target does not have.
IndexInv ==
  /\ pc \in {"schema", "reset"} => listed \subseteq indexes[cur]
  /\ pc \in Loading /\ (flavour[cur] = "falkordb" => keep) => listed \subseteq indexes[cur]
  /\ ListedIndexesExistElsewhere

\* How old the records in memory and on disk are.
RecordInv ==
  /\ pc \in {"save", "saving"} => /\ records[cur].run = run
                                  /\ records[cur].status = "loaded" \/ records[cur].indexes = {}
  /\ EveryTargetRecorded
  /\ \A t \in Targets : saved[t].run <= run /\ records[t].run <= run
  /\ torn => pc \in {"saving", "idle"} /\ \A t \in Targets : saved[t].run = 0
  /\ pc # "idle" => \A t \in Targets : saved[t].run <= records[t].run

\* On the platforms with nodes of their own a relationship joins two that are stored.
JoinInv ==
  \A t \in Targets : flavour[t] # "arangodb" =>
    \A e \in edges[t] : /\ <<Citations[e.row][1], e.src>> \in nodes[t]
                        /\ <<Citations[e.row][2], e.dst>> \in nodes[t]

\* The papers and citations of the load under way that are already stored, and what is
\* stored of a citation.
PapersDone(at, last) == IF at = "nodes" THEN 1 .. last ELSE Papers
RowsDone(at, last) == CASE at = "nodes" -> {} [] at = "edges" -> 1 .. last [] OTHER -> Rows

Edge(adapter, version, row) ==
  LET ends == IF adapter = "arangodb" THEN 0 ELSE version
  IN  [row |-> row, run |-> version, src |-> ends, dst |-> ends]

CompleteInv ==
  /\ pc \in Loading => /\ \A p \in PapersDone(pc, pos) : <<p, run>> \in nodes[cur]
                       /\ \A row \in RowsDone(pc, pos) : Edge(flavour[cur], run, row) \in edges[cur]
  /\ LoadedIsComplete

\* Nothing else is stored, where the reset says when it failed.
ExactInv ==
  /\ pc = "reset" /\ flavour[cur] = "arangodb" => /\ pos >= 1 => edges[cur] = {}
                                                  /\ pos >= 2 => nodes[cur] = {}
  /\ pc \in Loading /\ ~keep /\ flavour[cur] # "falkordb" =>
       /\ \A n \in nodes[cur] : n[1] \in PapersDone(pc, pos) /\ n[2] = run
       /\ \A e \in edges[cur] : \E row \in RowsDone(pc, pos) : e = Edge(flavour[cur], run, row)
       /\ ~bench[cur]
  /\ LoadedIsExactElsewhere

-----------------------------------------------------------------------------
(* Types and places. *)

LEMMA Sizes ==
  /\ NumPapers \in Nat \ {0} /\ BatchSize \in Nat \ {0} /\ DeleteLimit \in Nat \ {0} /\ MaxRuns \in Nat
  /\ Len(Citations) \in Nat \ {0} /\ 0 \in Runs
  /\ \A row \in Rows : Citations[row][1] \in Papers /\ Citations[row][2] \in Papers
<1>1. Citations \in Seq(Papers \X Papers) /\ Citations # <<>>
  BY DatasetAssumption DEF Papers
<1>2. Len(Citations) \in Nat \ {0}
  BY <1>1
<1>3. \A row \in Rows : Citations[row] \in Papers \X Papers
  BY <1>1 DEF Rows
<1>. QED  BY <1>2, <1>3, DatasetAssumption, SizesAssumption DEF Runs

\* A batch goes on from where the last one ended, up to the next or to the last row.
LEMMA BatchFacts ==
  ASSUME NEW last \in Nat, pos \in Nat, pos < last
  PROVE  /\ Batch(last) \subseteq 1 .. last
         /\ pos + BatchSize < last =>
              \A i : i \in 1 .. pos + BatchSize <=> i \in 1 .. pos \/ i \in Batch(last)
         /\ ~(pos + BatchSize < last) =>
              \A i : i \in 1 .. last <=> i \in 1 .. pos \/ i \in Batch(last)
         /\ pos + BatchSize \in Nat
BY Sizes DEF Batch

\* What is joined is of a row and of this run.
LEMMA JoinedFacts ==
  ASSUME TypeOK, cur \in Targets, NEW row \in Rows
  PROVE  Joined(row) \subseteq StoredEdge
<1>1. run \in Runs /\ nodes[cur] \subseteq StoredNode /\ 0 \in Runs
  BY Sizes DEF TypeOK
<1>2. CASE flavour[cur] = "arangodb"
  BY <1>1, <1>2 DEF Joined, StoredEdge
<1>3. CASE flavour[cur] # "arangodb"
  <2>. SUFFICES ASSUME NEW e \in Joined(row) PROVE e \in StoredEdge
    OBVIOUS
  <2>1. PICK a \in nodes[cur], b \in nodes[cur] : e = [row |-> row, run |-> run, src |-> a[2], dst |-> b[2]]
    BY <1>3 DEF Joined
  <2>2. a[2] \in Runs /\ b[2] \in Runs
    BY <1>1, <2>1 DEF StoredNode
  <2>. QED  BY <1>1, <2>1, <2>2 DEF StoredEdge
<1>. QED  BY <1>2, <1>3

\* A step that leaves the process and its file alone, and only touches the server.
LEMMA ServerTypes ==
  ASSUME TypeOK, cur \in Targets
  PROVE  /\ \A ns, b : Delete(ns, b) =>
              nodes' \in [Targets -> SUBSET StoredNode] /\ edges' \in [Targets -> SUBSET StoredEdge]
                /\ bench' \in [Targets -> BOOLEAN]
         /\ DeleteSome => nodes' \in [Targets -> SUBSET StoredNode] /\ edges' \in [Targets -> SUBSET StoredEdge]
                            /\ bench' \in [Targets -> BOOLEAN] /\ UNCHANGED indexes
         /\ TruncateNext => nodes' \in [Targets -> SUBSET StoredNode] /\ edges' \in [Targets -> SUBSET StoredEdge]
                              /\ bench' \in [Targets -> BOOLEAN]
<1>1. /\ nodes \in [Targets -> SUBSET StoredNode] /\ edges \in [Targets -> SUBSET StoredEdge]
      /\ bench \in [Targets -> BOOLEAN]
  BY DEF TypeOK
<1>2. ASSUME NEW ns, NEW b, Delete(ns, b)
      PROVE  /\ nodes' \in [Targets -> SUBSET StoredNode] /\ edges' \in [Targets -> SUBSET StoredEdge]
             /\ bench' \in [Targets -> BOOLEAN]
  <2>. DEFINE left == {e \in edges[cur] : /\ <<Citations[e.row][1], e.src>> \notin ns
                                          /\ <<Citations[e.row][2], e.dst>> \notin ns}
  <2>1. /\ nodes' = [nodes EXCEPT ![cur] = @ \ ns] /\ edges' = [edges EXCEPT ![cur] = left]
        /\ bench' = [bench EXCEPT ![cur] = @ /\ ~b]
    BY <1>2 DEF Delete
  <2>2. left \subseteq StoredEdge /\ nodes[cur] \ ns \subseteq StoredNode
    BY <1>1
  <2>3. (bench[cur] /\ ~b) \in BOOLEAN
    OBVIOUS
  <2>. HIDE DEF left
  <2>4. nodes' \in [Targets -> SUBSET StoredNode] /\ edges' \in [Targets -> SUBSET StoredEdge]
    BY <1>1, <2>1, <2>2
  <2>5. bench' \in [Targets -> BOOLEAN]
    BY <1>1, <2>1, <2>3
  <2>. QED  BY <2>4, <2>5
<1>3. DeleteSome => UNCHANGED indexes /\ \E ns, b : Delete(ns, b)
  BY DEF DeleteSome
<1>4. ASSUME TruncateNext
      PROVE  /\ nodes' \in [Targets -> SUBSET StoredNode] /\ edges' \in [Targets -> SUBSET StoredEdge]
             /\ bench' \in [Targets -> BOOLEAN]
  BY <1>1, <1>4 DEF TruncateNext
<1>. QED  BY <1>2, <1>3, <1>4

ServerOK ==
  /\ nodes \in [Targets -> SUBSET StoredNode] /\ edges \in [Targets -> SUBSET StoredEdge]
  /\ indexes \in [Targets -> SUBSET {"id", "year"}] /\ bench \in [Targets -> BOOLEAN]

ProcessOK ==
  /\ torn \in BOOLEAN /\ saved \in [Targets -> Record] /\ records \in [Targets -> Record]
  /\ run \in Runs /\ pc \in Steps /\ keep \in BOOLEAN /\ todo \subseteq Targets
  /\ cur \in Targets \cup {Nobody} /\ listed \subseteq {"id", "year"}
  /\ pos \in Nat /\ flavour \in Configs

\* What the server holds keeps its type.
LEMMA ServerStep == TypeOK /\ PlaceInv /\ [Next]_vars => ServerOK'
<1>. SUFFICES ASSUME TypeOK, PlaceInv, [Next]_vars PROVE ServerOK'
  OBVIOUS
<1>0. ServerOK
  BY DEF TypeOK, ServerOK
<1>1. CASE UNCHANGED server
  BY <1>0, <1>1 DEF ServerOK, server
<1>2. CASE Start \/ Pick \/ Exit \/ Crash \/ RecordLoad \/ RecordFailure \/ BeginSave \/ EndSave
  <2>1. UNCHANGED server
    BY <1>2 DEF Start, Begin, Pick, Exit, Crash, Ended, RecordLoad, RecordFailure, BeginSave, EndSave
  <2>. QED  BY <1>1, <2>1
<1>3. CASE Connect \/ CreateIndex \/ CreateIndexFails
  <2>1. UNCHANGED <<nodes, edges, bench>>
    BY <1>3 DEF Connect, CreateIndex, CreateIndexFails, AfterStatement
  <2>2. indexes' \in [Targets -> SUBSET {"id", "year"}]
    <3>1. CASE Connect
      BY <1>0, <3>1 DEF Connect, CreateCollections, ServerOK
    <3>2. CASE CreateIndex \/ CreateIndexFails
      <4>1. pos \in 0 .. 1 /\ Indexed[pos + 1] \in {"id", "year"}
        BY <3>2 DEF CreateIndex, CreateIndexFails, PlaceInv, Indexed
      <4>2. \/ indexes' = indexes
            \/ indexes' = [indexes EXCEPT ![cur] = @ \cup {Indexed[pos + 1]}]
        BY <3>2 DEF CreateIndex, CreateIndexFails
      <4>. QED  BY <1>0, <4>1, <4>2 DEF ServerOK
    <3>. QED  BY <1>3, <3>1, <3>2
  <2>. QED  BY <1>0, <2>1, <2>2 DEF ServerOK
<1>4. CASE ResetBolt
  <2>1. cur \in Targets
    BY <1>4 DEF ResetBolt, PlaceInv
  <2>2. DeleteSome \/ UNCHANGED server
    BY <1>4 DEF ResetBolt, AfterReset, server
  <2>. QED  BY <1>0, <1>1, <2>1, <2>2, ServerTypes DEF ServerOK
<1>5. CASE ResetFalkor
  <2>1. cur \in Targets
    BY <1>5 DEF ResetFalkor, PlaceInv
  <2>2. \/ /\ nodes' = [nodes EXCEPT ![cur] = {}] /\ edges' = [edges EXCEPT ![cur] = {}]
           /\ indexes' = [indexes EXCEPT ![cur] = {}] /\ bench' = [bench EXCEPT ![cur] = FALSE]
        \/ UNCHANGED server
    BY <1>5 DEF ResetFalkor
  <2>. QED  BY <1>0, <1>1, <2>1, <2>2 DEF ServerOK
<1>6. CASE ResetArango
  <2>1. cur \in Targets /\ UNCHANGED indexes
    BY <1>6 DEF ResetArango, PlaceInv, AfterReset
  <2>2. TruncateNext \/ UNCHANGED <<nodes, edges, bench>>
    BY <1>6 DEF ResetArango
  <2>. QED  BY <1>0, <2>1, <2>2, ServerTypes DEF ServerOK
<1>7. CASE LoadPapers
  <2>1. InsertPapers \/ UNCHANGED server
    BY <1>7 DEF LoadPapers
  <2>2. CASE InsertPapers
    <3>1. Batch(NumPapers) \subseteq Papers /\ run \in Runs
      BY <1>7, BatchFacts, Sizes DEF LoadPapers, PlaceInv, TypeOK, Papers
    <3>2. {<<p, run>> : p \in Batch(NumPapers)} \subseteq StoredNode
      BY <3>1 DEF StoredNode
    <3>3. /\ nodes' = [nodes EXCEPT ![cur] = @ \cup {<<p, run>> : p \in Batch(NumPapers)}]
          /\ UNCHANGED <<edges, indexes, bench>>
      BY <2>2 DEF InsertPapers
    <3>4. \A S \in SUBSET StoredNode : [nodes EXCEPT ![cur] = @ \cup S] \in [Targets -> SUBSET StoredNode]
      BY <1>0 DEF ServerOK
    <3>5. nodes' \in [Targets -> SUBSET StoredNode]
      BY <3>2, <3>3, <3>4
    <3>. QED  BY <1>0, <3>3, <3>5 DEF ServerOK
  <2>. QED  BY <1>1, <2>1, <2>2
<1>8. CASE LoadCitations
  <2>1. InsertCitations \/ UNCHANGED server
    BY <1>8 DEF LoadCitations
  <2>2. CASE InsertCitations
    <3>. DEFINE new == UNION {Joined(row) : row \in Batch(Len(Citations))}
    <3>1. Batch(Len(Citations)) \subseteq Rows /\ cur \in Targets
      BY <1>8, BatchFacts, Sizes DEF LoadCitations, PlaceInv, TypeOK, Rows
    <3>2. new \in SUBSET StoredEdge
      BY <3>1, JoinedFacts
    <3>3. edges' = [edges EXCEPT ![cur] = @ \cup new] /\ UNCHANGED <<nodes, indexes, bench>>
      BY <2>2 DEF InsertCitations
    <3>. HIDE DEF new
    <3>4. edges' \in [Targets -> SUBSET StoredEdge]
      BY <1>0, <3>2, <3>3 DEF ServerOK
    <3>. QED  BY <1>0, <3>3, <3>4 DEF ServerOK
  <2>. QED  BY <1>1, <2>1, <2>2
<1>9. CASE BenchmarkLeavesRows
  <2>1. UNCHANGED <<nodes, edges, indexes>> /\ \E t \in Targets : bench' = [bench EXCEPT ![t] = TRUE]
    BY <1>9 DEF BenchmarkLeavesRows
  <2>. QED  BY <1>0, <2>1 DEF ServerOK
<1>10. CASE NoMoreRuns \/ UNCHANGED vars
  <2>1. UNCHANGED server
    BY <1>10 DEF NoMoreRuns, vars
  <2>. QED  BY <1>1, <2>1
<1>. QED  BY <1>2, <1>3, <1>4, <1>5, <1>6, <1>7, <1>8, <1>9, <1>10 DEF Next, Process

\* What the process knows keeps its type.
LEMMA ProcessStep == TypeOK /\ PlaceInv /\ [Next]_vars => ProcessOK'
<1>. SUFFICES ASSUME TypeOK, PlaceInv, [Next]_vars PROVE ProcessOK'
  OBVIOUS
<1>0. ProcessOK /\ NoRecord \in Record /\ 0 \in Nat
  BY Sizes DEF TypeOK, ProcessOK, NoRecord, Record
<1>1. CASE Start
  <2>1. /\ run' = run + 1 /\ run < MaxRuns /\ UNCHANGED <<flavour, torn, saved, cur, pos, listed>>
    BY <1>1 DEF Start, Begin, file
  <2>2. run' \in Runs
    BY <1>0, <2>1, Sizes DEF ProcessOK, Runs
  <2>3. \E asked \in SUBSET Targets :
          \/ UNCHANGED <<pc, keep, todo, records>>
          \/ pc' = "next" /\ records' = saved /\ keep' \in BOOLEAN /\ todo' = Selected(asked)
    BY <1>1 DEF Start, Begin
  <2>4. \A asked \in SUBSET Targets : Selected(asked) \subseteq Targets
    BY DEF Selected
  <2>. QED  BY <1>0, <2>1, <2>2, <2>3, <2>4 DEF ProcessOK, Steps
<1>2. CASE Pick
  BY <1>0, <1>2 DEF Pick, ProcessOK, Steps, file
<1>3. CASE Exit \/ Crash
  BY <1>0, <1>3 DEF Exit, Crash, Ended, ProcessOK, Steps, file
<1>4. CASE Fail
  BY <1>0, <1>4 DEF Fail, ProcessOK, Steps, file
<1>5. CASE RecordLoad
  <2>1. [status |-> "loaded", run |-> run, indexes |-> listed] \in Record
    BY <1>0 DEF ProcessOK, Record
  <2>. QED  BY <1>0, <1>5, <2>1 DEF RecordLoad, ProcessOK, Steps, file
<1>6. CASE RecordFailure
  <2>1. [status |-> "failed", run |-> run, indexes |-> {}] \in Record
    BY <1>0 DEF ProcessOK, Record
  <2>. QED  BY <1>0, <1>6, <2>1 DEF RecordFailure, ProcessOK, Steps, file
<1>7. CASE BeginSave \/ EndSave
  <2>1. CASE BeginSave
    BY <1>0, <2>1 DEF BeginSave, ProcessOK, Steps
  <2>2. CASE EndSave
    BY <1>0, <2>2 DEF EndSave, ProcessOK, Steps
  <2>. QED  BY <1>7, <2>1, <2>2
<1>8. CASE Connect
  <2>1. CASE Fail
    BY <1>4, <2>1
  <2>2. CASE pc' = "schema" /\ pos' = 0 /\ listed' = {} /\ UNCHANGED <<file, flavour, run, keep, todo, cur, records>>
    BY <1>0, <2>2 DEF ProcessOK, Steps, file
  <2>. QED  BY <1>8, <2>1, <2>2 DEF Connect
<1>9. CASE CreateIndex \/ CreateIndexFails
  <2>1. pos \in 0 .. 1 /\ Indexed[pos + 1] \in {"id", "year"}
    BY <1>9 DEF CreateIndex, CreateIndexFails, PlaceInv, Indexed
  <2>2. listed' \subseteq {"id", "year"}
    BY <1>0, <1>9, <2>1 DEF CreateIndex, CreateIndexFails, ProcessOK
  <2>3. /\ pc' \in {"schema", "nodes", "reset"} /\ pos' \in {pos + 1, 0}
        /\ UNCHANGED <<file, flavour, run, keep, todo, cur, records>>
    BY <1>9 DEF CreateIndex, CreateIndexFails, AfterStatement
  <2>4. pos' \in Nat
    BY <2>1, <2>3
  <2>. QED  BY <1>0, <2>2, <2>3, <2>4 DEF ProcessOK, Steps, file
<1>10. ASSUME pc' \in Steps, pos' \in Nat, UNCHANGED <<file, flavour, run, keep, todo, cur, listed, records>>
       PROVE  ProcessOK'
  BY <1>0, <1>10 DEF ProcessOK, file
<1>11. CASE AfterReset
  BY <1>10, <1>11 DEF AfterReset, Steps
<1>12. CASE ResetBolt
  BY <1>0, <1>4, <1>10, <1>11, <1>12 DEF ResetBolt, ProcessOK
<1>13. CASE ResetFalkor
  BY <1>10, <1>13 DEF ResetFalkor, Steps
<1>14. CASE ResetArango
  <2>1. CASE pos' = pos + 1 /\ UNCHANGED <<pc, file, flavour, run, keep, todo, cur, listed, records>>
    BY <1>0, <1>10, <2>1 DEF ProcessOK
  <2>. QED  BY <1>4, <1>11, <1>14, <2>1 DEF ResetArango
<1>15. ASSUME NEW last \in Nat, NEW then \in Steps, AfterBatch(last, then) PROVE ProcessOK'
  <2>1. pos + BatchSize \in Nat
    BY <1>0, Sizes DEF ProcessOK
  <2>2. pc' \in {pc, then} /\ pos' \in {pos + BatchSize, 0}
    BY <1>15 DEF AfterBatch
  <2>3. pc' \in Steps /\ pos' \in Nat
    BY <1>0, <2>1, <2>2 DEF ProcessOK
  <2>. QED  BY <1>10, <1>15, <2>3 DEF AfterBatch
<1>16. CASE LoadPapers
  <2>1. NumPapers \in Nat /\ "edges" \in Steps
    BY Sizes DEF Steps
  <2>. QED  BY <1>4, <1>15, <1>16, <2>1 DEF LoadPapers
<1>17. CASE LoadCitations
  <2>1. Len(Citations) \in Nat /\ "record" \in Steps
    BY Sizes DEF Steps
  <2>. QED  BY <1>4, <1>15, <1>17, <2>1 DEF LoadCitations
<1>18. CASE BenchmarkLeavesRows
  BY <1>0, <1>10, <1>18 DEF BenchmarkLeavesRows, ProcessOK
<1>19. CASE NoMoreRuns \/ UNCHANGED vars
  BY <1>0, <1>10, <1>19 DEF NoMoreRuns, vars, ProcessOK
<1>. QED  BY <1>1, <1>2, <1>3, <1>5, <1>6, <1>7, <1>8, <1>9, <1>12, <1>13, <1>14, <1>16, <1>17, <1>18, <1>19
           DEF Next, Process

\* The process knows where it is.
LEMMA PlaceStep == TypeOK /\ PlaceInv /\ [Next]_vars => PlaceInv'
<1>. SUFFICES ASSUME TypeOK, PlaceInv, [Next]_vars PROVE PlaceInv'
  OBVIOUS
<1>0. /\ todo \subseteq Targets /\ pos \in Nat /\ NumPapers \in Nat \ {0} /\ Len(Citations) \in Nat \ {0}
      /\ BatchSize \in Nat
  BY Sizes DEF TypeOK
<1>1. CASE Start
  BY <1>1 DEF Start, Begin, PlaceInv
<1>2. CASE Pick
  BY <1>0, <1>2 DEF Pick, PlaceInv
<1>3. CASE Exit \/ Crash
  BY <1>3 DEF Exit, Crash, Ended, PlaceInv
<1>4. CASE Fail /\ cur \in Targets
  BY <1>4 DEF Fail, PlaceInv
<1>5. CASE RecordLoad \/ RecordFailure \/ BeginSave \/ EndSave
  BY <1>5 DEF RecordLoad, RecordFailure, BeginSave, EndSave, PlaceInv
<1>6. CASE Connect
  <2>1. cur \in Targets
    BY <1>6 DEF Connect, PlaceInv
  <2>2. CASE pc' = "schema" /\ pos' = 0 /\ UNCHANGED cur
    BY <2>1, <2>2 DEF PlaceInv
  <2>. QED  BY <1>4, <1>6, <2>1, <2>2 DEF Connect
<1>7. CASE CreateIndex \/ CreateIndexFails
  <2>1. pos \in 0 .. 1 /\ cur \in Targets /\ UNCHANGED <<cur, keep>> /\ Len(Indexed) = 2
    BY <1>7 DEF CreateIndex, CreateIndexFails, PlaceInv, AfterStatement, Indexed
  <2>2. /\ pc' = IF pos + 1 < 2 THEN "schema" ELSE IF keep THEN "nodes" ELSE "reset"
        /\ pos' = IF pos + 1 < 2 THEN pos + 1 ELSE 0
    BY <1>7, <2>1 DEF CreateIndex, CreateIndexFails, AfterStatement
  <2>3. CASE pos + 1 < 2
    <3>1. pos' \in 0 .. 1
      BY <2>1, <2>2, <2>3
    <3>. QED  BY <2>1, <2>2, <2>3, <3>1 DEF PlaceInv
  <2>4. CASE ~(pos + 1 < 2)
    <3>1. pos' = 0 /\ 0 \in 0 .. 2 /\ 0 < NumPapers
      BY <1>0, <2>2, <2>4
    <3>. QED  BY <2>1, <2>2, <2>4, <3>1 DEF PlaceInv
  <2>. QED  BY <2>3, <2>4
<1>8. ASSUME pc' = "nodes", pos' = 0, UNCHANGED cur, cur \in Targets PROVE PlaceInv'
  BY <1>0, <1>8 DEF PlaceInv
<1>9. CASE ResetBolt
  <2>1. cur \in Targets /\ pc = "reset"
    BY <1>9 DEF ResetBolt, PlaceInv
  <2>2. CASE UNCHANGED <<pc, pos, keep, cur>>
    BY <2>1, <2>2 DEF PlaceInv
  <2>. QED  BY <1>4, <1>8, <1>9, <2>1, <2>2 DEF ResetBolt, AfterReset
<1>10. CASE ResetFalkor
  BY <1>8, <1>10 DEF ResetFalkor, PlaceInv
<1>11. CASE ResetArango
  <2>1. cur \in Targets /\ pc = "reset" /\ pos \in 0 .. 2 /\ ~keep
    BY <1>11 DEF ResetArango, PlaceInv
  <2>2. CASE pos < 2 /\ pos' = pos + 1 /\ UNCHANGED <<pc, keep, cur>>
    <3>1. pos' \in 0 .. 2
      BY <2>1, <2>2
    <3>. QED  BY <2>1, <2>2, <3>1 DEF PlaceInv
  <2>. QED  BY <1>4, <1>8, <1>11, <2>1, <2>2 DEF ResetArango, AfterReset
<1>12. CASE LoadPapers
  <2>1. cur \in Targets /\ pc = "nodes"
    BY <1>12 DEF LoadPapers, PlaceInv
  <2>2. CASE AfterBatch(NumPapers, "edges")
    <3>1. pc' = "edges" => pos' = 0
      BY <2>1, <2>2 DEF AfterBatch
    <3>2. pc' = "nodes" => pos' < NumPapers
      BY <2>2 DEF AfterBatch
    <3>3. pc' \in {"nodes", "edges"} /\ UNCHANGED cur /\ 0 < Len(Citations)
      BY <1>0, <2>1, <2>2 DEF AfterBatch
    <3>. QED  BY <2>1, <3>1, <3>2, <3>3 DEF PlaceInv
  <2>. QED  BY <1>4, <1>12, <2>1, <2>2 DEF LoadPapers
<1>13. CASE LoadCitations
  <2>1. cur \in Targets /\ pc = "edges"
    BY <1>13 DEF LoadCitations, PlaceInv
  <2>2. CASE AfterBatch(Len(Citations), "record")
    <3>1. pc' = "edges" => pos' < Len(Citations)
      BY <2>2 DEF AfterBatch
    <3>2. pc' \in {"edges", "record"} /\ UNCHANGED cur
      BY <2>1, <2>2 DEF AfterBatch
    <3>. QED  BY <2>1, <3>1, <3>2 DEF PlaceInv
  <2>. QED  BY <1>4, <1>13, <2>1, <2>2 DEF LoadCitations
<1>14. CASE BenchmarkLeavesRows \/ NoMoreRuns \/ UNCHANGED vars
  <2>1. UNCHANGED <<pc, pos, keep, cur>>
    BY <1>14 DEF BenchmarkLeavesRows, NoMoreRuns, vars
  <2>. QED  BY <2>1 DEF PlaceInv
<1>. QED  BY <1>1, <1>2, <1>3, <1>5, <1>6, <1>7, <1>9, <1>10, <1>11, <1>12, <1>13, <1>14 DEF Next, Process

-----------------------------------------------------------------------------
(* The records. *)

\* While a target is connected to and loaded the process leaves its records alone.
LEMMA DriverSteps ==
  ASSUME Connect \/ CreateIndex \/ CreateIndexFails \/ ResetBolt \/ ResetFalkor \/ ResetArango
           \/ LoadPapers \/ LoadCitations
  PROVE  /\ UNCHANGED <<flavour, torn, saved, run, keep, todo, cur, records>>
         /\ pc \in {"connect", "schema", "reset", "nodes", "edges"}
         /\ pc' \in {"schema", "reset", "nodes", "edges", "record", "failed"}
<1>1. CASE Connect
  BY <1>1 DEF Connect, Fail, file
<1>2. CASE CreateIndex \/ CreateIndexFails
  BY <1>2 DEF CreateIndex, CreateIndexFails, AfterStatement, file
<1>3. CASE ResetBolt \/ ResetFalkor \/ ResetArango
  BY <1>3 DEF ResetBolt, ResetFalkor, ResetArango, AfterReset, Fail, file
<1>4. CASE LoadPapers \/ LoadCitations
  BY <1>4 DEF LoadPapers, LoadCitations, AfterBatch, Fail, file
<1>. QED  BY <1>1, <1>2, <1>3, <1>4

\* Records never go back.
LEMMA RecordStep == TypeOK /\ PlaceInv /\ RecordInv /\ [Next]_vars => RecordInv'
<1>. SUFFICES ASSUME TypeOK, PlaceInv, RecordInv, [Next]_vars PROVE RecordInv'
  OBVIOUS
<1>0. /\ run \in Nat /\ records \in [Targets -> Record] /\ saved \in [Targets -> Record]
      /\ \A t \in Targets : records[t].run \in Nat /\ saved[t].run \in Nat
  BY Sizes DEF TypeOK, Runs, Record
<1>1. NoRecord.run = 0 /\ \A t \in Targets : [u \in Targets |-> NoRecord][t] = NoRecord
  BY DEF NoRecord
<1>2. CASE Start
  <2>1. /\ pc = "idle" /\ run' = run + 1 /\ UNCHANGED <<torn, saved, cur>> /\ cur = Nobody
        /\ \/ pc' = "idle" /\ UNCHANGED records
           \/ pc' = "next" /\ records' = saved /\ ~torn
    BY <1>2 DEF Start, Begin, file, PlaceInv
  <2>2. \A t \in Targets : saved'[t].run <= run' /\ records'[t].run <= run'
    BY <1>0, <2>1 DEF RecordInv
  <2>3. pc' # "idle" => \A t \in Targets : saved'[t].run <= records'[t].run
    BY <1>0, <2>1
  <2>4. EveryTargetRecorded'
    BY <2>1 DEF EveryTargetRecorded
  <2>. QED  BY <2>1, <2>2, <2>3, <2>4 DEF RecordInv
<1>3. CASE Pick
  BY <1>3 DEF Pick, RecordInv, EveryTargetRecorded, file
<1>4. CASE Exit \/ Crash
  <2>1. pc' = "idle" /\ UNCHANGED <<torn, saved, run>> /\ records' = [t \in Targets |-> NoRecord]
    BY <1>4 DEF Exit, Crash, Ended, file
  <2>2. \A t \in Targets : saved'[t].run <= run' /\ records'[t].run <= run'
    BY <1>0, <1>1, <2>1 DEF RecordInv
  <2>. QED  BY <2>1, <2>2 DEF RecordInv, EveryTargetRecorded
<1>5. ASSUME NEW r, r.run = run, r.status = "loaded" \/ r.indexes = {}, pc \in {"record", "failed"},
             records' = [records EXCEPT ![cur] = r], pc' = "save", UNCHANGED <<torn, saved, run, cur>>
      PROVE  RecordInv'
  <2>1. cur \in Targets /\ ~torn
    BY <1>5 DEF PlaceInv, RecordInv
  <2>2. \A t \in Targets : records'[t] = IF t = cur THEN r ELSE records[t]
    BY <1>0, <1>5
  <2>3. \A t \in Targets : saved'[t].run <= run' /\ records'[t].run <= run' /\ saved'[t].run <= records'[t].run
    BY <1>0, <1>5, <2>2 DEF RecordInv
  <2>4. records'[cur'].run = run' /\ (records'[cur'].status = "loaded" \/ records'[cur'].indexes = {})
    BY <1>5, <2>1, <2>2
  <2>. QED  BY <1>5, <2>1, <2>3, <2>4 DEF RecordInv, EveryTargetRecorded
<1>6. CASE RecordLoad
  BY <1>5, <1>6 DEF RecordLoad, file
<1>7. CASE RecordFailure
  BY <1>5, <1>7 DEF RecordFailure, file
<1>8. CASE BeginSave
  <2>1. /\ pc = "save" /\ pc' = "saving" /\ saved' = [t \in Targets |-> NoRecord]
        /\ UNCHANGED <<run, cur, records>>
    BY <1>8 DEF BeginSave
  <2>2. \A t \in Targets : saved'[t].run = 0
    BY <1>1, <2>1
  <2>. QED  BY <1>0, <2>1, <2>2 DEF RecordInv, EveryTargetRecorded
<1>9. CASE EndSave
  <2>1. pc = "saving" /\ pc' = "next" /\ saved' = records /\ torn' = FALSE /\ UNCHANGED <<run, cur, records>>
    BY <1>9 DEF EndSave
  <2>2. EveryTargetRecorded'
    BY <2>1 DEF RecordInv, EveryTargetRecorded
  <2>. QED  BY <1>0, <2>1, <2>2 DEF RecordInv
<1>10. CASE /\ UNCHANGED <<torn, saved, run, cur, records>>
            /\ pc \in {"connect", "schema", "reset", "nodes", "edges"}
            /\ pc' \in {"schema", "reset", "nodes", "edges", "record", "failed"}
  BY <1>10 DEF RecordInv, EveryTargetRecorded
<1>11. CASE BenchmarkLeavesRows \/ NoMoreRuns \/ UNCHANGED vars
  <2>1. UNCHANGED <<torn, saved, run, pc, cur, records>>
    BY <1>11 DEF BenchmarkLeavesRows, NoMoreRuns, vars, file
  <2>. QED  BY <2>1 DEF RecordInv, EveryTargetRecorded
<1>. QED  BY <1>2, <1>3, <1>4, <1>6, <1>7, <1>8, <1>9, <1>10, <1>11, DriverSteps DEF Next, Process

\* A step replaces what is on record of a target only by something newer.
LEMMA SurviveStep ==
  ASSUME TypeOK, RecordInv, [Next]_vars, torn => pc' # "idle", NEW t \in Targets
  PROVE  OnRecord(t)' >= OnRecord(t)
<1>0. records[t].run \in Nat /\ saved[t].run \in Nat
  BY Sizes DEF TypeOK, Runs, Record
<1>1. CASE BeginSave
  <2>1. torn' = TRUE /\ pc = "save" /\ UNCHANGED records
    BY <1>1 DEF BeginSave
  <2>2. ~torn /\ saved[t].run <= records[t].run
    BY <2>1 DEF RecordInv
  <2>. QED  BY <1>0, <2>1, <2>2 DEF OnRecord
<1>2. CASE EndSave
  <2>1. torn' = FALSE /\ saved' = records /\ pc = "saving"
    BY <1>2 DEF EndSave
  <2>2. saved[t].run <= records[t].run
    BY <2>1 DEF RecordInv
  <2>. QED  BY <1>0, <2>1, <2>2 DEF OnRecord
<1>3. CASE UNCHANGED <<torn, saved>> /\ ~torn
  BY <1>0, <1>3 DEF OnRecord
<1>4. CASE UNCHANGED <<torn, saved, records>>
  BY <1>0, <1>4 DEF OnRecord
<1>5. CASE Start
  <2>1. UNCHANGED <<torn, saved>> /\ (torn => pc' = "idle")
    BY <1>5 DEF Start, Begin, file
  <2>. QED  BY <1>3, <2>1
<1>6. CASE Exit \/ Crash
  <2>1. UNCHANGED <<torn, saved>> /\ pc' = "idle"
    BY <1>6 DEF Exit, Crash, Ended, file
  <2>. QED  BY <1>3, <2>1
<1>7. CASE RecordLoad \/ RecordFailure
  <2>1. UNCHANGED <<torn, saved>> /\ pc \in {"record", "failed"}
    BY <1>7 DEF RecordLoad, RecordFailure, file
  <2>. QED  BY <1>3, <2>1 DEF RecordInv
<1>8. CASE Pick \/ BenchmarkLeavesRows \/ NoMoreRuns \/ UNCHANGED vars
  BY <1>4, <1>8 DEF Pick, BenchmarkLeavesRows, NoMoreRuns, vars, file
<1>. QED  BY <1>1, <1>2, <1>4, <1>5, <1>6, <1>7, <1>8, DriverSteps DEF Next, Process

-----------------------------------------------------------------------------
(* Indexes, relationships and papers. *)

\* The steps after which no load is under way or about to be published.
LEMMA OtherSteps ==
  ASSUME Start \/ Pick \/ Exit \/ Crash \/ BeginSave \/ EndSave \/ BenchmarkLeavesRows \/ NoMoreRuns \/ Fail
  PROVE  pc' \notin {"schema", "reset", "nodes", "edges", "record", "save"}
BY DEF Start, Begin, Pick, Exit, Crash, Ended, BeginSave, EndSave, BenchmarkLeavesRows, NoMoreRuns, Fail, vars

\* A failed load is not published as loaded.
LEMMA FailureIsRecorded == TypeOK /\ PlaceInv /\ RecordFailure => pc' = "save" /\ ~JustLoaded'
<1>. SUFFICES ASSUME TypeOK, PlaceInv, RecordFailure PROVE pc' = "save" /\ ~JustLoaded'
  OBVIOUS
<1>1. cur \in Targets /\ records \in [Targets -> Record] /\ UNCHANGED cur /\ pc' = "save"
  BY DEF RecordFailure, PlaceInv, TypeOK
<1>2. records'[cur].status = "failed"
  BY <1>1 DEF RecordFailure
<1>. QED  BY <1>1, <1>2 DEF JustLoaded

\* A load without an exception is published with the indexes that were listed.
LEMMA LoadIsRecorded ==
  TypeOK /\ PlaceInv /\ RecordLoad =>
    /\ pc = "record" /\ pc' = "save" /\ UNCHANGED <<server, flavour, run, keep, cur>> /\ cur \in Targets
    /\ records'[cur].indexes = listed
BY DEF RecordLoad, PlaceInv, TypeOK

\* No index is listed that the target does not have.
LEMMA IndexStep == TypeOK /\ PlaceInv /\ IndexInv /\ [Next]_vars => IndexInv'
<1>. SUFFICES ASSUME TypeOK, PlaceInv, IndexInv, [Next]_vars PROVE IndexInv'
  OBVIOUS
<1>0. indexes \in [Targets -> SUBSET {"id", "year"}]
  BY DEF TypeOK
<1>1. CASE pc' \notin {"schema", "reset", "nodes", "edges", "record", "save"}
  BY <1>1 DEF IndexInv, ListedIndexesExistElsewhere, JustLoaded, Loading
<1>2. CASE Start \/ Pick \/ Exit \/ Crash \/ BeginSave \/ EndSave \/ BenchmarkLeavesRows \/ NoMoreRuns \/ Fail
  BY <1>1, <1>2, OtherSteps
<1>3. CASE RecordFailure
  BY <1>3, FailureIsRecorded DEF IndexInv, ListedIndexesExistElsewhere, Loading
<1>4. CASE RecordLoad
  BY <1>4, LoadIsRecorded
     DEF IndexInv, ListedIndexesExistElsewhere, ListedIndexesExist, JustLoaded, Loading, server
<1>5. CASE Connect
  <2>1. CASE pc' = "schema" /\ listed' = {}
    BY <2>1 DEF IndexInv, ListedIndexesExistElsewhere, JustLoaded, Loading
  <2>. QED  BY <1>2, <1>5, <2>1 DEF Connect
<1>6. ASSUME UNCHANGED <<flavour, keep, cur>>, listed' \subseteq indexes'[cur],
             pc' \in {"schema", "reset", "nodes", "edges", "record"}
      PROVE  IndexInv'
  BY <1>6 DEF IndexInv, ListedIndexesExistElsewhere, JustLoaded, Loading
<1>7. CASE CreateIndex \/ CreateIndexFails
  <2>1. /\ UNCHANGED <<flavour, keep, cur>> /\ pc = "schema" /\ pc' \in {"schema", "reset", "nodes"}
    BY <1>7 DEF CreateIndex, CreateIndexFails, AfterStatement
  <2>2. cur \in Targets /\ listed \subseteq indexes[cur]
    BY <2>1 DEF PlaceInv, IndexInv
  <2>3. \/ /\ indexes' = [indexes EXCEPT ![cur] = @ \cup {Indexed[pos + 1]}]
           /\ listed' = listed \cup {Indexed[pos + 1]} \/ listed' = listed
        \/ indexes' = indexes /\ listed' = listed
    BY <1>7 DEF CreateIndex, CreateIndexFails
  <2>4. listed' \subseteq indexes'[cur]
    BY <1>0, <2>2, <2>3
  <2>. QED  BY <1>6, <2>1, <2>4
<1>8. ASSUME UNCHANGED <<flavour, keep, cur, listed, indexes>>, pc \in {"reset", "nodes", "edges"},
             pc' \in {"reset", "nodes", "edges", "record"}, pc' = "reset" => pc = "reset"
      PROVE  IndexInv'
  BY <1>8 DEF IndexInv, ListedIndexesExistElsewhere, JustLoaded, Loading
<1>9. CASE ResetBolt
  <2>1. CASE ~Fail
    <3>1. /\ UNCHANGED <<flavour, keep, cur, listed, indexes>> /\ pc = "reset" /\ pc' \in {"reset", "nodes"}
      BY <1>9, <2>1 DEF ResetBolt, DeleteSome, AfterReset
    <3>. QED  BY <1>8, <3>1
  <2>. QED  BY <1>2, <2>1
<1>10. CASE ResetFalkor
  <2>1. flavour'[cur'] = "falkordb" /\ ~keep' /\ pc' = "nodes"
    BY <1>10 DEF ResetFalkor, PlaceInv
  <2>. QED  BY <2>1 DEF IndexInv, ListedIndexesExistElsewhere, JustLoaded, Loading
<1>11. CASE ResetArango
  <2>1. CASE ~Fail
    <3>1. /\ UNCHANGED <<flavour, keep, cur, listed, indexes>> /\ pc = "reset" /\ pc' \in {"reset", "nodes"}
      BY <1>11, <2>1 DEF ResetArango, AfterReset
    <3>. QED  BY <1>8, <3>1
  <2>. QED  BY <1>2, <2>1
<1>12. CASE LoadPapers \/ LoadCitations
  <2>1. CASE ~Fail
    <3>1. /\ UNCHANGED <<flavour, keep, cur, listed, indexes>> /\ pc \in {"nodes", "edges"}
          /\ pc' \in {"nodes", "edges", "record"}
      BY <1>12, <2>1 DEF LoadPapers, LoadCitations, InsertPapers, InsertCitations, AfterBatch
    <3>. QED  BY <1>8, <3>1
  <2>. QED  BY <1>2, <2>1
<1>13. CASE UNCHANGED vars
  BY <1>13 DEF vars, server, IndexInv, ListedIndexesExistElsewhere, ListedIndexesExist, JustLoaded
<1>. QED  BY <1>2, <1>3, <1>4, <1>5, <1>7, <1>9, <1>10, <1>11, <1>12, <1>13 DEF Next, Process

\* What is joined is of this row and joins stored papers; on a complete load it is there.
LEMMA JoinedEnds ==
  ASSUME TypeOK, cur \in Targets, NEW row \in Rows
  PROVE  /\ flavour[cur] # "arangodb" =>
              \A e \in Joined(row) : /\ <<Citations[e.row][1], e.src>> \in nodes[cur]
                                     /\ <<Citations[e.row][2], e.dst>> \in nodes[cur]
         /\ (\A p \in Papers : <<p, run>> \in nodes[cur]) => Edge(flavour[cur], run, row) \in Joined(row)
         /\ (\A n \in nodes[cur] : n[2] = run) =>
              \A e \in Joined(row) : e = Edge(flavour[cur], run, row)
<1>0. Citations[row][1] \in Papers /\ Citations[row][2] \in Papers /\ nodes[cur] \subseteq StoredNode
  BY Sizes DEF TypeOK
<1>1. CASE flavour[cur] = "arangodb"
  BY <1>1 DEF Joined, Edge
<1>2. CASE flavour[cur] # "arangodb"
  <2>1. \A e : e \in Joined(row) <=>
          \E a \in {n \in nodes[cur] : n[1] = Citations[row][1]},
             b \in {n \in nodes[cur] : n[1] = Citations[row][2]} :
            e = [row |-> row, run |-> run, src |-> a[2], dst |-> b[2]]
    BY <1>2 DEF Joined
  <2>2. ASSUME NEW e \in Joined(row)
        PROVE  /\ <<Citations[e.row][1], e.src>> \in nodes[cur]
               /\ <<Citations[e.row][2], e.dst>> \in nodes[cur]
    <3>1. PICK a \in nodes[cur], b \in nodes[cur] :
            /\ a[1] = Citations[row][1] /\ b[1] = Citations[row][2]
            /\ e = [row |-> row, run |-> run, src |-> a[2], dst |-> b[2]]
      BY <2>1
    <3>2. a = <<a[1], a[2]>> /\ b = <<b[1], b[2]>>
      BY <1>0, <3>1 DEF StoredNode
    <3>3. e.row = row /\ e.src = a[2] /\ e.dst = b[2]
      BY <3>1
    <3>. QED  BY <3>1, <3>2, <3>3
  <2>3. ASSUME \A p \in Papers : <<p, run>> \in nodes[cur]
        PROVE  Edge(flavour[cur], run, row) \in Joined(row)
    <3>. DEFINE a == <<Citations[row][1], run>>
                b == <<Citations[row][2], run>>
    <3>1. a \in nodes[cur] /\ b \in nodes[cur]
      BY <1>0, <2>3
    <3>2. Edge(flavour[cur], run, row) = [row |-> row, run |-> run, src |-> a[2], dst |-> b[2]]
      BY <1>2 DEF Edge
    <3>3. a[1] = Citations[row][1] /\ b[1] = Citations[row][2]
      OBVIOUS
    <3>. HIDE DEF a, b
    <3>. QED  BY <2>1, <3>1, <3>2, <3>3
  <2>4. ASSUME \A n \in nodes[cur] : n[2] = run, NEW e \in Joined(row)
        PROVE  e = Edge(flavour[cur], run, row)
    <3>1. PICK a \in nodes[cur], b \in nodes[cur] : e = [row |-> row, run |-> run, src |-> a[2], dst |-> b[2]]
      BY <2>1, <2>4
    <3>2. a[2] = run /\ b[2] = run
      BY <2>4
    <3>. QED  BY <1>2, <3>1, <3>2 DEF Edge
  <2>. QED  BY <1>2, <2>2, <2>3, <2>4
<1>. QED  BY <1>1, <1>2

\* What a batch of citations adds.
LEMMA Inserted ==
  ASSUME TypeOK, PlaceInv, pc = "edges", InsertCitations
  PROVE  /\ \A t \in Targets : t # cur => edges'[t] = edges[t]
         /\ \A e : e \in edges'[cur] <=> e \in edges[cur] \/ \E row \in Batch(Len(Citations)) : e \in Joined(row)
         /\ UNCHANGED <<nodes, indexes, bench>> /\ Batch(Len(Citations)) \subseteq Rows
<1>1. cur \in Targets /\ edges \in [Targets -> SUBSET StoredEdge] /\ pos \in Nat /\ pos < Len(Citations)
  BY DEF PlaceInv, TypeOK
<1>2. Batch(Len(Citations)) \subseteq Rows
  BY <1>1, BatchFacts, Sizes DEF Rows
<1>. DEFINE new == UNION {Joined(row) : row \in Batch(Len(Citations))}
<1>3. edges' = [edges EXCEPT ![cur] = @ \cup new] /\ UNCHANGED <<nodes, indexes, bench>>
  BY DEF InsertCitations
<1>4. \A e : e \in new <=> \E row \in Batch(Len(Citations)) : e \in Joined(row)
  OBVIOUS
<1>. HIDE DEF new
<1>. QED  BY <1>1, <1>2, <1>3, <1>4

\* What a batch of papers adds.
LEMMA Papered ==
  ASSUME TypeOK, PlaceInv, pc = "nodes", InsertPapers
  PROVE  /\ \A t \in Targets : t # cur => nodes'[t] = nodes[t]
         /\ \A n : n \in nodes'[cur] <=> n \in nodes[cur] \/ \E p \in Batch(NumPapers) : n = <<p, run>>
         /\ UNCHANGED <<edges, indexes, bench>>
<1>1. cur \in Targets /\ nodes \in [Targets -> SUBSET StoredNode]
  BY DEF PlaceInv, TypeOK
<1>. DEFINE new == {<<p, run>> : p \in Batch(NumPapers)}
<1>2. nodes' = [nodes EXCEPT ![cur] = @ \cup new] /\ UNCHANGED <<edges, indexes, bench>>
  BY DEF InsertPapers
<1>3. \A n : n \in new <=> \E p \in Batch(NumPapers) : n = <<p, run>>
  OBVIOUS
<1>. HIDE DEF new
<1>. QED  BY <1>1, <1>2, <1>3

\* No relationship is left without its ends.
LEMMA JoinStep == TypeOK /\ PlaceInv /\ JoinInv /\ [Next]_vars => JoinInv'
<1>. SUFFICES ASSUME TypeOK, PlaceInv, JoinInv, [Next]_vars PROVE JoinInv'
  OBVIOUS
<1>0. /\ nodes \in [Targets -> SUBSET StoredNode] /\ edges \in [Targets -> SUBSET StoredEdge]
      /\ UNCHANGED flavour
  <2>1. UNCHANGED flavour
    BY DriverSteps DEF Next, Process, Start, Begin, Pick, Exit, Crash, Ended, RecordLoad, RecordFailure, BeginSave,
                       EndSave, BenchmarkLeavesRows, NoMoreRuns, vars
  <2>. QED  BY <2>1 DEF TypeOK
<1>1. CASE UNCHANGED <<nodes, edges>>
  BY <1>0, <1>1 DEF JoinInv
<1>2. CASE \/ Start \/ Pick \/ Exit \/ Crash \/ RecordLoad \/ RecordFailure \/ BeginSave \/ EndSave
           \/ Connect \/ CreateIndex \/ CreateIndexFails \/ BenchmarkLeavesRows \/ NoMoreRuns \/ UNCHANGED vars
  BY <1>1, <1>2 DEF Start, Begin, Pick, Exit, Crash, Ended, RecordLoad, RecordFailure, BeginSave, EndSave,
                    Connect, CreateIndex, CreateIndexFails, AfterStatement, BenchmarkLeavesRows, NoMoreRuns,
                    vars, server
<1>3. ASSUME NEW ns, NEW b, Delete(ns, b), cur \in Targets PROVE JoinInv'
  <2>. DEFINE left == {e \in edges[cur] : /\ <<Citations[e.row][1], e.src>> \notin ns
                                          /\ <<Citations[e.row][2], e.dst>> \notin ns}
  <2>1. nodes' = [nodes EXCEPT ![cur] = @ \ ns] /\ edges' = [edges EXCEPT ![cur] = left]
    BY <1>3 DEF Delete
  <2>2. \A t \in Targets : /\ nodes'[t] = IF t = cur THEN nodes[cur] \ ns ELSE nodes[t]
                           /\ edges'[t] = IF t = cur THEN left ELSE edges[t]
    BY <1>0, <2>1
  <2>3. ASSUME NEW t \in Targets, flavour[t] # "arangodb", NEW e \in edges'[t]
        PROVE  /\ <<Citations[e.row][1], e.src>> \in nodes'[t]
               /\ <<Citations[e.row][2], e.dst>> \in nodes'[t]
    <3>1. CASE t = cur
      <4>1. e \in left
        BY <2>2, <2>3, <3>1
      <4>2. /\ <<Citations[e.row][1], e.src>> \in nodes[t] /\ <<Citations[e.row][2], e.dst>> \in nodes[t]
        BY <2>3, <3>1, <4>1 DEF JoinInv
      <4>. QED  BY <2>2, <3>1, <4>1, <4>2
    <3>2. CASE t # cur
      BY <2>2, <2>3, <3>2 DEF JoinInv
    <3>. QED  BY <3>1, <3>2
  <2>. QED  BY <1>0, <2>3 DEF JoinInv
<1>4. CASE ResetBolt
  <2>1. cur \in Targets
    BY <1>4 DEF ResetBolt, PlaceInv
  <2>2. (\E ns, b : Delete(ns, b)) \/ UNCHANGED <<nodes, edges>>
    BY <1>4 DEF ResetBolt, DeleteSome, server
  <2>. QED  BY <1>1, <1>3, <2>1, <2>2
<1>5. CASE ResetFalkor
  <2>1. cur \in Targets
    BY <1>5 DEF ResetFalkor, PlaceInv
  <2>2. CASE nodes' = [nodes EXCEPT ![cur] = {}] /\ edges' = [edges EXCEPT ![cur] = {}]
    <3>1. \A t \in Targets : t # cur => nodes'[t] = nodes[t] /\ edges'[t] = edges[t]
      BY <1>0, <2>2
    <3>2. edges'[cur] = {}
      BY <1>0, <2>1, <2>2
    <3>. QED  BY <1>0, <3>1, <3>2 DEF JoinInv
  <2>. QED  BY <1>1, <1>5, <2>2 DEF ResetFalkor, server
<1>6. CASE ResetArango
  <2>1. cur \in Targets /\ flavour[cur] = "arangodb"
    BY <1>6 DEF ResetArango, PlaceInv
  <2>2. CASE TruncateNext
    <3>1. \A t \in Targets : t # cur => nodes'[t] = nodes[t] /\ edges'[t] = edges[t]
      BY <1>0, <2>2 DEF TruncateNext
    <3>. QED  BY <1>0, <2>1, <3>1 DEF JoinInv
  <2>. QED  BY <1>1, <1>6, <2>2 DEF ResetArango
<1>7. CASE LoadPapers
  <2>1. CASE InsertPapers
    <3>1. \A t \in Targets : nodes[t] \subseteq nodes'[t] /\ edges'[t] = edges[t]
      BY <1>7, <2>1, Papered DEF LoadPapers
    <3>. QED  BY <1>0, <3>1 DEF JoinInv
  <2>. QED  BY <1>1, <1>7, <2>1 DEF LoadPapers, server
<1>8. CASE LoadCitations
  <2>1. CASE InsertCitations
    <3>1. pc = "edges" /\ cur \in Targets
      BY <1>8 DEF LoadCitations, PlaceInv
    <3>2. ASSUME NEW t \in Targets, flavour[t] # "arangodb", NEW e \in edges'[t]
          PROVE  /\ <<Citations[e.row][1], e.src>> \in nodes[t]
                 /\ <<Citations[e.row][2], e.dst>> \in nodes[t]
      <4>1. CASE e \in edges[t]
        BY <3>2, <4>1 DEF JoinInv
      <4>2. CASE t = cur /\ \E row \in Batch(Len(Citations)) : e \in Joined(row)
        BY <2>1, <3>1, <3>2, <4>2, Inserted, JoinedEnds
      <4>. QED  BY <2>1, <3>1, <3>2, <4>1, <4>2, Inserted
    <3>3. UNCHANGED nodes
      BY <2>1 DEF InsertCitations
    <3>. QED  BY <1>0, <3>2, <3>3 DEF JoinInv
  <2>. QED  BY <1>1, <1>8, <2>1 DEF LoadCitations, server
<1>. QED  BY <1>2, <1>4, <1>5, <1>6, <1>7, <1>8 DEF Next, Process

-----------------------------------------------------------------------------
(* Complete and exact loads. *)

\* How a batch moves the load on.
LEMMA PapersMove ==
  ASSUME TypeOK, PlaceInv, pc = "nodes", AfterBatch(NumPapers, "edges")
  PROVE  /\ \A p : p \in PapersDone(pc', pos') <=> p \in PapersDone(pc, pos) \/ p \in Batch(NumPapers)
         /\ \A row : row \notin RowsDone(pc', pos') /\ row \notin RowsDone(pc, pos)
         /\ pc' \in {"nodes", "edges"} /\ UNCHANGED <<flavour, run, keep, cur>>
<1>1. pos \in Nat /\ pos < NumPapers /\ NumPapers \in Nat /\ Papers = 1 .. NumPapers
  BY Sizes DEF PlaceInv, TypeOK, Papers
<1>2. /\ pc' = IF pos + BatchSize < NumPapers THEN "nodes" ELSE "edges"
      /\ pos' = IF pos + BatchSize < NumPapers THEN pos + BatchSize ELSE 0
      /\ UNCHANGED <<flavour, run, keep, cur>>
  BY DEF AfterBatch
<1>3. CASE pos + BatchSize < NumPapers
  <2>1. \A i : i \in 1 .. pos + BatchSize <=> i \in 1 .. pos \/ i \in Batch(NumPapers)
    BY <1>1, <1>3, BatchFacts
  <2>. QED  BY <1>2, <1>3, <2>1 DEF PapersDone, RowsDone
<1>4. CASE ~(pos + BatchSize < NumPapers)
  <2>1. \A i : i \in 1 .. NumPapers <=> i \in 1 .. pos \/ i \in Batch(NumPapers)
    BY <1>1, <1>4, BatchFacts
  <2>2. \A i : i \notin 1 .. 0
    OBVIOUS
  <2>. QED  BY <1>1, <1>2, <1>4, <2>1, <2>2 DEF PapersDone, RowsDone
<1>. QED  BY <1>3, <1>4

LEMMA CitationsMove ==
  ASSUME TypeOK, PlaceInv, pc = "edges", AfterBatch(Len(Citations), "record")
  PROVE  /\ \A row : row \in RowsDone(pc', pos') <=> row \in RowsDone(pc, pos) \/ row \in Batch(Len(Citations))
         /\ PapersDone(pc, pos) = Papers /\ PapersDone(pc', pos') = Papers
         /\ pc' \in {"edges", "record"} /\ UNCHANGED <<flavour, run, keep, cur>>
<1>1. pos \in Nat /\ pos < Len(Citations) /\ Len(Citations) \in Nat /\ Rows = 1 .. Len(Citations)
  BY Sizes DEF PlaceInv, TypeOK, Rows
<1>2. /\ pc' = IF pos + BatchSize < Len(Citations) THEN "edges" ELSE "record"
      /\ pos' = IF pos + BatchSize < Len(Citations) THEN pos + BatchSize ELSE 0
      /\ UNCHANGED <<flavour, run, keep, cur>>
  BY DEF AfterBatch
<1>3. CASE pos + BatchSize < Len(Citations)
  <2>1. \A i : i \in 1 .. pos + BatchSize <=> i \in 1 .. pos \/ i \in Batch(Len(Citations))
    BY <1>1, <1>3, BatchFacts
  <2>. QED  BY <1>2, <1>3, <2>1 DEF PapersDone, RowsDone
<1>4. CASE ~(pos + BatchSize < Len(Citations))
  <2>1. \A i : i \in 1 .. Len(Citations) <=> i \in 1 .. pos \/ i \in Batch(Len(Citations))
    BY <1>1, <1>4, BatchFacts
  <2>. QED  BY <1>1, <1>2, <1>4, <2>1 DEF PapersDone, RowsDone
<1>. QED  BY <1>3, <1>4

\* Before the first batch nothing is done.
LEMMA NothingDone == \A x : x \notin PapersDone("nodes", 0) /\ x \notin RowsDone("nodes", 0)
BY DEF PapersDone, RowsDone

\* What was inserted stays.
LEMMA CompleteStep == TypeOK /\ PlaceInv /\ CompleteInv /\ [Next]_vars => CompleteInv'
<1>. SUFFICES ASSUME TypeOK, PlaceInv, CompleteInv, [Next]_vars PROVE CompleteInv'
  OBVIOUS
<1>1. CASE pc' \notin {"nodes", "edges", "record", "save"}
  BY <1>1 DEF CompleteInv, LoadedIsComplete, JustLoaded, Loading
<1>2. CASE Start \/ Pick \/ Exit \/ Crash \/ BeginSave \/ EndSave \/ BenchmarkLeavesRows \/ NoMoreRuns \/ Fail
  BY <1>1, <1>2, OtherSteps
<1>3. CASE RecordFailure
  BY <1>3, FailureIsRecorded DEF CompleteInv, LoadedIsComplete, Loading
<1>4. CASE RecordLoad
  <2>1. /\ pc = "record" /\ pc' = "save" /\ UNCHANGED <<nodes, edges, flavour, run, cur>>
    BY <1>4, LoadIsRecorded DEF server
  <2>2. \A p \in Papers : <<p, run>> \in nodes[cur]
    BY <2>1 DEF CompleteInv, Loading, PapersDone
  <2>3. \A row \in Rows : Edge(flavour[cur], run, row) \in edges[cur]
    BY <2>1 DEF CompleteInv, Loading, RowsDone
  <2>4. \A row \in Rows : \E e \in edges[cur] : e.row = row /\ e.run = run
    <3>1. \A row \in Rows : Edge(flavour[cur], run, row).row = row /\ Edge(flavour[cur], run, row).run = run
      BY DEF Edge
    <3>. QED  BY <2>3, <3>1
  <2>. QED  BY <2>1, <2>2, <2>4 DEF CompleteInv, LoadedIsComplete, Loading
<1>5. CASE pc' = "nodes" /\ pos' = 0
  BY <1>5, NothingDone DEF CompleteInv, LoadedIsComplete, JustLoaded
<1>6. CASE Connect
  BY <1>1, <1>2, <1>6 DEF Connect
<1>7. CASE CreateIndex \/ CreateIndexFails
  <2>1. pc' \in {"schema", "reset"} \/ (pc' = "nodes" /\ pos' = 0)
    BY <1>7 DEF CreateIndex, CreateIndexFails, AfterStatement
  <2>. QED  BY <1>1, <1>5, <2>1
<1>8. CASE ResetBolt \/ ResetFalkor \/ ResetArango
  <2>1. Fail \/ pc' = "reset" \/ (pc' = "nodes" /\ pos' = 0)
    BY <1>8 DEF ResetBolt, ResetFalkor, ResetArango, AfterReset
  <2>. QED  BY <1>1, <1>2, <1>5, <2>1
<1>9. CASE LoadPapers
  <2>1. CASE InsertPapers /\ AfterBatch(NumPapers, "edges")
    <3>1. pc = "nodes" /\ pc' \in {"nodes", "edges"} /\ UNCHANGED <<flavour, run, cur>>
      BY <1>9, <2>1, PapersMove DEF LoadPapers
    <3>2. ASSUME NEW p \in PapersDone(pc', pos') PROVE <<p, run>> \in nodes'[cur]
      <4>1. p \in PapersDone(pc, pos) \/ p \in Batch(NumPapers)
        BY <2>1, <3>1, <3>2, PapersMove
      <4>. QED  BY <2>1, <3>1, <4>1, Papered DEF CompleteInv, Loading
    <3>3. \A row : row \notin RowsDone(pc', pos')
      BY <2>1, <3>1, PapersMove
    <3>. QED  BY <3>1, <3>2, <3>3 DEF CompleteInv, LoadedIsComplete, JustLoaded
  <2>. QED  BY <1>2, <1>9, <2>1 DEF LoadPapers
<1>10. CASE LoadCitations
  <2>1. CASE InsertCitations /\ AfterBatch(Len(Citations), "record")
    <3>1. /\ pc = "edges" /\ pc' \in {"edges", "record"} /\ UNCHANGED <<flavour, run, cur>> /\ cur \in Targets
          /\ PapersDone(pc, pos) = Papers /\ PapersDone(pc', pos') = Papers
      BY <1>10, <2>1, CitationsMove DEF LoadCitations, PlaceInv
    <3>2. \A p \in Papers : <<p, run>> \in nodes[cur]
      BY <3>1 DEF CompleteInv, Loading
    <3>3. ASSUME NEW row \in RowsDone(pc', pos') PROVE Edge(flavour[cur], run, row) \in edges'[cur]
      <4>1. row \in RowsDone(pc, pos) \/ row \in Batch(Len(Citations))
        BY <2>1, <3>1, <3>3, CitationsMove
      <4>2. CASE row \in RowsDone(pc, pos)
        <5>1. Edge(flavour[cur], run, row) \in edges[cur]
          BY <3>1, <4>2 DEF CompleteInv, Loading
        <5>. QED  BY <2>1, <3>1, <5>1, Inserted
      <4>3. CASE row \in Batch(Len(Citations))
        <5>1. row \in Rows
          BY <2>1, <3>1, <4>3, Inserted
        <5>2. Edge(flavour[cur], run, row) \in Joined(row)
          BY <3>1, <3>2, <5>1, JoinedEnds
        <5>. QED  BY <2>1, <3>1, <4>3, <5>2, Inserted
      <4>. QED  BY <4>1, <4>2, <4>3
    <3>4. UNCHANGED nodes
      BY <2>1 DEF InsertCitations
    <3>. QED  BY <3>1, <3>2, <3>3, <3>4 DEF CompleteInv, LoadedIsComplete, JustLoaded
  <2>. QED  BY <1>2, <1>10, <2>1 DEF LoadCitations
<1>11. CASE UNCHANGED vars
  <2>1. UNCHANGED <<flavour, nodes, edges, run, pc, cur, pos, records>>
    BY <1>11 DEF vars, server
  <2>. QED  BY <2>1 DEF CompleteInv, LoadedIsComplete, JustLoaded
<1>. QED  BY <1>2, <1>3, <1>4, <1>6, <1>7, <1>8, <1>9, <1>10, <1>11 DEF Next, Process

\* A reset leaves nothing and a load adds nothing else.
LEMMA ExactStep ==
  TypeOK /\ PlaceInv /\ JoinInv /\ CompleteInv /\ ExactInv /\ [Next]_vars => ExactInv'
<1>. SUFFICES ASSUME TypeOK, PlaceInv, JoinInv, CompleteInv, ExactInv, [Next]_vars PROVE ExactInv'
  OBVIOUS
<1>0. /\ nodes \in [Targets -> SUBSET StoredNode] /\ edges \in [Targets -> SUBSET StoredEdge]
      /\ bench \in [Targets -> BOOLEAN]
  BY DEF TypeOK
<1>1. CASE pc' \notin {"reset", "nodes", "edges", "record", "save"}
  BY <1>1 DEF ExactInv, LoadedIsExactElsewhere, JustLoaded, Loading
<1>2. CASE Start \/ Pick \/ Exit \/ Crash \/ BeginSave \/ EndSave \/ BenchmarkLeavesRows \/ NoMoreRuns \/ Fail
  BY <1>1, <1>2, OtherSteps
<1>3. CASE RecordFailure
  BY <1>3, FailureIsRecorded DEF ExactInv, LoadedIsExactElsewhere, Loading
<1>4. CASE RecordLoad
  <2>1. /\ pc = "record" /\ pc' = "save" /\ UNCHANGED <<nodes, edges, bench, flavour, run, keep, cur>>
        /\ cur \in Targets
    BY <1>4, LoadIsRecorded DEF server
  <2>2. ASSUME ~keep, flavour[cur] # "falkordb" PROVE LoadedIsExact'
    <3>1. /\ \A n \in nodes[cur] : n[1] \in Papers /\ n[2] = run
          /\ \A e \in edges[cur] : \E row \in Rows : e = Edge(flavour[cur], run, row)
          /\ ~bench[cur]
      BY <2>1, <2>2 DEF ExactInv, Loading, PapersDone, RowsDone
    <3>2. /\ \A p \in Papers : <<p, run>> \in nodes[cur]
          /\ \A row \in Rows : Edge(flavour[cur], run, row) \in edges[cur]
      BY <2>1 DEF CompleteInv, Loading, PapersDone, RowsDone
    <3>3. nodes[cur] = Papers \X {run}
      <4>1. \A n \in nodes[cur] : n = <<n[1], n[2]>>
        BY <1>0, <2>1 DEF StoredNode
      <4>. QED  BY <3>1, <3>2, <4>1
    <3>4. \A row : Edge(flavour[cur], run, row).row = row /\ Edge(flavour[cur], run, row).run = run
      BY DEF Edge
    <3>5. \A e \in edges[cur] : e.run = run
      BY <3>1, <3>4
    <3>6. ASSUME NEW row \in Rows PROVE Cardinality({e \in edges[cur] : e.row = row}) = 1
      <4>1. {e \in edges[cur] : e.row = row} = {Edge(flavour[cur], run, row)}
        BY <3>1, <3>2, <3>4
      <4>. QED  BY <4>1, FS_Singleton
    <3>. QED  BY <2>1, <3>1, <3>3, <3>5, <3>6 DEF LoadedIsExact
  <2>3. keep => LoadedIsExact'
    BY <2>1 DEF LoadedIsExact
  <2>. QED  BY <2>1, <2>2, <2>3 DEF ExactInv, LoadedIsExactElsewhere, Loading
<1>5. ASSUME pc' = "nodes", pos' = 0,
             ~keep' /\ flavour'[cur'] # "falkordb" => nodes'[cur'] = {} /\ edges'[cur'] = {} /\ ~bench'[cur']
      PROVE  ExactInv'
  BY <1>5 DEF ExactInv, LoadedIsExactElsewhere, JustLoaded
<1>6. CASE Connect
  BY <1>1, <1>2, <1>6 DEF Connect
<1>7. CASE CreateIndex \/ CreateIndexFails
  <2>1. \/ pc' = "schema"
        \/ pc' = "reset" /\ pos' = 0
        \/ pc' = "nodes" /\ pos' = 0 /\ keep'
    BY <1>7 DEF CreateIndex, CreateIndexFails, AfterStatement
  <2>2. CASE pc' = "reset" /\ pos' = 0
    BY <2>2 DEF ExactInv, LoadedIsExactElsewhere, JustLoaded, Loading
  <2>. QED  BY <1>1, <1>5, <2>1, <2>2
<1>8. CASE ResetBolt
  <2>1. cur \in Targets /\ flavour[cur] = "bolt" /\ UNCHANGED <<flavour, cur>>
    BY <1>8, DriverSteps DEF ResetBolt, PlaceInv
  <2>2. CASE pc' = "reset"
    BY <2>1, <2>2 DEF ExactInv, LoadedIsExactElsewhere, JustLoaded, Loading
  <2>3. CASE Empty(cur) /\ AfterReset /\ UNCHANGED <<nodes, edges, bench>>
    <3>1. nodes[cur] = {} /\ ~bench[cur]
      BY <2>3 DEF Empty
    <3>2. edges[cur] = {}
      BY <2>1, <3>1 DEF JoinInv
    <3>. QED  BY <1>5, <2>1, <2>3, <3>1, <3>2 DEF AfterReset
  <2>4. pc = "reset"
    BY <1>8 DEF ResetBolt
  <2>. QED  BY <1>2, <1>8, <2>2, <2>3, <2>4 DEF ResetBolt
<1>9. CASE ResetFalkor
  BY <1>5, <1>9 DEF ResetFalkor
<1>10. CASE ResetArango
  <2>1. /\ cur \in Targets /\ flavour[cur] = "arangodb" /\ UNCHANGED <<flavour, keep, cur>> /\ pos \in 0 .. 2
        /\ pc = "reset"
    BY <1>10, DriverSteps DEF ResetArango, PlaceInv
  <2>2. /\ pos >= 1 => edges[cur] = {}
        /\ pos >= 2 => nodes[cur] = {}
    BY <2>1 DEF ExactInv
  <2>3. CASE pos = 2 /\ TruncateNext /\ AfterReset
    <3>1. nodes' = nodes /\ edges' = edges /\ bench'[cur] = FALSE
      BY <1>0, <2>1, <2>3 DEF TruncateNext
    <3>2. nodes[cur] = {} /\ edges[cur] = {}
      BY <2>2, <2>3
    <3>. QED  BY <1>5, <2>1, <2>3, <3>1, <3>2 DEF AfterReset
  <2>4. CASE pos = 0 /\ TruncateNext /\ pos' = 1 /\ pc' = "reset"
    <3>1. edges'[cur] = {}
      BY <1>0, <2>1, <2>4 DEF TruncateNext
    <3>. QED  BY <2>1, <2>4, <3>1 DEF ExactInv, LoadedIsExactElsewhere, JustLoaded, Loading
  <2>5. CASE pos = 1 /\ TruncateNext /\ pos' = 2 /\ pc' = "reset"
    <3>1. nodes'[cur] = {} /\ edges' = edges
      BY <1>0, <2>1, <2>5 DEF TruncateNext
    <3>2. edges[cur] = {}
      BY <2>2, <2>5
    <3>. QED  BY <2>1, <2>5, <3>1, <3>2 DEF ExactInv, LoadedIsExactElsewhere, JustLoaded, Loading
  <2>6. pos = 0 \/ pos = 1 \/ pos = 2
    BY <2>1
  <2>7. (pos < 2 /\ TruncateNext /\ pos' = pos + 1 /\ UNCHANGED pc)
           => (pos = 0 /\ pos' = 1) \/ (pos = 1 /\ pos' = 2)
    BY <2>6
  <2>. QED  BY <1>2, <1>10, <2>1, <2>3, <2>4, <2>5, <2>7 DEF ResetArango
<1>11. CASE LoadPapers
  <2>1. CASE InsertPapers /\ AfterBatch(NumPapers, "edges")
    <3>1. pc = "nodes" /\ pc' \in {"nodes", "edges"} /\ UNCHANGED <<flavour, run, keep, cur, edges, bench>>
      BY <1>11, <2>1, PapersMove, Papered DEF LoadPapers
    <3>2. ASSUME ~keep, flavour[cur] # "falkordb", NEW n \in nodes'[cur]
          PROVE  n[1] \in PapersDone(pc', pos') /\ n[2] = run
      <4>1. CASE n \in nodes[cur]
        <5>1. n[1] \in PapersDone(pc, pos) /\ n[2] = run
          BY <3>1, <3>2, <4>1 DEF ExactInv, Loading
        <5>. QED  BY <2>1, <3>1, <5>1, PapersMove
      <4>2. CASE \E p \in Batch(NumPapers) : n = <<p, run>>
        <5>1. n[1] \in Batch(NumPapers) /\ n[2] = run
          BY <4>2
        <5>. QED  BY <2>1, <3>1, <5>1, PapersMove
      <4>. QED  BY <2>1, <3>1, <3>2, <4>1, <4>2, Papered
    <3>3. ~keep /\ flavour[cur] # "falkordb" => edges[cur] = {} /\ ~bench[cur]
      <4>1. \A row : row \notin RowsDone(pc, pos)
        BY <2>1, <3>1, PapersMove
      <4>. QED  BY <3>1, <4>1 DEF ExactInv, Loading
    <3>. QED  BY <3>1, <3>2, <3>3 DEF ExactInv, LoadedIsExactElsewhere, JustLoaded
  <2>. QED  BY <1>2, <1>11, <2>1 DEF LoadPapers
<1>12. CASE LoadCitations
  <2>1. CASE InsertCitations /\ AfterBatch(Len(Citations), "record")
    <3>1. /\ pc = "edges" /\ pc' \in {"edges", "record"} /\ UNCHANGED <<flavour, run, keep, cur, nodes, bench>>
          /\ PapersDone(pc, pos) = Papers /\ PapersDone(pc', pos') = Papers /\ cur \in Targets
      BY <1>12, <2>1, CitationsMove DEF LoadCitations, PlaceInv, InsertCitations
    <3>2. ASSUME ~keep, flavour[cur] # "falkordb"
          PROVE  \A n \in nodes[cur] : n[1] \in Papers /\ n[2] = run
      BY <3>1, <3>2 DEF ExactInv, Loading
    <3>3. ~keep /\ flavour[cur] # "falkordb" => ~bench[cur]
      BY <3>1 DEF ExactInv, Loading
    <3>4. ASSUME ~keep, flavour[cur] # "falkordb", NEW e \in edges'[cur]
          PROVE  \E row \in RowsDone(pc', pos') : e = Edge(flavour[cur], run, row)
      <4>1. CASE e \in edges[cur]
        <5>1. PICK row \in RowsDone(pc, pos) : e = Edge(flavour[cur], run, row)
          BY <3>1, <3>4, <4>1 DEF ExactInv, Loading
        <5>2. row \in RowsDone(pc', pos')
          BY <2>1, <3>1, <5>1, CitationsMove
        <5>. QED  BY <5>1, <5>2
      <4>2. CASE \E row \in Batch(Len(Citations)) : e \in Joined(row)
        <5>1. PICK row \in Batch(Len(Citations)) : e \in Joined(row)
          BY <4>2
        <5>2. row \in Rows /\ row \in RowsDone(pc', pos')
          BY <2>1, <3>1, <5>1, CitationsMove, Inserted
        <5>3. e = Edge(flavour[cur], run, row)
          BY <3>1, <3>2, <3>4, <5>1, <5>2, JoinedEnds
        <5>. QED  BY <5>2, <5>3
      <4>. QED  BY <2>1, <3>1, <3>4, <4>1, <4>2, Inserted
    <3>. QED  BY <3>1, <3>2, <3>3, <3>4 DEF ExactInv, LoadedIsExactElsewhere, JustLoaded
  <2>. QED  BY <1>2, <1>12, <2>1 DEF LoadCitations
<1>13. CASE UNCHANGED vars
  <2>1. UNCHANGED <<flavour, nodes, edges, bench, run, pc, keep, cur, pos, records>>
    BY <1>13 DEF vars, server
  <2>. QED  BY <2>1 DEF ExactInv, LoadedIsExactElsewhere, LoadedIsExact, JustLoaded
<1>. QED  BY <1>2, <1>3, <1>4, <1>6, <1>7, <1>8, <1>9, <1>10, <1>11, <1>12, <1>13 DEF Next, Process

-----------------------------------------------------------------------------
(* The theorems. *)

IInv ==
  /\ TypeOK /\ PlaceInv /\ IndexInv /\ RecordInv /\ JoinInv /\ CompleteInv /\ ExactInv

\* The conjunction is inductive.
LEMMA Inductive == Spec => []IInv
<1>1. Init => IInv
  <2>. SUFFICES ASSUME Init PROVE IInv
    OBVIOUS
  <2>1. pc = "idle" /\ cur = Nobody /\ torn = FALSE /\ run = 0
    BY DEF Init
  <2>2. NoRecord \in Record /\ NoRecord.run = 0
    BY Sizes DEF NoRecord, Record
  <2>3. /\ records = [t \in Targets |-> NoRecord] /\ saved = [t \in Targets |-> NoRecord]
        /\ edges = [t \in Targets |-> {}] /\ nodes = [t \in Targets |-> {}]
        /\ indexes = [t \in Targets |-> {}] /\ bench = [t \in Targets |-> FALSE]
    BY DEF Init
  <2>4. TypeOK
    <3>1. run \in Runs /\ pos \in Nat
      BY Sizes DEF Init
    <3>2. keep = FALSE /\ todo = {} /\ listed = {} /\ flavour \in Configs
      BY DEF Init
    <3>. QED  BY <2>1, <2>2, <2>3, <3>1, <3>2 DEF TypeOK, Steps
  <2>5. PlaceInv /\ IndexInv /\ CompleteInv /\ ExactInv
    BY <2>1 DEF PlaceInv, IndexInv, CompleteInv, ExactInv, Loading, JustLoaded,
                ListedIndexesExistElsewhere, LoadedIsComplete, LoadedIsExactElsewhere
  <2>6. RecordInv
    BY <2>1, <2>2, <2>3 DEF RecordInv, EveryTargetRecorded
  <2>7. JoinInv
    BY <2>3 DEF JoinInv
  <2>. QED  BY <2>4, <2>5, <2>6, <2>7 DEF IInv
<1>2. IInv /\ [Next]_vars => IInv'
  <2>. SUFFICES ASSUME IInv, [Next]_vars PROVE IInv'
    OBVIOUS
  <2>1. TypeOK /\ PlaceInv /\ IndexInv /\ RecordInv /\ JoinInv /\ CompleteInv /\ ExactInv
    BY DEF IInv
  <2>2. TypeOK'
    <3>1. ServerOK' /\ ProcessOK'
      BY <2>1, ServerStep, ProcessStep
    <3>. QED  BY <3>1 DEF TypeOK, ServerOK, ProcessOK
  <2>3. PlaceInv' /\ IndexInv' /\ RecordInv'
    BY <2>1, PlaceStep, IndexStep, RecordStep
  <2>4. JoinInv' /\ CompleteInv' /\ ExactInv'
    BY <2>1, JoinStep, CompleteStep, ExactStep
  <2>. QED  BY <2>2, <2>3, <2>4 DEF IInv
<1>. QED  BY <1>1, <1>2, PTL DEF Spec

\* What is stored, recorded and listed keeps its type.
THEOREM TypeCorrect == Spec => []TypeOK
BY Inductive, PTL DEF IInv

\* A load that is recorded stored every paper and every citation.
THEOREM Complete == Spec => []LoadedIsComplete
BY Inductive, PTL DEF IInv, CompleteInv

\* Without --keep it stored nothing else, where a failed reset is noticed.
THEOREM Exact == Spec => []LoadedIsExactElsewhere
BY Inductive, PTL DEF IInv, ExactInv

\* The indexes that are listed exist, where no reset drops them.
THEOREM IndexesExist == Spec => []ListedIndexesExistElsewhere
BY Inductive, PTL DEF IInv, IndexInv

\* Every target is on record when the next one is turned to.
THEOREM AllRecorded == Spec => []EveryTargetRecorded
BY Inductive, PTL DEF IInv, RecordInv

\* No step replaces what is on record by something older.
THEOREM Survive == Spec => RecordsSurvive
<1>1. IInv /\ [Next]_vars =>
        [(torn => pc' # "idle") => \A t \in Targets : OnRecord(t)' >= OnRecord(t)]_vars
  BY SurviveStep DEF IInv
<1>. QED  BY <1>1, Inductive, PTL DEF Spec, RecordsSurvive

-----------------------------------------------------------------------------
(* A run makes progress: what is left for it to do is well-founded.        *)

\* The steps of one target in the order they are taken.
Stage(at) ==
  CASE at = "connect" -> 1 [] at = "schema" -> 2 [] at = "reset" -> 3 [] at = "nodes" -> 4
    [] at = "edges" -> 5 [] at = "record" -> 6 [] at = "failed" -> 7 [] at = "save" -> 8
    [] at = "saving" -> 9 [] OTHER -> 10

\* The nodes the Bolt reset has still to delete, rows of the mixed workload among them.
Stored == Cardinality(nodes[cur]) + (IF bench[cur] THEN 1 ELSE 0)

\* How often the loop of a step can still go round.
Left ==
  CASE pc = "schema" -> Len(Indexed) - pos
    [] pc = "reset" -> IF flavour[cur] = "bolt" THEN Stored ELSE 3 - pos
    [] pc = "nodes" -> NumPapers - pos
    [] pc = "edges" -> Len(Citations) - pos
    [] OTHER -> 0

\* The process ends, or has fewer targets to load, or is further on with this one, or its
\* loop has less left.
Forward ==
  \/ pc' = "idle"
  \/ todo' \subseteq todo /\ todo' # todo
  \/ /\ todo' = todo
     /\ \/ Stage(pc') > Stage(pc)
        \/ pc' = pc /\ Left' \in Nat /\ Left' < Left

\* The steps in which the target is never changed go on in the order of the stages.
LEMMA Stages ==
  ASSUME todo' = todo,
         \/ pc = "connect" /\ pc' \in {"schema", "failed"}
         \/ pc = "schema" /\ pc' \in {"reset", "nodes"}
         \/ pc = "reset" /\ pc' \in {"nodes", "failed"}
         \/ pc = "nodes" /\ pc' \in {"edges", "failed"}
         \/ pc = "edges" /\ pc' \in {"record", "failed"}
         \/ pc \in {"record", "failed"} /\ pc' = "save"
         \/ pc = "save" /\ pc' = "saving"
         \/ pc = "saving" /\ pc' = "next"
  PROVE  Forward
BY DEF Forward, Stage

\* Taking a non-empty part of a finite set leaves fewer.
LEMMA Fewer ==
  ASSUME NEW S, IsFiniteSet(S), NEW T \in SUBSET S
  PROVE  /\ Cardinality(S) \in Nat /\ Cardinality(T) \in Nat /\ Cardinality(S \ T) \in Nat
         /\ Cardinality(S \ T) = Cardinality(S) - Cardinality(T)
<1>1. IsFiniteSet(T) /\ IsFiniteSet(S \ T) /\ S \cap T = T
  BY FS_Subset, FS_Difference
<1>. QED  BY <1>1, FS_Difference, FS_CardinalityType

\* A database holds finitely many papers.
LEMMA StoredFinite ==
  ASSUME TypeOK, cur \in Targets
  PROVE  IsFiniteSet(nodes[cur])
<1>1. IsFiniteSet(Papers) /\ IsFiniteSet(Runs)
  <2>1. 0 \in Int /\ 1 \in Int /\ NumPapers \in Int /\ MaxRuns \in Int
    BY Sizes
  <2>. QED  BY <2>1, FS_Interval DEF Papers, Runs
<1>2. IsFiniteSet(StoredNode)
  BY <1>1, FS_Product DEF StoredNode
<1>. QED  BY <1>2, FS_Subset DEF TypeOK

\* Every query of the Bolt reset that goes on deletes something.
LEMMA DeletesSome ==
  ASSUME TypeOK, cur \in Targets, UNCHANGED cur, ~Empty(cur), DeleteSome
  PROVE  Stored \in Nat /\ Stored' \in Nat /\ Stored' < Stored
<1>1. IsFiniteSet(nodes[cur])
  BY StoredFinite
<1>2. PICK ns \in SUBSET nodes[cur], b \in BOOLEAN :
        /\ b => bench[cur]
        /\ Cardinality(ns) + (IF b THEN 1 ELSE 0) =
             (IF Cardinality(nodes[cur]) + (IF bench[cur] THEN 1 ELSE 0) < DeleteLimit
              THEN Cardinality(nodes[cur]) + (IF bench[cur] THEN 1 ELSE 0) ELSE DeleteLimit)
        /\ Delete(ns, b)
  BY DEF DeleteSome
<1>3. nodes \in [Targets -> SUBSET StoredNode] /\ bench \in [Targets -> BOOLEAN]
  BY DEF TypeOK
<1>4. nodes'[cur'] = nodes[cur] \ ns
  BY <1>2, <1>3 DEF Delete
<1>5. bench'[cur'] = (bench[cur] /\ ~b)
  BY <1>2, <1>3 DEF Delete
<1>6. /\ Cardinality(nodes[cur]) \in Nat /\ Cardinality(ns) \in Nat /\ Cardinality(nodes[cur] \ ns) \in Nat
      /\ Cardinality(nodes[cur] \ ns) = Cardinality(nodes[cur]) - Cardinality(ns)
  BY <1>1, <1>2, Fewer
<1>7. nodes[cur] # {} => Cardinality(nodes[cur]) > 0
  BY <1>1, <1>6, FS_EmptySet
<1>8. nodes[cur] # {} \/ bench[cur]
  BY DEF Empty
<1>9. DeleteLimit \in Nat \ {0}
  BY Sizes
<1>10. /\ Stored = Cardinality(nodes[cur]) + (IF bench[cur] THEN 1 ELSE 0)
       /\ Stored' = Cardinality(nodes[cur] \ ns) + (IF bench[cur] /\ ~b THEN 1 ELSE 0)
  BY <1>4, <1>5 DEF Stored
<1>. HIDE DEF Stored
<1>11. /\ Stored \in Nat /\ Stored > 0
       /\ Cardinality(ns) + (IF b THEN 1 ELSE 0) = (IF Stored < DeleteLimit THEN Stored ELSE DeleteLimit)
  <2>1. Stored \in Nat
    BY <1>6, <1>10
  <2>2. Stored > 0
    BY <1>6, <1>7, <1>8, <1>10
  <2>. QED  BY <1>2, <1>10, <2>1, <2>2
<1>12. Stored' = Stored - (Cardinality(ns) + (IF b THEN 1 ELSE 0))
  <2>1. CASE b
    BY <1>2, <1>6, <1>10, <2>1
  <2>2. CASE ~b
    BY <1>6, <1>10, <2>2
  <2>. QED  BY <2>1, <2>2
<1>. QED  BY <1>9, <1>11, <1>12

\* A batch that is not the last brings the end nearer.
LEMMA BatchForward ==
  ASSUME TypeOK, PlaceInv, NEW last \in Nat, NEW then, AfterBatch(last, then),
         \/ pc = "nodes" /\ last = NumPapers /\ then = "edges"
         \/ pc = "edges" /\ last = Len(Citations) /\ then = "record"
  PROVE  Forward
<1>1. pos \in Nat /\ BatchSize \in Nat \ {0} /\ UNCHANGED todo
  BY Sizes DEF TypeOK, AfterBatch
<1>2. CASE pos + BatchSize < last
  <2>1. pc' = pc /\ pos' = pos + BatchSize
    BY <1>2 DEF AfterBatch
  <2>2. Left = last - pos /\ Left' = last - pos'
    BY <2>1 DEF Left
  <2>3. Left' \in Nat /\ Left' < Left
    BY <1>1, <1>2, <2>1, <2>2
  <2>. QED  BY <1>1, <2>1, <2>3 DEF Forward
<1>3. CASE ~(pos + BatchSize < last)
  <2>1. pc' = then
    BY <1>3 DEF AfterBatch
  <2>. QED  BY <1>1, <2>1, Stages
<1>. QED  BY <1>2, <1>3

LEMMA ForwardStep == TypeOK /\ PlaceInv /\ Process => Forward
<1>. SUFFICES ASSUME TypeOK, PlaceInv, Process PROVE Forward
  OBVIOUS
<1>0. pos \in Nat /\ NumPapers \in Nat \ {0} /\ Len(Citations) \in Nat \ {0}
  BY Sizes DEF TypeOK
<1>1. CASE Pick
  BY <1>1 DEF Pick, Forward
<1>2. CASE Exit
  BY <1>2 DEF Exit, Ended, Forward
<1>3. CASE RecordLoad \/ RecordFailure
  BY <1>3, Stages DEF RecordLoad, RecordFailure
<1>4. CASE BeginSave \/ EndSave
  BY <1>4, Stages DEF BeginSave, EndSave
<1>5. CASE Connect
  BY <1>5, Stages DEF Connect, Fail
<1>6. CASE CreateIndex \/ CreateIndexFails
  <2>1. pc = "schema" /\ UNCHANGED todo /\ AfterStatement /\ pos \in 0 .. 1 /\ Len(Indexed) = 2
    BY <1>6 DEF CreateIndex, CreateIndexFails, AfterStatement, PlaceInv, Indexed
  <2>2. CASE pos + 1 < Len(Indexed)
    <3>1. pc' = pc /\ pos' = pos + 1
      BY <2>1, <2>2 DEF AfterStatement
    <3>2. Left = 2 - pos /\ Left' = 2 - pos'
      BY <2>1, <3>1 DEF Left
    <3>3. Left' \in Nat /\ Left' < Left
      BY <2>1, <2>2, <3>1, <3>2
    <3>. QED  BY <2>1, <3>1, <3>3 DEF Forward
  <2>3. CASE ~(pos + 1 < Len(Indexed))
    BY <2>1, <2>3, Stages DEF AfterStatement
  <2>. QED  BY <2>2, <2>3
<1>7. CASE ResetBolt
  <2>1. pc = "reset" /\ flavour[cur] = "bolt" /\ cur \in Targets /\ UNCHANGED todo
    BY <1>7 DEF ResetBolt, AfterReset, Fail, PlaceInv
  <2>2. CASE ~Empty(cur) /\ DeleteSome /\ UNCHANGED <<pc, cur, flavour>>
    <3>1. Stored' \in Nat /\ Stored' < Stored
      BY <2>1, <2>2, DeletesSome
    <3>2. Left = Stored /\ Left' = Stored'
      BY <2>1, <2>2 DEF Left
    <3>. QED  BY <2>1, <2>2, <3>1, <3>2 DEF Forward
  <2>3. CASE pc' \in {"nodes", "failed"}
    BY <2>1, <2>3, Stages
  <2>. QED  BY <1>7, <2>1, <2>2, <2>3 DEF ResetBolt, AfterReset, Fail
<1>8. CASE ResetFalkor
  BY <1>8, Stages DEF ResetFalkor
<1>9. CASE ResetArango
  <2>1. /\ pc = "reset" /\ flavour[cur] = "arangodb" /\ UNCHANGED <<flavour, cur, todo>>
        /\ pos \in 0 .. 2
    BY <1>9 DEF ResetArango, AfterReset, Fail, PlaceInv
  <2>2. CASE pos < 2 /\ pos' = pos + 1 /\ UNCHANGED pc
    <3>1. Left = 3 - pos /\ Left' = 3 - pos'
      BY <2>1, <2>2 DEF Left
    <3>2. Left' \in Nat /\ Left' < Left
      BY <2>1, <2>2, <3>1
    <3>. QED  BY <2>1, <2>2, <3>2 DEF Forward
  <2>3. CASE pc' \in {"nodes", "failed"}
    BY <2>1, <2>3, Stages
  <2>. QED  BY <1>9, <2>2, <2>3 DEF ResetArango, AfterReset, Fail
<1>10. CASE LoadPapers
  <2>1. CASE AfterBatch(NumPapers, "edges")
    BY <1>0, <1>10, <2>1, BatchForward DEF LoadPapers
  <2>2. CASE Fail
    BY <1>10, <2>2, Stages DEF LoadPapers, Fail
  <2>. QED  BY <1>10, <2>1, <2>2 DEF LoadPapers
<1>11. CASE LoadCitations
  <2>1. CASE AfterBatch(Len(Citations), "record")
    BY <1>0, <1>11, <2>1, BatchForward DEF LoadCitations
  <2>2. CASE Fail
    BY <1>11, <2>2, Stages DEF LoadCitations, Fail
  <2>. QED  BY <1>11, <2>1, <2>2 DEF LoadCitations
<1>. QED  BY <1>1, <1>2, <1>3, <1>4, <1>5, <1>6, <1>7, <1>8, <1>9, <1>10, <1>11 DEF Process

\* Every step of a running load_data.py lessens a well-founded measure: the reset loop and
\* the batches come to an end, each target is loaded once, whatever the drivers answer.
THEOREM StepsForward == Spec => [][Process => Forward]_vars
<1>1. TypeOK /\ PlaceInv => [Process => Forward]_vars
  BY ForwardStep
<1>. QED  BY <1>1, Inductive, PTL DEF IInv
=============================================================================
