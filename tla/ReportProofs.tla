----------------------------- MODULE ReportProofs -----------------------------
(***************************************************************************)
(* What is published is the newest on disk and of one piece, for every set *)
(* of databases, every number of benchmarks and every call of the scripts. *)
(***************************************************************************)
EXTENDS Report, TLAPS

File == [state : {"absent", "torn", "whole"}, data : Data]
BenchSteps == {"idle", "run", "saving", "last_saving"}
ReaderSteps == {"idle", "reading", "csv", "loads", "tables", "lab", "cloud", "load_chart", "done"}
Bench == [pc : BenchSteps, chosen : SUBSET Targets, todo : SUBSET Targets, results : Data]
Reader == [pc : ReaderSteps, call : Nat, left : SUBSET FileNames, merged : Data,
           seen : [FileNames -> File]]

WritersOK ==
  /\ files \in [FileNames -> File] /\ bench \in Bench
  /\ \A f \in FileNames : files[f].state # "whole" => files[f].data = Nothing
  /\ runs \in 0 .. MaxRuns /\ finished \in [Targets -> 0 .. MaxRuns]
  /\ bench.todo = {t \in bench.chosen : bench.results[t] = NoEntry}

ReadersOK ==
  /\ reader \in [Readers -> Reader] /\ calls \in 0 .. MaxReports
  /\ \A r \in Readers, f \in FileNames : reader[r].seen[f].state # "whole" => reader[r].seen[f].data = Nothing
  /\ \A r \in Readers : reader[r].call \in 0 .. calls
  /\ csv.of \in 0 .. calls /\ csv \in [of : Nat, rows : Data]
  /\ tables.of \in 0 .. calls /\ tables \in [of : Nat, data : Data]
  /\ charts \in [Tracks -> [latency : Data, mixed : Data]]

Typed == WritersOK /\ ReadersOK

\* The benchmark's file and its dictionary.
Latest == files["results.json"]
Saving == bench.pc \in {"saving", "last_saving"}

WriterInv ==
  /\ bench.pc = "idle" => bench.results = Nothing
  /\ bench.pc # "idle" => bench.chosen # {}
  /\ \A t \in Targets : bench.results[t] # NoEntry => bench.results[t].run = runs
  /\ Saving => Latest.state = "torn" /\ Holds(bench.results) # {}
  /\ Latest.state = "whole" /\ bench.pc # "idle" =>
       \/ \A t \in Targets : Latest.data[t].run < runs
       \/ \A t \in Targets : Latest.data[t] # NoEntry => Latest.data[t] = bench.results[t]

\* A content the benchmark's file has now, or is about to have, and one it never has again.
Current(d) == Latest = Whole(d) \/ (Saving /\ bench.results = d)
Gone(d) ==
  /\ Latest # Whole(d)
  /\ bench.pc # "idle" => \/ \A t \in Targets : d[t].run < runs
                          \/ \E t \in Targets : bench.results[t] # NoEntry /\ bench.results[t] # d[t]

\* What is known of a content that was once in the benchmark's file.
Known(d) ==
  /\ Holds(d) # {} /\ \A t \in Targets : d[t].run <= runs
  /\ Latest.state = "whole" =>
       \A t, u \in Targets : Latest.data[u] # NoEntry => d[t].run <= Latest.data[u].run
  /\ Current(d) \/ Gone(d)

\* A file of the given content, and one that had it and never has again.
Past(f, d) == files[f] # Whole(d) /\ Gone(d)

Copies == {"results-cloud.json", "results-lab.json"}
OfTrack(d, f) == \A track \in Tracks : f = CopyOf(track) => \A t \in Holds(d) : Track[t] = track

FilesInv ==
  \A f \in FileNames : files[f].state = "whole" => Known(files[f].data) /\ OfTrack(files[f].data, f)

SeenOf(r) ==
  \A f \in FileNames : LET s == reader[r].seen[f] IN
    s.state = "whole" => /\ Known(s.data) /\ OfTrack(s.data, f)
                         /\ f \in Copies => files[f] = s \/ Past(f, s.data)

\* The entries of the files other than those left, the last file's first.
MergeOf(s, left) ==
  [t \in Targets |->
     LET shows(f) == f \notin left /\ s[f].data[t] # NoEntry
     IN  IF shows("results.json") THEN s["results.json"].data[t]
         ELSE IF shows("results-lab.json") THEN s["results-lab.json"].data[t]
         ELSE IF shows("results-cloud.json") THEN s["results-cloud.json"].data[t]
         ELSE NoEntry]

Clean(s) == \A f \in FileNames : s[f].state # "torn"
AtLeast(merged, d) == \A t \in Targets : merged[t].run >= d[t].run

\* What a script has merged is at least as new as what it found in the files it read, and
\* exactly that, unless one of them was past when it was read.
ReadOf(r) ==
  reader[r].pc = "reading" =>
    LET s == reader[r].seen
        left == reader[r].left
        merged == reader[r].merged
        Read(f) == f \notin left /\ s[f].state = "whole"
    IN  /\ \A f \in left : s[f].state # "absent"
        /\ "results.json" \notin left /\ s["results.json"].state # "absent" => left = {}
        /\ "results-lab.json" \notin left /\ s["results-lab.json"].state # "absent" =>
             "results-cloud.json" \notin left
        /\ \A f \in FileNames : Read(f) => Past(f, s[f].data) \/ AtLeast(merged, s[f].data)
        /\ Clean(s) => \/ \E f \in FileNames : Read(f) /\ Past(f, s[f].data)
                       \/ merged = MergeOf(s, left)

\* The same once all files are read, if no file was touched.
MergedOf(r) ==
  MergedSteadily(r) =>
    /\ \A f \in FileNames : AtLeast(reader[r].merged, reader[r].seen[f].data)
    /\ Clean(reader[r].seen) => reader[r].merged = MergeOf(reader[r].seen, {})

ReadersInv == \A r \in Readers : SeenOf(r) /\ ReadOf(r) /\ MergedOf(r)

\* What a call has written of it.
Shown(track, merged) ==
  LET latency == LatencyTable(merged, track)
      mixed == ConcurrencyTable(merged, track)
  IN  /\ Holds(latency) # {} => charts[track].latency = latency
      /\ Holds(mixed) # {} => charts[track].mixed = mixed

ShownInv ==
  /\ LET s == reader["make_report"].seen IN
       reader["make_report"].pc = "done" /\ s # NoFiles /\ Clean(s) => tables.data = MergeOf(s, {})
  /\ LET s == reader["make_charts"].seen IN s # NoFiles /\ Clean(s) =>
       /\ reader["make_charts"].pc \in {"cloud", "load_chart", "done"} => Shown("lab", MergeOf(s, {}))
       /\ reader["make_charts"].pc \in {"load_chart", "done"} => Shown("cloud", MergeOf(s, {}))

CsvInv ==
  LET pc == reader["make_report"].pc
      call == reader["make_report"].call
      rows == CsvRows(reader["make_report"].merged)
  IN  /\ pc \in {"reading", "csv", "loads", "tables"} => tables.of < call
      /\ pc \in {"reading", "csv"} => csv.of < call
      /\ pc \in {"loads", "tables"} =>
           IF Holds(rows) # {} THEN csv = [of |-> call, rows |-> rows] ELSE csv.of < call
      /\ CsvNotBehind

IInv == Typed /\ WriterInv /\ FilesInv /\ ReadersInv /\ ShownInv /\ CsvInv

-----------------------------------------------------------------------------
(* Names, types, and which action changes what. *)

WriterStep ==
  \/ BenchStart \/ LastSave \/ Saved \/ BenchCrash
  \/ \E t \in Targets, status \in Statuses : Measure(t, status)
  \/ \E track \in Tracks : Copy(track)

ReaderStep ==
  \/ \E r \in Readers : Glob(r) \/ ReadFile(r) \/ Stops(r)
  \/ Merged("make_report", "csv") \/ WriteCsv \/ ReadLoads \/ WriteTables
  \/ Merged("make_charts", "lab") \/ DrawTrack("lab", "cloud")
  \/ DrawTrack("cloud", "load_chart") \/ ChartLoad

LEMMA Sides ==
  /\ [Next]_vars => WriterStep \/ ReaderStep \/ UNCHANGED vars
  /\ WriterStep => UNCHANGED readers
  /\ ReaderStep => UNCHANGED writers
<1>1. [Next]_vars => WriterStep \/ ReaderStep \/ UNCHANGED vars
  BY DEF Next, WriterStep, ReaderStep
<1>2. WriterStep => UNCHANGED readers
  BY DEF WriterStep, BenchStart, LastSave, Saved, BenchCrash, Measure, Copy
<1>3. ReaderStep => UNCHANGED writers
  BY DEF ReaderStep, Glob, ReadFile, Stops, Merged, WriteCsv, ReadLoads, WriteTables, DrawTrack, ChartLoad
<1>. QED  BY <1>1, <1>2, <1>3

LEMMA Names ==
  /\ FileNames = {"results-cloud.json", "results-lab.json", "results.json"}
  /\ CopyOf("lab") = "results-lab.json" /\ CopyOf("cloud") = "results-cloud.json"
<1>1. DOMAIN Sorted = {1, 2, 3}
  BY DEF Sorted
<1>2. Sorted[1] = "results-cloud.json" /\ Sorted[2] = "results-lab.json" /\ Sorted[3] = "results.json"
  BY DEF Sorted
<1>. QED  BY <1>1, <1>2 DEF FileNames, Range, CopyOf

\* The file that is read next.
LEMMA FirstFacts ==
  ASSUME NEW left \in SUBSET FileNames, left # {}
  PROVE  /\ FirstOf(left) \in left
         /\ "results-cloud.json" \in left => FirstOf(left) = "results-cloud.json"
         /\ FirstOf(left) = "results.json" => left = {"results.json"}
<1>1. DOMAIN Sorted = {1, 2, 3}
  BY DEF Sorted
<1>2. Sorted[1] = "results-cloud.json" /\ Sorted[2] = "results-lab.json" /\ Sorted[3] = "results.json"
  BY DEF Sorted
<1>. DEFINE P(i) == Sorted[i] \in left /\ \A j \in DOMAIN Sorted : Sorted[j] \in left => i <= j
            first == CHOOSE i \in DOMAIN Sorted : P(i)
<1>3. \E i \in DOMAIN Sorted : P(i)
  <2>1. CASE Sorted[1] \in left
    <3>. P(1)
      BY <1>1, <2>1
    <3>. QED  BY <1>1
  <2>2. CASE Sorted[1] \notin left /\ Sorted[2] \in left
    <3>. P(2)
      BY <1>1, <2>2
    <3>. QED  BY <1>1
  <2>3. CASE Sorted[1] \notin left /\ Sorted[2] \notin left
    <3>1. Sorted[3] \in left
      BY <1>2, <2>3, Names
    <3>2. P(3)
      BY <1>1, <2>3, <3>1
    <3>. QED  BY <1>1, <3>2
  <2>. QED  BY <2>1, <2>2, <2>3
<1>4. first \in DOMAIN Sorted /\ P(first)
  <2>. HIDE DEF P
  <2>. QED  BY <1>3
<1>5. FirstOf(left) = Sorted[first]
  BY DEF FirstOf
<1>. HIDE DEF first
<1>6. CASE first = 1
  BY <1>2, <1>4, <1>5, <1>6
<1>7. CASE first = 2
  <2>1. Sorted[1] \notin left
    BY <1>1, <1>4, <1>7
  <2>. QED  BY <1>2, <1>4, <1>5, <1>7, <2>1
<1>8. CASE first = 3
  <2>1. Sorted[1] \notin left /\ Sorted[2] \notin left
    BY <1>1, <1>4, <1>8
  <2>2. left = {"results.json"}
    BY <1>2, <2>1, Names
  <2>. QED  BY <1>2, <1>5, <1>8, <2>2
<1>. QED  BY <1>1, <1>4, <1>6, <1>7, <1>8

LEMMA Empty ==
  /\ Nothing \in Data /\ Holds(Nothing) = {} /\ \A t \in Targets : Nothing[t] = NoEntry
  /\ Absent \in File /\ Torn \in File /\ NoFiles \in [FileNames -> File]
  /\ \A f \in FileNames : NoFiles[f] = Absent
  /\ Absent.state = "absent" /\ Torn.state = "torn" /\ Absent.data = Nothing /\ Torn.data = Nothing
  /\ \A d : Whole(d).state = "whole" /\ Whole(d).data = d
<1>1. NoEntry \in [status : Statuses \cup {"absent"}, run : 0 .. MaxRuns]
  BY BoundsAssumption DEF NoEntry
<1>2. Nothing \in Data
  BY <1>1 DEF Nothing, Data
<1>3. Holds(Nothing) = {} /\ \A t \in Targets : Nothing[t] = NoEntry
  BY DEF Holds, Nothing
<1>. QED  BY <1>2, <1>3 DEF Absent, Torn, NoFiles, File, Whole

LEMMA Entries ==
  ASSUME NEW d \in Data
  PROVE  /\ \A t \in Targets : d[t] = [status |-> d[t].status, run |-> d[t].run] /\ d[t].run \in 0 .. MaxRuns
         /\ \A t \in Targets : d[t] = NoEntry <=> t \notin Holds(d)
         /\ Whole(d) \in File
BY DEF Data, Holds, Whole, File

LEMMA DataSame ==
  ASSUME NEW d \in Data, NEW e \in Data, \A t \in Targets : d[t] = e[t]
  PROVE  d = e
BY DEF Data

LEMMA ReplaceType ==
  ASSUME NEW d \in Data, NEW e \in Data
  PROVE  /\ Replace(d, e) \in Data
         /\ \A t \in Targets : Replace(d, e)[t] = IF e[t] # NoEntry THEN e[t] ELSE d[t]
BY DEF Data, Replace

LEMMA OnlyType ==
  ASSUME NEW d \in Data, NEW wanted
  PROVE  Only(d, wanted) \in Data
BY Empty, BoundsAssumption DEF Data, Only, NoEntry

LEMMA TablesType ==
  ASSUME NEW d \in Data, NEW track
  PROVE  CsvRows(d) \in Data /\ LatencyTable(d, track) \in Data /\ ConcurrencyTable(d, track) \in Data
BY OnlyType DEF CsvRows, LatencyTable, ConcurrencyTable

\* What the reader of a step looks like.
LEMMA ReaderUpdates ==
  ASSUME reader \in [Readers -> Reader], NEW r \in Readers, NEW p \in ReaderSteps
  PROVE  /\ Ended \in Reader
         /\ [reader EXCEPT ![r] = Ended] \in [Readers -> Reader]
         /\ [reader EXCEPT ![r].pc = p] \in [Readers -> Reader]
<1>1. Ended \in Reader
  BY Empty DEF Ended, Reader, ReaderSteps
<1>. QED  BY <1>1 DEF Reader

LEMMA TypedTypes == Typed => TypeOK
<1>. SUFFICES ASSUME WritersOK, ReadersOK PROVE TypeOK
  BY DEF Typed
<1>1. \A f \in DOMAIN files : files[f].state \in {"absent", "torn", "whole"} /\ files[f].data \in Data
  BY DEF WritersOK, File
<1>2. bench.pc \in {"idle", "run", "saving", "last_saving"} /\ bench.chosen \subseteq Targets
        /\ bench.results \in Data
  BY DEF WritersOK, Bench, BenchSteps
<1>3. \A r \in Readers : reader[r].merged \in Data
  BY DEF ReadersOK, Reader
<1>4. csv.rows \in Data /\ tables.data \in Data
  BY DEF ReadersOK
<1>. QED  BY <1>1, <1>2, <1>3, <1>4 DEF TypeOK, WritersOK, ReadersOK

LEMMA TypeInit == Init => Typed
<1>. SUFFICES ASSUME Init PROVE WritersOK /\ ReadersOK
  BY DEF Typed
<1>1. WritersOK
  BY Empty, BoundsAssumption DEF Init, WritersOK, BenchOver, Bench, BenchSteps
<1>2. ReadersOK
  <2>1. Ended \in Reader
    BY Empty DEF Ended, Reader, ReaderSteps
  <2>2. NoPicture \in [latency : Data, mixed : Data]
    BY Empty DEF NoPicture
  <2>3. Ended.call = 0 /\ \A f \in FileNames : Ended.seen[f] = Absent
    BY Empty DEF Ended
  <2>4. /\ reader \in [Readers -> Reader]
        /\ \A r \in Readers : reader[r].call = 0 /\ \A f \in FileNames : reader[r].seen[f] = Absent
    BY <2>1, <2>3 DEF Init
  <2>5. /\ calls = 0 /\ csv = [of |-> 0, rows |-> Nothing] /\ tables = [of |-> 0, data |-> Nothing]
        /\ charts = [track \in Tracks |-> NoPicture]
    BY DEF Init
  <2>6. csv \in [of : Nat, rows : Data] /\ tables \in [of : Nat, data : Data] /\ csv.of = 0 /\ tables.of = 0
    BY <2>5, Empty
  <2>7. charts \in [Tracks -> [latency : Data, mixed : Data]]
    BY <2>2, <2>5
  <2>8. \A r \in Readers : reader[r].call = 0 /\ \A f \in FileNames : reader[r].seen[f].data = Nothing
    BY <2>4, Empty
  <2>9. calls \in 0 .. MaxReports /\ 0 \in 0 .. calls
    BY <2>5, BoundsAssumption
  <2>10. csv.of \in 0 .. calls /\ tables.of \in 0 .. calls /\ \A r \in Readers : reader[r].call \in 0 .. calls
    BY <2>6, <2>8, <2>9
  <2>11. \A r \in Readers, f \in FileNames : reader[r].seen[f].state # "whole"
           => reader[r].seen[f].data = Nothing
    BY <2>8
  <2>. QED  BY ONLY <2>4, <2>6, <2>7, <2>9, <2>10, <2>11 DEF ReadersOK
<1>. QED  BY <1>1, <1>2

LEMMA WritersType == WritersOK /\ WriterStep => WritersOK'
<1>. SUFFICES ASSUME WritersOK, WriterStep PROVE WritersOK'
  OBVIOUS
<1>. USE Names, Empty DEF WritersOK
<1>0. "results.json" \in FileNames /\ [files EXCEPT !["results.json"] = Torn] \in [FileNames -> File]
  OBVIOUS
<1>1. CASE BenchStart
  <2>1. PICK chosen \in (SUBSET Targets) \ {{}} :
          bench' = [pc |-> "run", chosen |-> chosen, todo |-> chosen, results |-> Nothing]
    BY <1>1 DEF BenchStart
  <2>2. bench' \in Bench /\ bench'.todo = {t \in bench'.chosen : bench'.results[t] = NoEntry}
    BY <2>1 DEF Bench, BenchSteps
  <2>3. runs' \in 0 .. MaxRuns /\ UNCHANGED <<files, finished>>
    BY <1>1, BoundsAssumption DEF BenchStart
  <2>. QED  BY <2>2, <2>3
<1>2. ASSUME NEW t \in Targets, NEW status \in Statuses, Measure(t, status) PROVE WritersOK'
  <2>. DEFINE e == [status |-> status, run |-> runs]
              p == IF status = "unconnected" THEN "run" ELSE "saving"
  <2>1. bench' = [bench EXCEPT !.todo = @ \ {t}, !.results[t] = e, !.pc = p] /\ UNCHANGED <<runs, finished>>
    BY <1>2 DEF Measure
  <2>2. e \in [status : Statuses \cup {"absent"}, run : 0 .. MaxRuns] /\ p \in BenchSteps /\ e # NoEntry
    BY DEF BenchSteps, NoEntry, Statuses
  <2>. HIDE DEF e, p
  <2>3. /\ bench'.pc = p /\ bench'.chosen = bench.chosen /\ bench'.todo = bench.todo \ {t}
        /\ bench'.results = [bench.results EXCEPT ![t] = e]
        /\ bench' = [pc |-> bench'.pc, chosen |-> bench'.chosen, todo |-> bench'.todo, results |-> bench'.results]
    BY <2>1 DEF Bench
  <2>4. bench'.results \in Data
    BY <2>2, <2>3 DEF Bench, Data
  <2>5. bench'.todo = {u \in bench'.chosen : bench'.results[u] = NoEntry}
    <3>. bench.results \in [Targets -> [status : Statuses \cup {"absent"}, run : 0 .. MaxRuns]]
           /\ bench.chosen \subseteq Targets
      BY DEF Bench, Data
    <3>. QED  BY <2>2, <2>3
  <2>6. bench' \in Bench
    BY <2>2, <2>3, <2>4 DEF Bench
  <2>7. files' = files \/ files' = [files EXCEPT !["results.json"] = Torn]
    BY <1>2 DEF Measure, Truncate
  <2>. QED  BY <1>0, <2>1, <2>5, <2>6, <2>7
<1>3. CASE LastSave
  BY <1>0, <1>3 DEF LastSave, Truncate, Bench, BenchSteps
<1>4. CASE Saved
  <2>1. Whole(bench.results) \in File
    BY Entries DEF Bench
  <2>2. files' \in [FileNames -> File] /\ \A f \in FileNames : files'[f].state # "whole"
          => files'[f].data = Nothing
    BY <1>4, <2>1 DEF Saved
  <2>3. /\ bench' \in Bench
        /\ bench'.todo = {t \in bench'.chosen : bench'.results[t] = NoEntry}
    <3>1. BenchOver \in Bench /\ BenchOver.todo = {t \in BenchOver.chosen : BenchOver.results[t] = NoEntry}
      BY DEF BenchOver, Bench, BenchSteps
    <3>2. bench' = BenchOver \/ bench' = [bench EXCEPT !.pc = "run"]
      BY <1>4 DEF Saved
    <3>3. CASE bench' = BenchOver
      BY <3>1, <3>3
    <3>4. CASE bench' = [bench EXCEPT !.pc = "run"]
      <4>1. bench' \in Bench /\ bench'.todo = bench.todo /\ bench'.chosen = bench.chosen
                /\ bench'.results = bench.results
        BY <3>4 DEF Bench, BenchSteps
      <4>. QED  BY <4>1
    <3>. QED  BY <3>2, <3>3, <3>4
  <2>4. runs' = runs /\ finished' \in [Targets -> 0 .. MaxRuns]
    BY <1>4 DEF Saved
  <2>. QED  BY <2>2, <2>3, <2>4
<1>5. CASE BenchCrash
  BY <1>5 DEF BenchCrash, BenchOver, Bench, BenchSteps
<1>6. ASSUME NEW track \in Tracks, Copy(track) PROVE WritersOK'
  <2>1. CopyOf(track) \in FileNames
    BY DEF Tracks
  <2>. QED  BY <1>6, <2>1 DEF Copy
<1>. QED  BY <1>1, <1>2, <1>3, <1>4, <1>5, <1>6 DEF WriterStep

LEMMA ReadersType == Typed /\ ReaderStep => ReadersOK'
<1>. SUFFICES ASSUME WritersOK, ReadersOK, ReaderStep PROVE ReadersOK'
  BY DEF Typed
<1>. USE Empty DEF ReadersOK
\* The step of one script leaves what it has seen and called, or forgets both.
<1>. DEFINE Moves(r) ==
       /\ reader' \in [Readers -> Reader] /\ calls' = calls
       /\ \A q \in Readers \ {r} : reader'[q] = reader[q]
       /\ reader'[r].seen \in {reader[r].seen, NoFiles} /\ reader'[r].call \in {reader[r].call, 0}
<1>kept. ASSUME NEW r \in Readers, Moves(r)
         PROVE  /\ reader' \in [Readers -> Reader] /\ calls' = calls
                /\ \A q \in Readers : reader'[q].call \in 0 .. calls
                /\ \A q \in Readers, f \in FileNames :
                     reader'[q].seen[f].state # "whole" => reader'[q].seen[f].data = Nothing
  <2>1. ASSUME NEW q \in Readers
        PROVE  reader'[q].seen \in {reader[q].seen, NoFiles} /\ reader'[q].call \in {reader[q].call, 0}
    BY <1>kept
  <2>2. ASSUME NEW q \in Readers PROVE reader'[q].call \in 0 .. calls
    <3>1. reader[q].call \in 0 .. calls /\ calls \in Nat
      BY BoundsAssumption
    <3>. QED  BY <2>1, <3>1
  <2>3. ASSUME NEW q \in Readers, NEW f \in FileNames, reader'[q].seen[f].state # "whole"
        PROVE  reader'[q].seen[f].data = Nothing
    BY <2>1, <2>3
  <2>. QED  BY <1>kept, <2>2, <2>3
<1>0. ASSUME NEW r \in Readers, Moves(r), csv' = csv, tables' = tables, charts' = charts PROVE ReadersOK'
  <2>. HIDE DEF Moves
  <2>. QED  BY <1>0, <1>kept
<1>1. ASSUME NEW r \in Readers, reader' = [reader EXCEPT ![r] = Ended] PROVE Moves(r) \/ calls' # calls
  BY <1>1, ReaderUpdates DEF Ended, Reader
<1>2. ASSUME NEW r \in Readers, NEW p \in ReaderSteps, reader' = [reader EXCEPT ![r].pc = p]
      PROVE  Moves(r) \/ calls' # calls
  <2>1. reader'[r] = [reader[r] EXCEPT !.pc = p] /\ reader[r] \in Reader
    BY <1>2
  <2>2. reader'[r].seen = reader[r].seen /\ reader'[r].call = reader[r].call
    BY <2>1 DEF Reader
  <2>. QED  BY <1>2, <2>2, ReaderUpdates
<1>3. ASSUME NEW r \in Readers, Done(r) PROVE Moves(r) \/ calls' # calls
  <2>1. [Ended EXCEPT !.pc = "done", !.seen = reader[r].seen] \in Reader
    BY DEF Ended, Reader, ReaderSteps
  <2>. QED  BY <1>3, <2>1 DEF Done, Ended, Reader
<1>4. ASSUME NEW r \in Readers, Glob(r) PROVE ReadersOK'
  <2>. DEFINE new == [pc |-> "reading", call |-> calls', left |-> FilesFound, merged |-> Nothing, seen |-> files]
  <2>0. calls' \in Nat /\ FilesFound \in SUBSET FileNames
    BY <1>4, BoundsAssumption DEF Glob, FilesFound
  <2>1. new \in Reader /\ new.call = calls' /\ new.seen = files
    BY <2>0 DEF Reader, ReaderSteps, WritersOK
  <2>2. reader' = [reader EXCEPT ![r] = new] /\ calls' = calls + 1 /\ calls' \in 0 .. MaxReports
    BY <1>4, BoundsAssumption DEF Glob
  <2>. HIDE DEF new
  <2>3. reader' \in [Readers -> Reader] /\ \A q \in Readers : reader'[q] = IF q = r THEN new ELSE reader[q]
    BY <2>1, <2>2
  <2>4. \A q \in Readers : reader'[q].call \in 0 .. calls'
    BY <2>1, <2>2, <2>3
  <2>5. \A q \in Readers, f \in FileNames : reader'[q].seen[f].state # "whole"
          => reader'[q].seen[f].data = Nothing
    BY <2>1, <2>3 DEF WritersOK
  <2>. QED  BY <1>4, <2>2, <2>3, <2>4, <2>5 DEF Glob
<1>5. ASSUME NEW r \in Readers, ReadFile(r) PROVE ReadersOK'
  <2>. DEFINE f == FirstOf(reader[r].left)
              merged == IF r = "make_report" THEN LoadResults(reader[r].merged, files[f].data)
                                             ELSE LoadAll(reader[r].merged, files[f].data)
  <2>1. reader' = [reader EXCEPT ![r] = Ended]
          \/ reader' = [reader EXCEPT ![r].left = @ \ {f}, ![r].merged = merged]
    BY <1>5 DEF ReadFile
  <2>2. UNCHANGED <<calls, csv, tables, charts>>
    BY <1>5 DEF ReadFile
  <2>3. f \in FileNames /\ reader[r].merged \in Data
    BY <1>5, FirstFacts DEF ReadFile, Reader
  <2>4. merged \in Data
    BY <2>3, ReplaceType DEF LoadResults, LoadAll, WritersOK, File
  <2>. HIDE DEF f, merged
  <2>5. CASE reader' = [reader EXCEPT ![r].left = @ \ {f}, ![r].merged = merged]
    <3>1. reader[r] \in Reader
      OBVIOUS
    <3>2. reader' = [reader EXCEPT ![r] = [reader[r] EXCEPT !.left = @ \ {f}, !.merged = merged]]
      BY <2>5
    <3>. DEFINE new == [reader[r] EXCEPT !.left = @ \ {f}, !.merged = merged]
    <3>3. new \in Reader /\ new.seen = reader[r].seen /\ new.call = reader[r].call
      BY <2>4, <3>1 DEF Reader
    <3>. HIDE DEF new
    <3>4. reader' \in [Readers -> Reader] /\ reader'[r] = new
            /\ \A q \in Readers \ {r} : reader'[q] = reader[q]
      BY <3>2, <3>3 DEF new
    <3>5. Moves(r)
      BY <2>2, <3>3, <3>4
    <3>. QED  BY <1>0, <2>2, <3>5
  <2>. QED  BY <1>0, <1>1, <2>1, <2>2, <2>5
<1>6. ASSUME NEW r \in Readers, NEW p \in ReaderSteps, Merged(r, p) PROVE ReadersOK'
  <2>1. \/ reader' = [reader EXCEPT ![r] = Ended]
        \/ reader' = [reader EXCEPT ![r].pc = p, ![r].seen = IF @ = files THEN @ ELSE NoFiles]
    BY <1>6 DEF Merged
  <2>2. UNCHANGED <<calls, csv, tables, charts>>
    BY <1>6 DEF Merged
  <2>3. CASE reader' = [reader EXCEPT ![r].pc = p, ![r].seen = IF @ = files THEN @ ELSE NoFiles]
    <3>. DEFINE kept == IF reader[r].seen = files THEN reader[r].seen ELSE NoFiles
                new == [reader[r] EXCEPT !.pc = p, !.seen = kept]
    <3>1. reader[r] \in Reader /\ kept \in [FileNames -> File] /\ kept \in {reader[r].seen, NoFiles}
      BY DEF Reader
    <3>2. reader' = [reader EXCEPT ![r] = new]
      BY <2>3
    <3>. HIDE DEF kept
    <3>3. new \in Reader /\ new.seen = kept /\ new.call = reader[r].call
      BY <3>1 DEF Reader
    <3>. HIDE DEF new
    <3>4. reader' \in [Readers -> Reader] /\ reader'[r] = new
            /\ \A q \in Readers \ {r} : reader'[q] = reader[q]
      BY <3>2, <3>3
    <3>5. Moves(r)
      BY <2>2, <3>1, <3>3, <3>4
    <3>. QED  BY <1>0, <2>2, <3>5
  <2>. QED  BY <1>0, <1>1, <2>1, <2>2, <2>3
<1>7. ASSUME NEW r \in Readers, Stops(r) PROVE ReadersOK'
  BY <1>0, <1>1, <1>7 DEF Stops
<1>8. CASE WriteCsv
  <2>1. "make_report" \in Readers /\ "loads" \in ReaderSteps
    BY DEF Readers, ReaderSteps
  <2>2. Moves("make_report") /\ UNCHANGED <<tables, charts>>
    BY <1>2, <1>8, <2>1 DEF WriteCsv, Step
  <2>3. csv'.of \in 0 .. calls /\ csv' \in [of : Nat, rows : Data]
    <3>1. CsvRows(reader["make_report"].merged) \in Data /\ reader["make_report"].call \in 0 .. calls
      BY <2>1, TablesType DEF Reader
    <3>2. reader["make_report"].call \in Nat
      BY <3>1, BoundsAssumption
    <3>. QED  BY <1>8, <3>1, <3>2 DEF WriteCsv
  <2>4. UNCHANGED <<tables, charts>>
    BY <2>2
  <2>. HIDE DEF Moves
  <2>. QED  BY <1>kept, <2>1, <2>2, <2>3, <2>4
<1>9. CASE ReadLoads
  BY <1>0, <1>2, <1>9 DEF ReadLoads, Step, Readers, ReaderSteps
<1>10. CASE WriteTables
  <2>1. "make_report" \in Readers
    BY DEF Readers
  <2>2. Moves("make_report") /\ UNCHANGED <<csv, charts>>
    BY <1>3, <1>10, <2>1 DEF WriteTables
  <2>3. tables'.of \in 0 .. calls /\ tables' \in [of : Nat, data : Data]
    <3>1. reader["make_report"].merged \in Data /\ reader["make_report"].call \in 0 .. calls
      BY <2>1 DEF Reader
    <3>2. reader["make_report"].call \in Nat
      BY <3>1, BoundsAssumption
    <3>. QED  BY <1>10, <3>1, <3>2 DEF WriteTables
  <2>4. UNCHANGED <<csv, charts>>
    BY <2>2
  <2>. HIDE DEF Moves
  <2>. QED  BY <1>kept, <2>1, <2>2, <2>3, <2>4
<1>11. ASSUME NEW track \in Tracks, NEW next \in ReaderSteps, DrawTrack(track, next) PROVE ReadersOK'
  <2>1. "make_charts" \in Readers
    BY DEF Readers
  <2>2. Moves("make_charts") /\ UNCHANGED <<csv, tables>>
    BY <1>2, <1>11, <2>1 DEF DrawTrack, Step
  <2>3. charts' \in [Tracks -> [latency : Data, mixed : Data]]
    <3>. DEFINE latency == Draw(charts[track].latency, LatencyTable(reader["make_charts"].merged, track))
                mixed == Draw(charts[track].mixed, ConcurrencyTable(reader["make_charts"].merged, track))
    <3>1. latency \in Data /\ mixed \in Data
      BY <2>1, TablesType DEF Reader, Draw
    <3>2. charts' = [charts EXCEPT ![track].latency = latency, ![track].mixed = mixed]
      BY <1>11 DEF DrawTrack
    <3>. HIDE DEF latency, mixed
    <3>. QED  BY <3>1, <3>2
  <2>4. UNCHANGED <<calls, csv, tables>>
    BY <2>2
  <2>. HIDE DEF Moves
  <2>. QED  BY <1>kept, <2>1, <2>2, <2>3, <2>4
<1>12. CASE ChartLoad
  BY <1>0, <1>3, <1>12 DEF ChartLoad, Readers
<1>13. {"csv", "lab", "cloud", "load_chart"} \subseteq ReaderSteps
         /\ {"make_report", "make_charts"} \subseteq Readers
       /\ {"lab", "cloud"} \subseteq Tracks
  BY DEF ReaderSteps, Readers, Tracks
<1>. QED  BY <1>4, <1>5, <1>6, <1>7, <1>8, <1>9, <1>10, <1>11, <1>12, <1>13 DEF ReaderStep

LEMMA TypeStep == Typed /\ [Next]_vars => Typed'
<1>. SUFFICES ASSUME Typed, [Next]_vars PROVE WritersOK' /\ ReadersOK'
  BY DEF Typed
<1>0. WritersOK /\ ReadersOK
  BY DEF Typed
<1>1. CASE WriterStep
  <2>1. WritersOK'
    BY <1>0, <1>1, WritersType
  <2>2. UNCHANGED <<calls, reader, csv, tables, charts>>
    BY <1>1, Sides DEF readers
  <2>. QED  BY <1>0, <2>1, <2>2 DEF ReadersOK
<1>2. CASE ReaderStep
  <2>1. ReadersOK'
    BY <1>2, ReadersType
  <2>2. UNCHANGED <<files, runs, bench, finished>>
    BY <1>2, Sides DEF writers
  <2>. QED  BY <1>0, <2>1, <2>2 DEF WritersOK
<1>3. CASE UNCHANGED vars
  BY <1>0, <1>3 DEF vars, WritersOK, ReadersOK
<1>. QED  BY <1>1, <1>2, <1>3, Sides

-----------------------------------------------------------------------------
(* The benchmark's file. *)

LEMMA StartEffect ==
  ASSUME Typed, BenchStart
  PROVE  /\ bench.pc = "idle" /\ bench'.pc = "run" /\ bench'.chosen # {} /\ bench'.results = Nothing
         /\ runs' = runs + 1 /\ files' = files
<1>1. PICK chosen \in (SUBSET Targets) \ {{}} :
        bench' = [pc |-> "run", chosen |-> chosen, todo |-> chosen, results |-> Nothing]
  BY DEF BenchStart
<1>2. chosen # {}
  BY <1>1
<1>. QED  BY <1>1, <1>2 DEF BenchStart

LEMMA MeasureEffect ==
  ASSUME Typed, NEW t \in Targets, NEW status \in Statuses, Measure(t, status)
  PROVE  /\ bench.pc = "run" /\ bench.results[t] = NoEntry /\ runs' = runs /\ bench'.chosen = bench.chosen
         /\ bench'.results[t] # NoEntry /\ bench'.results[t].run = runs
         /\ \A u \in Targets \ {t} : bench'.results[u] = bench.results[u]
         /\ \/ bench'.pc = "run" /\ files' = files
            \/ bench'.pc = "saving" /\ files' = [files EXCEPT !["results.json"] = Torn]
<1>. DEFINE e == [status |-> status, run |-> runs]
            p == IF status = "unconnected" THEN "run" ELSE "saving"
<1>1. bench \in Bench /\ bench.todo = {u \in bench.chosen : bench.results[u] = NoEntry}
  BY DEF Typed, WritersOK
<1>2. e # NoEntry /\ e.run = runs
  BY DEF NoEntry, Statuses
<1>3. bench.pc = "run" /\ t \in bench.todo /\ runs' = runs
      /\ bench' = [bench EXCEPT !.todo = @ \ {t}, !.results[t] = e, !.pc = p]
  BY DEF Measure
<1>4. \/ p = "run" /\ files' = files
      \/ p = "saving" /\ files' = [files EXCEPT !["results.json"] = Torn]
  BY DEF Measure, Truncate
<1>. HIDE DEF e, p
<1>5. bench'.pc = p /\ bench'.chosen = bench.chosen /\ bench'.results = [bench.results EXCEPT ![t] = e]
  BY <1>1, <1>3 DEF Bench
<1>6. bench.results \in [Targets -> [status : Statuses \cup {"absent"}, run : 0 .. MaxRuns]]
  BY <1>1 DEF Bench, Data
<1>. QED  BY <1>1, <1>2, <1>3, <1>4, <1>5, <1>6

LEMMA LastSaveEffect ==
  ASSUME Typed, LastSave
  PROVE  /\ bench.pc = "run" /\ \A t \in bench.chosen : t \in Targets /\ bench.results[t] # NoEntry
         /\ bench'.pc = "last_saving" /\ bench'.results = bench.results /\ bench'.chosen = bench.chosen
         /\ files' = [files EXCEPT !["results.json"] = Torn] /\ runs' = runs
BY DEF Typed, WritersOK, LastSave, Truncate, Bench

LEMMA SavedEffect ==
  ASSUME Typed, Saved
  PROVE  /\ Saving /\ files' = [files EXCEPT !["results.json"] = Whole(bench.results)] /\ runs' = runs
         /\ \/ bench' = BenchOver
            \/ bench'.pc = "run" /\ bench'.results = bench.results /\ bench'.chosen = bench.chosen
BY DEF Typed, WritersOK, Saved, Saving, Bench

LEMMA CrashEffect ==
  ASSUME Typed, BenchCrash
  PROVE  bench' = BenchOver /\ files' = files /\ runs' = runs
BY DEF BenchCrash

LEMMA CopyEffect ==
  ASSUME Typed, NEW track \in Tracks, Copy(track)
  PROVE  /\ Latest.state = "whole" /\ files' = [files EXCEPT ![CopyOf(track)] = Latest]
         /\ Latest' = Latest /\ \A t \in Holds(Latest.data) : Track[t] = track
         /\ bench' = bench /\ runs' = runs
BY Names DEF Copy, Latest, Typed, WritersOK, Tracks

LEMMA LatestTypes ==
  ASSUME Typed
  PROVE  /\ Latest \in File /\ Latest.data \in Data /\ bench.results \in Data /\ runs \in Nat
         /\ bench.pc \in BenchSteps /\ "results.json" \in FileNames
BY Names, BoundsAssumption DEF Typed, WritersOK, File, Bench, Latest

LEMMA Rewritten ==
  ASSUME Typed, NEW x, files' = [files EXCEPT !["results.json"] = x]
  PROVE  Latest' = x /\ \A f \in FileNames \ {"results.json"} : files'[f] = files[f]
BY Names DEF Typed, WritersOK, Latest

LEMMA WriterInit == Init => WriterInv
BY Names, Empty DEF Init, WriterInv, BenchOver, Latest, Saving

LEMMA WriterInvStep == Typed /\ WriterInv /\ FilesInv /\ WriterStep => WriterInv'
<1>. SUFFICES ASSUME Typed, WriterInv, FilesInv, WriterStep PROVE WriterInv'
  OBVIOUS
<1>. USE LatestTypes, Empty
<1>0. BenchOver.pc = "idle" /\ BenchOver.results = Nothing
  BY DEF BenchOver
<1>1. CASE BenchStart
  <2>1. Latest.state = "whole" => \A t \in Targets : Latest.data[t].run \in Nat /\ Latest.data[t].run <= runs
    <3>1. \A t \in Targets : Latest.data[t].run \in 0 .. MaxRuns
      BY Entries
    <3>2. Latest.state = "whole" => Known(Latest.data)
      BY DEF FilesInv, Latest
    <3>. QED  BY <3>1, <3>2, BoundsAssumption DEF Known
  <2>2. \A t \in Targets : bench'.results[t] = NoEntry
    BY <1>1, StartEffect
  <2>3. Latest' = Latest /\ ~Saving' /\ bench'.pc = "run" /\ bench'.chosen # {} /\ runs' = runs + 1
    BY <1>1, StartEffect DEF Latest, Saving
  <2>4. Latest.state = "whole" => \A t \in Targets : Latest.data[t].run < runs + 1
    BY <2>1
  <2>. QED  BY <2>2, <2>3, <2>4 DEF WriterInv
<1>2. ASSUME NEW t \in Targets, NEW status \in Statuses, Measure(t, status) PROVE WriterInv'
  <2>1. /\ bench.pc = "run" /\ bench.results[t] = NoEntry /\ runs' = runs /\ bench'.chosen = bench.chosen
        /\ bench'.results[t] # NoEntry /\ bench'.results[t].run = runs
        /\ \A u \in Targets \ {t} : bench'.results[u] = bench.results[u]
    BY <1>2, MeasureEffect
  <2>2. \/ bench'.pc = "run" /\ Latest' = Latest
        \/ bench'.pc = "saving" /\ Latest' = Torn
    BY <1>2, MeasureEffect, Rewritten DEF Latest
  <2>3. Saving' => Latest'.state = "torn" /\ Holds(bench'.results) # {}
    BY <2>1, <2>2 DEF Saving, Holds
  <2>4. \A u \in Targets : bench'.results[u] # NoEntry => bench'.results[u].run = runs'
    BY <2>1 DEF WriterInv
  <2>5. Latest.state = "whole" =>
          \/ \A u \in Targets : Latest.data[u].run < runs
          \/ \A u \in Targets : Latest.data[u] # NoEntry => Latest.data[u] = bench'.results[u]
    BY <2>1 DEF WriterInv
  <2>. QED  BY <2>1, <2>2, <2>3, <2>4, <2>5 DEF WriterInv
<1>3. CASE LastSave
  <2>1. /\ bench.pc = "run" /\ \A t \in bench.chosen : t \in Targets /\ bench.results[t] # NoEntry
        /\ bench'.pc = "last_saving" /\ bench'.results = bench.results /\ bench'.chosen = bench.chosen
        /\ Latest' = Torn /\ runs' = runs
    BY <1>3, LastSaveEffect, Rewritten
  <2>2. Holds(bench.results) # {}
    BY <2>1 DEF WriterInv, Holds
  <2>. QED  BY <2>1, <2>2 DEF WriterInv
<1>4. CASE Saved
  <2>1. /\ Latest' = Whole(bench.results) /\ runs' = runs
        /\ \/ bench' = BenchOver
           \/ bench'.pc = "run" /\ bench'.results = bench.results /\ bench'.chosen = bench.chosen
    BY <1>4, SavedEffect, Rewritten
  <2>2. Saving /\ bench.chosen # {}
    BY <1>4, SavedEffect DEF WriterInv, Saving
  <2>. QED  BY <1>0, <2>1, <2>2 DEF WriterInv, Saving
<1>5. CASE BenchCrash
  BY <1>0, <1>5, CrashEffect DEF WriterInv, Saving, Latest
<1>6. ASSUME NEW track \in Tracks, Copy(track) PROVE WriterInv'
  BY <1>6, CopyEffect DEF WriterInv, Saving
<1>. QED  BY <1>1, <1>2, <1>3, <1>4, <1>5, <1>6 DEF WriterStep

-----------------------------------------------------------------------------
(* Contents that do not come back. *)

\* A content that is gone stays away.
LEMMA GoneStep ==
  ASSUME Typed, WriterInv, WriterStep, NEW d \in Data, Holds(d) # {},
         \A t \in Targets : d[t].run <= runs, Gone(d)
  PROVE  Gone(d)'
<1>. USE LatestTypes, Empty
<1>0. BenchOver.pc = "idle" /\ BenchOver.results = Nothing
  BY DEF BenchOver
<1>1. CASE BenchStart
  <2>1. \A t \in Targets : d[t].run < runs + 1
    <3>1. \A t \in Targets : d[t].run \in 0 .. MaxRuns
      BY Entries
    <3>. QED  BY <3>1, BoundsAssumption
  <2>2. Latest' = Latest /\ runs' = runs + 1
    BY <1>1, StartEffect DEF Latest
  <2>. QED  BY <2>1, <2>2 DEF Gone
<1>2. ASSUME NEW t \in Targets, NEW status \in Statuses, Measure(t, status) PROVE Gone(d)'
  <2>1. /\ bench.pc = "run" /\ bench.results[t] = NoEntry /\ runs' = runs
        /\ \A u \in Targets \ {t} : bench'.results[u] = bench.results[u]
    BY <1>2, MeasureEffect
  <2>2. Latest' \in {Latest, Torn} /\ Torn # Whole(d)
    BY <1>2, MeasureEffect, Rewritten DEF Latest, Torn, Whole
  <2>. QED  BY <2>1, <2>2 DEF Gone
<1>3. CASE LastSave
  <2>1. bench.pc = "run" /\ bench'.results = bench.results /\ Latest' = Torn /\ runs' = runs
    BY <1>3, LastSaveEffect, Rewritten
  <2>2. Torn # Whole(d)
    BY DEF Torn, Whole
  <2>. QED  BY <2>1, <2>2 DEF Gone
<1>4. CASE Saved
  <2>1. /\ Latest' = Whole(bench.results) /\ runs' = runs /\ Saving
        /\ \/ bench' = BenchOver
           \/ bench'.pc = "run" /\ bench'.results = bench.results
    BY <1>4, SavedEffect, Rewritten
  <2>2. PICK u \in Targets : d[u] # NoEntry
    BY Entries DEF Holds
  <2>3. bench.results # d
    <3>1. CASE \A t \in Targets : d[t].run < runs
      <4>1. d[u].run # runs
        BY <2>2, <3>1, Entries, BoundsAssumption
      <4>. QED  BY <2>2, <4>1 DEF WriterInv
    <3>2. CASE \E t \in Targets : bench.results[t] # NoEntry /\ bench.results[t] # d[t]
      BY <3>2
    <3>. QED  BY <2>1, <3>1, <3>2 DEF Gone, Saving
  <2>4. Latest' # Whole(d)
    BY <2>1, <2>3
  <2>. QED  BY <1>0, <2>1, <2>4 DEF Gone, Saving
<1>5. CASE BenchCrash
  BY <1>0, <1>5, CrashEffect DEF Gone, Latest
<1>6. ASSUME NEW track \in Tracks, Copy(track) PROVE Gone(d)'
  BY <1>6, CopyEffect DEF Gone
<1>. QED  BY <1>1, <1>2, <1>3, <1>4, <1>5, <1>6 DEF WriterStep

\* A content the file has stays or is gone.
LEMMA CurrentStep ==
  ASSUME Typed, WriterInv, WriterStep, NEW d \in Data, Holds(d) # {},
         \A t \in Targets : d[t].run <= runs, Current(d)
  PROVE  Current(d)' \/ Gone(d)'
<1>. USE LatestTypes, Empty
<1>0. BenchOver.pc = "idle" /\ Torn # Whole(d)
  BY DEF BenchOver, Torn, Whole
<1>1. CASE BenchStart
  BY <1>1, StartEffect DEF Current, Saving, Latest
<1>2. ASSUME NEW t \in Targets, NEW status \in Statuses, Measure(t, status) PROVE Current(d)' \/ Gone(d)'
  <2>1. /\ bench.pc = "run" /\ bench.results[t] = NoEntry /\ runs' = runs
        /\ bench'.results[t] # NoEntry
    BY <1>2, MeasureEffect
  <2>2. Latest = Whole(d)
    BY <2>1 DEF Current, Saving
  <2>3. (\A u \in Targets : d[u].run < runs) \/ d[t] = NoEntry
    BY <2>1, <2>2 DEF WriterInv
  <2>4. Latest' \in {Latest, Torn}
    BY <1>2, MeasureEffect, Rewritten DEF Latest
  <2>. QED  BY <1>0, <2>1, <2>2, <2>3, <2>4 DEF Current, Gone
<1>3. CASE LastSave
  <2>1. bench.pc = "run" /\ bench'.pc = "last_saving" /\ bench'.results = bench.results
          /\ Latest' = Torn /\ runs' = runs
    BY <1>3, LastSaveEffect, Rewritten
  <2>2. Latest = Whole(d)
    BY <2>1 DEF Current, Saving
  <2>3. CASE bench.results = d
    BY <2>1, <2>3 DEF Current, Saving
  <2>4. CASE bench.results # d
    <3>1. PICK t \in Targets : bench.results[t] # d[t]
      BY <2>4, DataSame
    <3>2. (\A u \in Targets : d[u].run < runs) \/ bench.results[t] # NoEntry
      BY <2>1, <2>2, <3>1 DEF WriterInv
    <3>. QED  BY <1>0, <2>1, <3>1, <3>2 DEF Gone
  <2>. QED  BY <2>3, <2>4
<1>4. CASE Saved
  <2>1. Latest' = Whole(bench.results) /\ Saving
    BY <1>4, SavedEffect, Rewritten
  <2>2. Latest # Whole(d)
    BY <2>1 DEF WriterInv, Whole
  <2>. QED  BY <2>1, <2>2 DEF Current
<1>5. CASE BenchCrash
  BY <1>0, <1>5, CrashEffect DEF Current, Gone, Latest
<1>6. ASSUME NEW track \in Tracks, Copy(track) PROVE Current(d)' \/ Gone(d)'
  BY <1>6, CopyEffect DEF Current, Saving
<1>. QED  BY <1>1, <1>2, <1>3, <1>4, <1>5, <1>6 DEF WriterStep

LEMMA KnownStep ==
  ASSUME Typed, WriterInv, WriterStep, NEW d \in Data, Known(d)
  PROVE  Known(d)'
<1>. USE LatestTypes, Empty
<1>0. /\ Holds(d) # {} /\ \A t \in Targets : d[t].run <= runs /\ d[t].run \in Nat
      /\ Latest.state = "whole" =>
           \A t, u \in Targets : Latest.data[u] # NoEntry => d[t].run <= Latest.data[u].run
  <2>1. \A t \in Targets : d[t].run \in 0 .. MaxRuns
    BY Entries
  <2>. QED  BY <2>1, BoundsAssumption DEF Known
<1>1. Current(d)' \/ Gone(d)'
  BY <1>0, GoneStep, CurrentStep DEF Known
<1>2. runs' \in {runs, runs + 1}
  BY StartEffect, MeasureEffect, LastSaveEffect, SavedEffect, CrashEffect, CopyEffect DEF WriterStep
<1>3. \A t \in Targets : d[t].run <= runs'
  BY <1>0, <1>2
<1>4. Latest' \in {Latest, Torn, Whole(bench.results)}
  BY StartEffect, MeasureEffect, LastSaveEffect, SavedEffect, CrashEffect, CopyEffect, Rewritten
     DEF WriterStep, Latest
<1>5. Latest'.state = "whole" =>
        \A t, u \in Targets : Latest'.data[u] # NoEntry => d[t].run <= Latest'.data[u].run
  <2>1. CASE Latest' = Latest
    BY <1>0, <2>1
  <2>2. CASE Latest' = Torn
    BY <2>2
  <2>3. CASE Latest' = Whole(bench.results)
    BY <1>0, <2>3 DEF WriterInv
  <2>. QED  BY <1>4, <2>1, <2>2, <2>3
<1>. QED  BY <1>0, <1>1, <1>3, <1>5 DEF Known

\* What the benchmark writes is known from then on.
LEMMA SavedKnown ==
  ASSUME Typed, WriterInv, Saved, NEW d \in Data, d = bench.results
  PROVE  Known(d)'
<1>. USE LatestTypes, Empty
<1>1. Latest' = Whole(d) /\ runs' = runs /\ Saving
  BY SavedEffect, Rewritten
<1>2. \A t \in Targets : d[t] # NoEntry => d[t].run = runs
  BY DEF WriterInv
<1>3. \A t \in Targets : d[t].run <= runs /\ (d[t] = NoEntry => d[t].run = 0)
  BY <1>2 DEF NoEntry
<1>4. Holds(d) # {}
  BY <1>1 DEF WriterInv
<1>5. \A t, u \in Targets : d[u] # NoEntry => d[t].run <= d[u].run
  BY <1>2, <1>3
<1>. QED  BY <1>1, <1>3, <1>4, <1>5 DEF Known, Current

\* Only the benchmark's file and the copies change, a copy to what that file holds.
LEMMA FileEffect ==
  ASSUME Typed, WriterStep, NEW f \in FileNames
  PROVE  \/ files'[f] = files[f]
         \/ f = "results.json" /\ files'[f] = Torn
         \/ f = "results.json" /\ Saved /\ files'[f] = Whole(bench.results)
         \/ /\ f \in Copies /\ files'[f] = Latest /\ Latest' = Latest /\ Latest.state = "whole"
            /\ OfTrack(Latest.data, f) /\ UNCHANGED <<bench, runs>>
<1>1. CASE files' = files
  BY <1>1
<1>2. ASSUME NEW x, files' = [files EXCEPT !["results.json"] = x]
      PROVE  files'[f] = files[f] \/ (f = "results.json" /\ files'[f] = x)
  BY <1>2, Rewritten DEF Latest
<1>3. ASSUME NEW track \in Tracks, Copy(track)
      PROVE  \/ files'[f] = files[f]
             \/ /\ f \in Copies /\ files'[f] = Latest /\ Latest' = Latest /\ Latest.state = "whole"
                /\ OfTrack(Latest.data, f) /\ UNCHANGED <<bench, runs>>
  <2>1. CopyOf(track) \in Copies /\ CopyOf(track) \in FileNames
    BY Names DEF Copies, Tracks
  <2>2. OfTrack(Latest.data, CopyOf(track))
    <3>1. ASSUME NEW other \in Tracks, CopyOf(track) = CopyOf(other) PROVE track = other
      BY <3>1, Names DEF Tracks
    <3>. QED  BY <1>3, <3>1, CopyEffect DEF OfTrack
  <2>3. files' = [files EXCEPT ![CopyOf(track)] = Latest] /\ Latest' = Latest /\ Latest.state = "whole"
        /\ UNCHANGED <<bench, runs>>
    BY <1>3, CopyEffect
  <2>4. files'[f] = IF f = CopyOf(track) THEN Latest ELSE files[f]
    BY <2>1, <2>3 DEF Typed, WritersOK
  <2>. QED  BY <2>1, <2>2, <2>3, <2>4
<1>4. CASE BenchStart
  BY <1>1, <1>4, StartEffect
<1>5. ASSUME NEW t \in Targets, NEW status \in Statuses, Measure(t, status)
      PROVE  files'[f] = files[f] \/ (f = "results.json" /\ files'[f] = Torn)
  BY <1>1, <1>2, <1>5, MeasureEffect
<1>6. CASE LastSave
  BY <1>2, <1>6, LastSaveEffect
<1>7. CASE Saved
  BY <1>2, <1>7, SavedEffect
<1>8. CASE BenchCrash
  BY <1>1, <1>8, CrashEffect
<1>. QED  BY <1>3, <1>4, <1>5, <1>6, <1>7, <1>8 DEF WriterStep

LEMMA FilesInit == Init => FilesInv
BY Names, Empty DEF Init, FilesInv

LEMMA FilesStep == Typed /\ WriterInv /\ FilesInv /\ WriterStep => FilesInv'
<1>. SUFFICES ASSUME Typed, WriterInv, FilesInv, WriterStep PROVE FilesInv'
  OBVIOUS
<1>0. files' \in [FileNames -> File]
  BY WritersType DEF Typed, WritersOK
<1>. SUFFICES ASSUME NEW f \in FileNames, files'[f].state = "whole", NEW d \in Data, d = files'[f].data
              PROVE  Known(d)' /\ OfTrack(d, f)
  BY <1>0 DEF FilesInv, File
<1>. USE LatestTypes, Empty
<1>1. CASE files'[f] = files[f]
  BY <1>1, KnownStep DEF FilesInv
<1>2. CASE f = "results.json" /\ Saved /\ files'[f] = Whole(bench.results)
  <2>1. Known(d)'
    BY <1>2, SavedKnown
  <2>2. OfTrack(d, f)
    BY <1>2, Names DEF OfTrack, Tracks
  <2>. QED  BY <2>1, <2>2
<1>3. CASE /\ f \in Copies /\ files'[f] = Latest /\ Latest.state = "whole" /\ OfTrack(Latest.data, f)
  BY <1>3, KnownStep DEF FilesInv, Latest
<1>. QED  BY <1>1, <1>2, <1>3, FileEffect

\* A file that is past stays past, and one that is not keeps its content or becomes past.
LEMMA PastStep ==
  ASSUME Typed, WriterInv, WriterStep, NEW f \in FileNames, NEW d \in Data, Known(d)
  PROVE  /\ Past(f, d) => Past(f, d)'
         /\ f \in Copies /\ files[f] = Whole(d) => files'[f] = Whole(d) \/ Past(f, d)'
<1>. USE LatestTypes, Empty
<1>1. Known(d)' /\ (Gone(d) => Gone(d)')
  BY KnownStep, GoneStep DEF Known
<1>2. ASSUME Past(f, d) PROVE Past(f, d)'
  <2>1. Gone(d)' /\ files[f] # Whole(d)
    BY <1>1, <1>2 DEF Past
  <2>2. CASE f = "results.json"
    BY <2>1, <2>2 DEF Past, Gone, Latest
  <2>3. CASE files'[f] = files[f]
    BY <2>1, <2>3 DEF Past
  <2>4. CASE files'[f] = Latest /\ Latest' = Latest
    BY <2>1, <2>4 DEF Past, Gone
  <2>. QED  BY <2>2, <2>3, <2>4, FileEffect
<1>3. ASSUME f \in Copies, files[f] = Whole(d) PROVE files'[f] = Whole(d) \/ Past(f, d)'
  <2>1. CASE files'[f] = files[f]
    BY <1>3, <2>1
  <2>2. CASE /\ files'[f] = Latest /\ Latest' = Latest /\ Latest.state = "whole" /\ UNCHANGED <<bench, runs>>
    <3>1. CASE Latest = Whole(d)
      BY <2>2, <3>1
    <3>2. CASE Latest # Whole(d)
      <4>1. Gone(d)
        BY <2>2, <3>2 DEF Known, Current, WriterInv
      <4>. QED  BY <1>1, <2>2, <3>2, <4>1 DEF Past
    <3>. QED  BY <3>1, <3>2
  <2>3. f # "results.json"
    BY <1>3 DEF Copies
  <2>. QED  BY <2>1, <2>2, <2>3, FileEffect
<1>. QED  BY <1>2, <1>3

-----------------------------------------------------------------------------
(* The two scripts. *)

LEMMA GlobEffect ==
  ASSUME Typed, NEW r \in Readers, Glob(r)
  PROVE  /\ \A q \in Readers \ {r} : reader'[q] = reader[q]
         /\ reader'[r].pc = "reading" /\ reader'[r].call = calls + 1 /\ reader'[r].left = FilesFound
         /\ reader'[r].merged = Nothing /\ reader'[r].seen = files
         /\ \A q \in Readers : reader[q].pc \in {"idle", "done"}
         /\ calls' = calls + 1 /\ UNCHANGED <<csv, tables, charts>>
<1>1. reader' = [reader EXCEPT ![r] = [pc |-> "reading", call |-> calls', left |-> FilesFound,
                                       merged |-> Nothing, seen |-> files]]
  BY DEF Glob
<1>2. calls' = calls + 1 /\ UNCHANGED <<csv, tables, charts>>
        /\ \A q \in Readers : reader[q].pc \in {"idle", "done"}
  BY DEF Glob
<1>. QED  BY <1>1, <1>2 DEF Typed, ReadersOK

LEMMA ReadEffect ==
  ASSUME Typed, NEW r \in Readers, ReadFile(r), NEW f, f = FirstOf(reader[r].left)
  PROVE  /\ \A q \in Readers \ {r} : reader'[q] = reader[q]
         /\ reader[r].pc = "reading" /\ reader[r].left # {} /\ reader[r].left \in SUBSET FileNames
         /\ \/ reader'[r] = Ended
            \/ /\ files[f].state # "torn" /\ reader'[r].pc = "reading" /\ reader'[r].call = reader[r].call
               /\ reader'[r].left = reader[r].left \ {f} /\ reader'[r].seen = reader[r].seen
               /\ reader'[r].merged = Replace(reader[r].merged, files[f].data)
         /\ UNCHANGED <<calls, csv, tables, charts>>
<1>. DEFINE merged == Replace(reader[r].merged, files[f].data)
            new == [reader[r] EXCEPT !.left = @ \ {f}, !.merged = merged]
<1>1. reader \in [Readers -> Reader] /\ reader[r] \in Reader
  BY DEF Typed, ReadersOK
<1>2. \/ reader' = [reader EXCEPT ![r] = Ended]
      \/ files[f].state # "torn" /\ reader' = [reader EXCEPT ![r].left = @ \ {f}, ![r].merged = merged]
  BY DEF ReadFile, LoadResults, LoadAll
<1>3. \/ reader' = [reader EXCEPT ![r] = Ended]
      \/ files[f].state # "torn" /\ reader' = [reader EXCEPT ![r] = new]
  BY <1>2
<1>. HIDE DEF merged
<1>4. /\ new.pc = reader[r].pc /\ new.call = reader[r].call /\ new.left = reader[r].left \ {f}
      /\ new.seen = reader[r].seen /\ new.merged = merged
  BY <1>1 DEF Reader
<1>. HIDE DEF new
<1>5. \/ reader'[r] = Ended
      \/ files[f].state # "torn" /\ reader'[r] = new
  BY <1>1, <1>3
<1>6. \A q \in Readers \ {r} : reader'[q] = reader[q]
  BY <1>1, <1>3
<1>7. /\ reader[r].pc = "reading" /\ reader[r].left # {} /\ reader[r].left \in SUBSET FileNames
      /\ UNCHANGED <<calls, csv, tables, charts>>
  BY <1>1 DEF ReadFile, Reader
<1>. QED  BY <1>4, <1>5, <1>6, <1>7 DEF merged

LEMMA MergedEffect ==
  ASSUME Typed, NEW r \in Readers, NEW p, Merged(r, p)
  PROVE  /\ \A q \in Readers \ {r} : reader'[q] = reader[q]
         /\ reader[r].pc = "reading" /\ reader[r].left = {}
         /\ \/ reader'[r] = Ended
            \/ /\ reader'[r].pc = p /\ reader'[r].call = reader[r].call
               /\ reader'[r].left = reader[r].left /\ reader'[r].merged = reader[r].merged
               /\ reader'[r].seen = IF reader[r].seen = files THEN files ELSE NoFiles
         /\ UNCHANGED <<calls, csv, tables, charts>>
<1>. DEFINE kept == IF reader[r].seen = files THEN reader[r].seen ELSE NoFiles
            new == [reader[r] EXCEPT !.pc = p, !.seen = kept]
<1>1. reader \in [Readers -> Reader] /\ reader[r] \in Reader
  BY DEF Typed, ReadersOK
<1>2. \/ reader' = [reader EXCEPT ![r] = Ended]
      \/ reader' = [reader EXCEPT ![r] = new]
  BY DEF Merged
<1>. HIDE DEF kept
<1>4. /\ new.pc = p /\ new.call = reader[r].call /\ new.left = reader[r].left
      /\ new.seen = kept /\ new.merged = reader[r].merged
  BY <1>1 DEF Reader
<1>. HIDE DEF new
<1>5. reader'[r] = Ended \/ reader'[r] = new
  BY <1>1, <1>2
<1>6. \A q \in Readers \ {r} : reader'[q] = reader[q]
  BY <1>1, <1>2
<1>7. reader[r].pc = "reading" /\ reader[r].left = {} /\ UNCHANGED <<calls, csv, tables, charts>>
  BY DEF Merged
<1>. QED  BY <1>4, <1>5, <1>6, <1>7 DEF kept

LEMMA StepEffect ==
  ASSUME Typed, NEW r \in Readers, NEW from, NEW to, Step(r, from, to)
  PROVE  /\ \A q \in Readers \ {r} : reader'[q] = reader[q]
         /\ reader[r].pc = from /\ reader'[r].pc = to /\ reader'[r].call = reader[r].call
         /\ reader'[r].left = reader[r].left /\ reader'[r].merged = reader[r].merged
         /\ reader'[r].seen = reader[r].seen
<1>1. reader \in [Readers -> Reader] /\ reader[r] \in Reader
  BY DEF Typed, ReadersOK
<1>2. reader[r].pc = from /\ reader'[r] = [reader[r] EXCEPT !.pc = to]
      /\ \A q \in Readers \ {r} : reader'[q] = reader[q]
  BY <1>1 DEF Step
<1>. QED  BY <1>1, <1>2 DEF Reader

LEMMA DoneEffect ==
  ASSUME Typed, NEW r \in Readers, Done(r)
  PROVE  /\ \A q \in Readers \ {r} : reader'[q] = reader[q]
         /\ reader'[r].pc = "done" /\ reader'[r].seen = reader[r].seen
<1>1. reader \in [Readers -> Reader]
  BY DEF Typed, ReadersOK
<1>2. reader'[r] = [Ended EXCEPT !.pc = "done", !.seen = reader[r].seen]
      /\ \A q \in Readers \ {r} : reader'[q] = reader[q]
  BY <1>1 DEF Done
<1>. QED  BY <1>2 DEF Ended

LEMMA StopsEffect ==
  ASSUME Typed, NEW r \in Readers, Stops(r)
  PROVE  /\ \A q \in Readers \ {r} : reader'[q] = reader[q]
         /\ reader'[r] = Ended /\ reader[r].pc \notin {"idle", "done"} /\ UNCHANGED <<calls, csv, tables, charts>>
BY DEF Stops, Typed, ReadersOK

LEMMA EndedFacts == Ended.pc = "idle" /\ Ended.seen = NoFiles
BY DEF Ended

\* A script that does nothing keeps what is known of it.
LEMMA Unmoved ==
  ASSUME NEW r \in Readers, reader'[r] = reader[r], UNCHANGED writers
  PROVE  (SeenOf(r) => SeenOf(r)') /\ (ReadOf(r) => ReadOf(r)') /\ (MergedOf(r) => MergedOf(r)')
BY DEF SeenOf, ReadOf, MergedOf, MergedSteadily, writers, Known, Current, Gone, Past, Latest, Saving

LEMMA SameWriters ==
  ASSUME UNCHANGED writers, NEW d, NEW f
  PROVE  (Known(d) => Known(d)') /\ (Past(f, d) <=> Past(f, d)')
BY DEF writers, Known, Current, Gone, Past, Latest, Saving

LEMMA EndedHolds ==
  ASSUME NEW r \in Readers, reader'[r].pc \in {"idle", "done"}, reader'[r].seen = NoFiles
  PROVE  SeenOf(r)' /\ ReadOf(r)' /\ MergedOf(r)'
BY Empty DEF SeenOf, ReadOf, MergedOf, MergedSteadily

LEMMA SeenTypes ==
  ASSUME Typed, NEW r \in Readers, NEW f \in FileNames
  PROVE  /\ reader[r].seen[f] \in File /\ reader[r].seen[f].data \in Data
         /\ reader[r].seen[f].state = "whole" => reader[r].seen[f] = Whole(reader[r].seen[f].data)
         /\ reader[r].seen[f].state # "whole" => reader[r].seen[f].data = Nothing
         /\ files[f] \in File /\ files[f].data \in Data
         /\ files[f].state = "whole" => files[f] = Whole(files[f].data)
         /\ files[f].state # "whole" => files[f].data = Nothing
<1>1. reader[r].seen \in [FileNames -> File]
  BY DEF Typed, ReadersOK, Reader
<1>2. /\ reader[r].seen[f] \in File /\ files[f] \in File
      /\ reader[r].seen[f].state # "whole" => reader[r].seen[f].data = Nothing
      /\ files[f].state # "whole" => files[f].data = Nothing
  BY <1>1 DEF Typed, ReadersOK, WritersOK
<1>3. \A x \in File : x.data \in Data /\ (x.state = "whole" => x = Whole(x.data))
  BY DEF File, Whole
<1>. QED  BY <1>2, <1>3

LEMMA WriterKeepsReaders ==
  Typed /\ WriterInv /\ FilesInv /\ ReadersInv /\ WriterStep => ReadersInv'
<1>. SUFFICES ASSUME Typed, WriterInv, FilesInv, ReadersInv, WriterStep, NEW r \in Readers
              PROVE  SeenOf(r)' /\ ReadOf(r)' /\ MergedOf(r)'
  BY DEF ReadersInv
<1>0. UNCHANGED reader /\ SeenOf(r) /\ ReadOf(r) /\ MergedOf(r)
  BY Sides DEF readers, ReadersInv
<1>1. ASSUME NEW f \in FileNames, NEW s, s = reader[r].seen[f], s.state = "whole"
      PROVE  /\ Known(s.data)' /\ OfTrack(s.data, f)
             /\ f \in Copies => files'[f] = s \/ Past(f, s.data)'
             /\ Past(f, s.data) => Past(f, s.data)'
  <2>1. /\ Known(s.data) /\ OfTrack(s.data, f)
        /\ f \in Copies => files[f] = s \/ Past(f, s.data)
    BY <1>0, <1>1 DEF SeenOf
  <2>2. s = Whole(s.data) /\ s.data \in Data
    BY <1>1, SeenTypes
  <2>3. PICK d \in Data : d = s.data
    BY <2>2
  <2>4. Known(d)' /\ (Past(f, d) => Past(f, d)')
        /\ (f \in Copies /\ files[f] = Whole(d) => files'[f] = Whole(d) \/ Past(f, d)')
    BY <2>1, <2>3, KnownStep, PastStep
  <2>. QED  BY <2>1, <2>2, <2>3, <2>4
<1>2. SeenOf(r)'
  BY <1>0, <1>1 DEF SeenOf
<1>3. ReadOf(r)'
  <2>. SUFFICES ASSUME reader[r].pc = "reading" PROVE ReadOf(r)'
    BY <1>0 DEF ReadOf
  <2>1. ASSUME NEW f \in FileNames, reader[r].seen[f].state = "whole", Past(f, reader[r].seen[f].data)
        PROVE  Past(f, reader[r].seen[f].data)'
    <3>1. PICK s : s = reader[r].seen[f]
      OBVIOUS
    <3>2. Past(f, s.data)' /\ reader'[r].seen[f] = s
      BY <1>0, <1>1, <2>1, <3>1
    <3>. QED  BY <3>2
  <2>2. reader' = reader
    BY <1>0
  <2>. QED  BY <1>0, <2>1, <2>2 DEF ReadOf
<1>4. MergedOf(r)'
  BY <1>0 DEF MergedOf, MergedSteadily
<1>. QED  BY <1>2, <1>3, <1>4

\* A call begins with the files as they are.
LEMMA GlobKeeps ==
  ASSUME Typed, FilesInv, NEW r \in Readers, Glob(r)
  PROVE  SeenOf(r)' /\ ReadOf(r)' /\ MergedOf(r)'
<1>1. /\ reader'[r].pc = "reading" /\ reader'[r].left = FilesFound
      /\ reader'[r].merged = Nothing /\ reader'[r].seen = files
  BY GlobEffect
<1>2. UNCHANGED writers
  BY DEF Glob
<1>3. \A f \in FileNames : f \notin FilesFound <=> files[f].state = "absent"
  BY DEF FilesFound
<1>4. SeenOf(r)'
  <2>1. files' = files
    BY <1>2 DEF writers
  <2>2. ASSUME NEW f \in FileNames, files[f].state = "whole" PROVE Known(files[f].data)'
          /\ OfTrack(files[f].data, f)
    <3>1. PICK d : d = files[f].data
      OBVIOUS
    <3>2. Known(d)' /\ OfTrack(d, f)
      BY <1>2, <2>2, <3>1, SameWriters DEF FilesInv
    <3>. QED  BY <2>1, <3>1, <3>2
  <2>. QED  BY <1>1, <2>1, <2>2 DEF SeenOf
<1>5. Nothing = MergeOf(files, FilesFound)
  <2>1. \A f \in FileNames : f \notin FilesFound => files[f].data = Nothing
    BY <1>3, SeenTypes
  <2>. QED  BY <2>1, Empty, Names DEF MergeOf, Nothing
<1>6. ReadOf(r)'
  BY <1>1, <1>3, <1>5, Names DEF ReadOf, FilesFound
<1>7. MergedOf(r)'
  BY <1>1 DEF MergedOf, MergedSteadily
<1>. QED  BY <1>4, <1>6, <1>7

\* Reading one more file.
LEMMA ReadKeeps ==
  ASSUME Typed, WriterInv, FilesInv, NEW r \in Readers, SeenOf(r), ReadOf(r), MergedOf(r), ReadFile(r)
  PROVE  SeenOf(r)' /\ ReadOf(r)' /\ MergedOf(r)'
<1>. DEFINE f == FirstOf(reader[r].left)
            s == reader[r].seen
            left == reader[r].left
            merged == reader[r].merged
            D == files[f].data
<1>1. /\ reader[r].pc = "reading" /\ left # {} /\ left \in SUBSET FileNames
      /\ \/ reader'[r] = Ended
         \/ /\ files[f].state # "torn" /\ reader'[r].pc = "reading"
            /\ reader'[r].left = left \ {f} /\ reader'[r].seen = s
            /\ reader'[r].merged = Replace(merged, D)
  BY ReadEffect
<1>2. UNCHANGED writers
  BY DEF ReadFile
<1>3. CASE reader'[r] = Ended
  BY <1>3, EndedHolds, EndedFacts
<1>4. CASE /\ files[f].state # "torn" /\ reader'[r].pc = "reading"
           /\ reader'[r].left = left \ {f} /\ reader'[r].seen = s
           /\ reader'[r].merged = Replace(merged, D)
  <2>1. /\ f \in left /\ f \in FileNames
        /\ "results-cloud.json" \in left => f = "results-cloud.json"
        /\ f = "results.json" => left = {"results.json"}
    BY <1>1, FirstFacts
  <2>2. merged \in Data /\ D \in Data /\ (files[f].state # "whole" => D = Nothing)
    BY <2>1, SeenTypes DEF Typed, ReadersOK, Reader
  <2>3. \A t \in Targets : Replace(merged, D)[t] = IF D[t] # NoEntry THEN D[t] ELSE merged[t]
    BY <2>2, ReplaceType
  <2>4. /\ \A g \in left : s[g].state # "absent"
        /\ "results.json" \notin left /\ s["results.json"].state # "absent" => left = {}
        /\ "results-lab.json" \notin left /\ s["results-lab.json"].state # "absent" =>
             "results-cloud.json" \notin left
        /\ \A g \in FileNames : g \notin left /\ s[g].state = "whole" =>
             Past(g, s[g].data) \/ AtLeast(merged, s[g].data)
        /\ Clean(s) => \/ \E g \in FileNames : g \notin left /\ s[g].state = "whole" /\ Past(g, s[g].data)
                       \/ merged = MergeOf(s, left)
    BY <1>1 DEF ReadOf
  \* What is read is what was found, or that is past.
  <2>5. s[f].state = "whole" => s[f].data = D \/ Past(f, s[f].data)
    <3>. SUFFICES ASSUME s[f].state = "whole", s[f].data # D PROVE Past(f, s[f].data)
      OBVIOUS
    <3>1. files[f] # Whole(s[f].data)
      BY Empty
    <3>2. CASE f \in Copies
      BY <2>1, <3>1, <3>2, SeenTypes DEF SeenOf
    <3>3. CASE f = "results.json"
      <4>1. Current(s[f].data) \/ Gone(s[f].data)
        BY <2>1 DEF SeenOf, Known
      <4>2. ~Current(s[f].data)
        BY <1>4, <3>1, <3>3 DEF Current, WriterInv, Latest
      <4>. QED  BY <3>1, <4>1, <4>2 DEF Past
    <3>. QED  BY <2>1, <3>2, <3>3, Names DEF Copies
  <2>6. UNCHANGED <<files, bench, runs>> /\ \A g, d : Past(g, d)' <=> Past(g, d)
    BY <1>2 DEF writers, Past, Gone, Latest
  <2>7. SeenOf(r)'
    BY <1>2, <1>4, <2>6, SameWriters DEF SeenOf
  <2>8. MergedOf(r)'
    BY <1>4 DEF MergedOf, MergedSteadily
  <2>9. /\ \A g \in left \ {f} : s[g].state # "absent"
        /\ "results.json" \notin left \ {f} /\ s["results.json"].state # "absent" => left \ {f} = {}
        /\ "results-lab.json" \notin left \ {f} /\ s["results-lab.json"].state # "absent" =>
             "results-cloud.json" \notin left \ {f}
    BY <2>1, <2>4
  <2>10. ASSUME NEW g \in FileNames, g \notin left \ {f}, s[g].state = "whole"
         PROVE  Past(g, s[g].data) \/ AtLeast(Replace(merged, D), s[g].data)
    <3>. SUFFICES ASSUME ~Past(g, s[g].data), NEW t \in Targets
                  PROVE  Replace(merged, D)[t].run >= s[g].data[t].run
      BY DEF AtLeast
    <3>0. /\ s[g].data \in Data /\ merged[t].run \in Nat /\ D[t].run \in Nat /\ s[g].data[t].run \in Nat
          /\ NoEntry.run = 0
      <4>1. s[g].data \in Data
        BY <2>10, SeenTypes
      <4>2. merged[t].run \in 0 .. MaxRuns /\ D[t].run \in 0 .. MaxRuns /\ s[g].data[t].run \in 0 .. MaxRuns
        BY <2>2, <4>1, Entries
      <4>. QED  BY <4>1, <4>2, BoundsAssumption DEF NoEntry
    <3>1. CASE g = f
      BY <2>3, <2>5, <3>0, <3>1, <2>10
    <3>2. CASE g # f /\ D[t] = NoEntry
      BY <2>3, <2>4, <2>10, <3>0, <3>2 DEF AtLeast
    <3>3. CASE g # f /\ D[t] # NoEntry
      <4>1. files[f].state = "whole" /\ t \in Holds(D)
        BY <2>2, <3>3, Empty DEF Holds
      <4>2. s[g].data[t].run <= D[t].run
        <5>1. CASE f = "results.json"
          <6>1. Known(s[g].data)
            BY <2>10 DEF SeenOf
          <6>. QED  BY <3>3, <4>1, <5>1, <6>1 DEF Known, Latest
        <5>2. CASE f = "results-lab.json"
          <6>1. g = "results-cloud.json"
            BY <2>1, <2>4, <2>10, <3>3, <5>2, Names
          <6>2. Track[t] = "lab"
            BY <2>1, <4>1, <5>2, Names DEF FilesInv, OfTrack, Tracks
          <6>3. t \in Holds(s[g].data) => Track[t] = "cloud"
            BY <2>10, <6>1, Names DEF SeenOf, OfTrack, Tracks
          <6>4. s[g].data[t] = NoEntry
            BY <6>2, <6>3 DEF Holds
          <6>. QED  BY <3>0, <6>4
        <5>3. CASE f = "results-cloud.json"
          <6>1. FALSE
            BY <2>1, <2>4, <2>10, <3>3, <5>3, Names
          <6>. QED  BY <6>1
        <5>. QED  BY <2>1, <5>1, <5>2, <5>3, Names
      <4>. QED  BY <2>3, <3>3, <4>2
    <3>. QED  BY <3>1, <3>2, <3>3
  <2>11. ASSUME Clean(s)
         PROVE  \/ \E g \in FileNames : g \notin left \ {f} /\ s[g].state = "whole" /\ Past(g, s[g].data)
                \/ Replace(merged, D) = MergeOf(s, left \ {f})
    <3>1. s[f].state = "whole"
      <4>1. s[f] \in File
        BY <2>1, SeenTypes
      <4>. QED  BY <2>1, <2>4, <2>11, <4>1 DEF Clean, File
    <3>2. CASE Past(f, s[f].data)
      BY <2>1, <3>1, <3>2
    <3>3. CASE \E g \in FileNames : g \notin left /\ s[g].state = "whole" /\ Past(g, s[g].data)
      BY <3>3
    <3>4. CASE s[f].data = D /\ merged = MergeOf(s, left)
      \* Of the files behind it in file-name order none was read.
      <4>1. /\ f # "results.json" => "results.json" \in left \/ s["results.json"].data = Nothing
            /\ f = "results-cloud.json" =>
                 "results-lab.json" \in left \/ s["results-lab.json"].data = Nothing
        BY <2>1, <2>4, SeenTypes, Names
      <4>2. ASSUME NEW t \in Targets PROVE Replace(merged, D)[t] = MergeOf(s, left \ {f})[t]
        <5>. DEFINE Shows(g, L) == g \notin L /\ s[g].data[t] # NoEntry
        <5>0. \A L : MergeOf(s, L)[t] =
                IF Shows("results.json", L) THEN s["results.json"].data[t]
                ELSE IF Shows("results-lab.json", L) THEN s["results-lab.json"].data[t]
                ELSE IF Shows("results-cloud.json", L) THEN s["results-cloud.json"].data[t]
                ELSE NoEntry
          BY DEF MergeOf
        <5>4. Replace(merged, D)[t] = IF s[f].data[t] # NoEntry THEN s[f].data[t] ELSE MergeOf(s, left)[t]
          BY <2>3, <3>4
        <5>5. \A g : g # f => (Shows(g, left) <=> Shows(g, left \ {f}))
          OBVIOUS
        <5>6. ~Shows(f, left) /\ (Shows(f, left \ {f}) <=> s[f].data[t] # NoEntry)
          BY <2>1
        <5>7. /\ f # "results.json" => ~Shows("results.json", left)
              /\ f = "results-cloud.json" => ~Shows("results-lab.json", left)
          BY <4>1, Empty
        <5>. HIDE DEF Shows
        <5>1. CASE f = "results.json"
          BY <5>0, <5>1, <5>4, <5>5, <5>6
        <5>2. CASE f = "results-lab.json"
          BY <5>0, <5>2, <5>4, <5>5, <5>6, <5>7
        <5>3. CASE f = "results-cloud.json"
          BY <5>0, <5>3, <5>4, <5>5, <5>6, <5>7
        <5>. QED  BY <2>1, <5>1, <5>2, <5>3, Names
      <4>3. Replace(merged, D) = MergeOf(s, left \ {f})
        <5>1. DOMAIN Replace(merged, D) = Targets /\ DOMAIN MergeOf(s, left \ {f}) = Targets
          BY DEF Replace, MergeOf
        <5>. QED  BY <4>2, <5>1 DEF Replace, MergeOf
      <4>. QED  BY <4>3
    <3>. QED  BY <2>4, <2>5, <2>11, <3>1, <3>2, <3>3, <3>4
  <2>12. ReadOf(r)'
    BY <1>4, <2>6, <2>9, <2>10, <2>11 DEF ReadOf
  <2>. QED  BY <2>7, <2>8, <2>12
<1>. QED  BY <1>1, <1>3, <1>4

\* The files are all read.
LEMMA MergedKeeps ==
  ASSUME Typed, NEW r \in Readers, SeenOf(r), ReadOf(r), NEW p \in {"csv", "lab"}, Merged(r, p)
  PROVE  SeenOf(r)' /\ ReadOf(r)' /\ MergedOf(r)'
<1>. DEFINE s == reader[r].seen
            merged == reader[r].merged
<1>1. /\ reader[r].pc = "reading" /\ reader[r].left = {}
      /\ \/ reader'[r] = Ended
         \/ /\ reader'[r].pc = p /\ reader'[r].left = reader[r].left /\ reader'[r].merged = merged
            /\ reader'[r].seen = IF s = files THEN files ELSE NoFiles
  BY MergedEffect
<1>2. UNCHANGED writers
  BY DEF Merged
<1>3. CASE reader'[r] = Ended
  BY <1>3, EndedHolds, EndedFacts
<1>4. CASE reader'[r].pc = p /\ reader'[r].merged = merged /\ reader'[r].seen = NoFiles
  BY <1>4, Empty DEF SeenOf, ReadOf, MergedOf, MergedSteadily
<1>5. CASE reader'[r].pc = p /\ reader'[r].merged = merged /\ s = files /\ reader'[r].seen = s
  <2>1. SeenOf(r)'
    <3>1. ASSUME NEW f \in FileNames, s[f].state = "whole" PROVE Known(s[f].data)' /\ OfTrack(s[f].data, f)
      <4>1. PICK d : d = s[f].data
        OBVIOUS
      <4>2. Known(d)' /\ OfTrack(d, f)
        BY <1>2, <3>1, <4>1, SameWriters DEF SeenOf
      <4>. QED  BY <1>5, <4>1, <4>2
    <3>. QED  BY <1>2, <1>5, <3>1 DEF SeenOf, writers
  <2>2. ReadOf(r)'
    BY <1>5 DEF ReadOf
  <2>3. ASSUME NEW f \in FileNames PROVE ~(s[f].state = "whole" /\ Past(f, s[f].data))
    BY <1>5, <2>3, SeenTypes DEF Past
  <2>4. ASSUME NEW f \in FileNames PROVE AtLeast(merged, s[f].data)
    <3>1. CASE s[f].state = "whole"
      BY <1>1, <2>3, <3>1 DEF ReadOf
    <3>2. CASE s[f].state # "whole"
      <4>1. \A t \in Targets : s[f].data[t].run = 0
        BY <3>2, SeenTypes, Empty DEF NoEntry
      <4>2. \A t \in Targets : merged[t].run \in 0 .. MaxRuns
        BY Entries DEF Typed, ReadersOK, Reader
      <4>. QED  BY <4>1, <4>2, BoundsAssumption DEF AtLeast
    <3>. QED  BY <3>1, <3>2
  <2>5. Clean(s) => merged = MergeOf(s, {})
    BY <1>1, <2>3 DEF ReadOf
  <2>6. MergedOf(r)'
    BY <1>5, <2>4, <2>5 DEF MergedOf, MergedSteadily
  <2>. QED  BY <2>1, <2>2, <2>6
<1>. QED  BY <1>1, <1>3, <1>4, <1>5

Writing == {"csv", "loads", "tables", "lab", "cloud", "load_chart"}

\* Writing what was merged.
LEMMA StepKeeps ==
  ASSUME Typed, UNCHANGED writers, NEW r \in Readers, SeenOf(r), MergedOf(r),
         \/ \E from, to \in Writing : Step(r, from, to)
         \/ Done(r)
  PROVE  SeenOf(r)' /\ ReadOf(r)' /\ MergedOf(r)'
<1>1. /\ reader'[r].seen = reader[r].seen
      /\ \/ reader'[r].pc = "done"
         \/ reader[r].pc \in Writing /\ reader'[r].pc \in Writing /\ reader'[r].merged = reader[r].merged
  BY StepEffect, DoneEffect
<1>2. SeenOf(r)'
  <2>1. ASSUME NEW f \in FileNames, NEW s, s = reader[r].seen[f], s.state = "whole"
        PROVE  /\ Known(s.data)' /\ OfTrack(s.data, f)
               /\ f \in Copies => files'[f] = s \/ Past(f, s.data)'
    <3>1. PICK d : d = s.data
      OBVIOUS
    <3>2. Known(d)' /\ OfTrack(d, f) /\ (f \in Copies => files[f] = s \/ Past(f, d)')
      BY <2>1, <3>1, SameWriters DEF SeenOf
    <3>. QED  BY <3>1, <3>2 DEF writers
  <2>. QED  BY <1>1, <2>1 DEF SeenOf
<1>3. ReadOf(r)'
  BY <1>1 DEF ReadOf, Writing
<1>4. MergedOf(r)'
  <2>1. CASE reader'[r].pc = "done"
    BY <2>1 DEF MergedOf, MergedSteadily
  <2>2. CASE reader[r].pc \in Writing /\ reader'[r].pc \in Writing /\ reader'[r].merged = reader[r].merged
    BY <1>1, <2>2 DEF MergedOf, MergedSteadily, Writing
  <2>. QED  BY <1>1, <2>1, <2>2
<1>. QED  BY <1>2, <1>3, <1>4

\* Which script a step is of, and what it is.
StepOf(r) ==
  \/ Glob(r) \/ ReadFile(r) \/ Stops(r) \/ (\E p \in {"csv", "lab"} : Merged(r, p))
  \/ (\E from, to \in Writing : Step(r, from, to)) \/ Done(r)

LEMMA StepOfOne == ReaderStep => \E r \in Readers : StepOf(r)
BY DEF ReaderStep, StepOf, WriteCsv, ReadLoads, WriteTables, DrawTrack, ChartLoad, Readers, Writing

LEMMA OthersStay ==
  ASSUME Typed, NEW r \in Readers, StepOf(r)
  PROVE  \A q \in Readers \ {r} : reader'[q] = reader[q]
<1>1. PICK f : f = FirstOf(reader[r].left)
  OBVIOUS
<1>. QED  BY <1>1, GlobEffect, ReadEffect, MergedEffect, StepEffect, DoneEffect, StopsEffect DEF StepOf

LEMMA ReaderKeepsReaders ==
  Typed /\ WriterInv /\ FilesInv /\ ReadersInv /\ ReaderStep => ReadersInv'
<1>. SUFFICES ASSUME Typed, WriterInv, FilesInv, ReadersInv, ReaderStep, NEW q \in Readers
              PROVE  SeenOf(q)' /\ ReadOf(q)' /\ MergedOf(q)'
  BY DEF ReadersInv
<1>0. SeenOf(q) /\ ReadOf(q) /\ MergedOf(q) /\ UNCHANGED writers
  BY Sides DEF ReadersInv
<1>1. PICK r \in Readers : StepOf(r)
  BY StepOfOne
<1>2. CASE q # r
  BY <1>0, <1>1, <1>2, OthersStay, Unmoved
<1>3. CASE q = r
  <2>1. CASE Glob(q)
    BY <2>1, GlobKeeps
  <2>2. CASE ReadFile(q)
    BY <1>0, <2>2, ReadKeeps
  <2>3. CASE Stops(q)
    BY <2>3, StopsEffect, EndedHolds, EndedFacts
  <2>4. CASE \E p \in {"csv", "lab"} : Merged(q, p)
    BY <1>0, <2>4, MergedKeeps
  <2>5. CASE (\E from, to \in Writing : Step(q, from, to)) \/ Done(q)
    BY <1>0, <2>5, StepKeeps
  <2>. QED  BY <1>1, <1>3, <2>1, <2>2, <2>3, <2>4, <2>5 DEF StepOf
<1>. QED  BY <1>2, <1>3

LEMMA ReadersInit == Init => ReadersInv
<1>. SUFFICES ASSUME Init, NEW r \in Readers PROVE SeenOf(r) /\ ReadOf(r) /\ MergedOf(r)
  BY DEF ReadersInv
<1>1. reader[r] = Ended
  BY DEF Init
<1>. QED  BY <1>1, EndedFacts, Empty DEF SeenOf, ReadOf, MergedOf, MergedSteadily

-----------------------------------------------------------------------------
(* What is written. *)

\* Reading, or stopping, writes nothing.
Quiet ==
  \E r \in Readers : Glob(r) \/ ReadFile(r) \/ Stops(r) \/ (\E p \in {"csv", "lab"} : Merged(r, p))

LEMMA QuietEffect ==
  ASSUME Typed, Quiet
  PROVE  /\ UNCHANGED <<csv, tables, charts>>
         /\ \A r \in Readers : reader'[r] = reader[r] \/ reader'[r].pc \in {"idle", "reading", "csv", "lab"}
<1>1. PICK r \in Readers : Glob(r) \/ ReadFile(r) \/ Stops(r) \/ (\E p \in {"csv", "lab"} : Merged(r, p))
  BY DEF Quiet
<1>2. PICK f : f = FirstOf(reader[r].left)
  OBVIOUS
<1>. QED  BY <1>1, <1>2, GlobEffect, ReadEffect, MergedEffect, StopsEffect, EndedFacts

LEMMA Written ==
  ReaderStep => \/ Quiet \/ WriteCsv \/ ReadLoads \/ WriteTables
                \/ DrawTrack("lab", "cloud") \/ DrawTrack("cloud", "load_chart") \/ ChartLoad
BY DEF ReaderStep, Quiet, Readers

LEMMA Both == {"make_report", "make_charts"} = Readers /\ "make_report" # "make_charts"
BY DEF Readers

LEMMA Drawn ==
  ASSUME Typed, NEW track \in Tracks, NEW next, DrawTrack(track, next)
  PROVE  /\ Shown(track, reader["make_charts"].merged)'
         /\ \A other \in Tracks \ {track} : charts'[other] = charts[other]
         /\ Step("make_charts", track, next) /\ UNCHANGED <<csv, tables>>
<1>. DEFINE merged == reader["make_charts"].merged
            latency == LatencyTable(merged, track)
            mixed == ConcurrencyTable(merged, track)
            new == [latency |-> Draw(charts[track].latency, latency), mixed |-> Draw(charts[track].mixed, mixed)]
<1>1. charts \in [Tracks -> [latency : Data, mixed : Data]]
  BY DEF Typed, ReadersOK
<1>2. charts' = [charts EXCEPT ![track].latency = Draw(@, latency), ![track].mixed = Draw(@, mixed)]
  BY DEF DrawTrack
<1>. HIDE DEF latency, mixed
<1>3. charts'[track].latency = Draw(charts[track].latency, latency)
      /\ charts'[track].mixed = Draw(charts[track].mixed, mixed)
      /\ \A other \in Tracks \ {track} : charts'[other] = charts[other]
  BY <1>1, <1>2
<1>4. reader'["make_charts"].merged = merged
  BY Both, StepEffect DEF DrawTrack
<1>5. Shown(track, merged)'
  BY <1>3, <1>4 DEF Shown, Draw, latency, mixed
<1>. QED  BY <1>3, <1>5 DEF DrawTrack

LEMMA ShownInit == Init => ShownInv
BY Both, EndedFacts DEF Init, ShownInv

LEMMA ShownStep == Typed /\ ReadersInv /\ ShownInv /\ ReaderStep => ShownInv'
<1>. SUFFICES ASSUME Typed, ReadersInv, ShownInv, ReaderStep PROVE ShownInv'
  OBVIOUS
<1>. USE Both
<1>. DEFINE report == reader["make_report"]
            chart == reader["make_charts"]
<1>0. /\ MergedSteadily("make_report") /\ Clean(report.seen) => report.merged = MergeOf(report.seen, {})
      /\ MergedSteadily("make_charts") /\ Clean(chart.seen) => chart.merged = MergeOf(chart.seen, {})
  BY DEF ReadersInv, MergedOf
<1>1. CASE Quiet
  BY <1>1, QuietEffect DEF ShownInv, Shown
<1>2. CASE WriteCsv \/ ReadLoads
  <2>1. report'.pc \in {"loads", "tables"} /\ chart' = chart /\ UNCHANGED charts
    BY <1>2, StepEffect DEF WriteCsv, ReadLoads
  <2>. QED  BY <2>1 DEF ShownInv, Shown
<1>3. CASE WriteTables
  <2>1. /\ report.pc = "tables" /\ report'.seen = report.seen /\ tables'.data = report.merged
        /\ chart' = chart /\ UNCHANGED charts
    BY <1>3, DoneEffect DEF WriteTables
  <2>2. report.seen # NoFiles /\ Clean(report.seen) => tables'.data = MergeOf(report.seen, {})
    BY <1>0, <2>1 DEF MergedSteadily
  <2>. QED  BY <2>1, <2>2 DEF ShownInv, Shown
<1>4. ASSUME NEW track \in Tracks, NEW next \in {"cloud", "load_chart"}, DrawTrack(track, next),
             track \in {"lab", "cloud"}, next = "cloud" <=> track = "lab"
      PROVE  ShownInv'
  <2>1. /\ chart.pc = track /\ chart'.pc = next /\ chart'.seen = chart.seen /\ chart'.merged = chart.merged
        /\ report' = report /\ UNCHANGED tables
        /\ Shown(track, chart.merged)' /\ \A other \in Tracks \ {track} : charts'[other] = charts[other]
    BY <1>4, Drawn, StepEffect
  <2>2. chart.seen # NoFiles /\ Clean(chart.seen) => chart.merged = MergeOf(chart.seen, {})
    BY <1>0, <2>1 DEF MergedSteadily, Tracks
  <2>3. ASSUME chart.seen # NoFiles, Clean(chart.seen) PROVE Shown(track, MergeOf(chart.seen, {}))'
    BY <2>1, <2>2, <2>3
  <2>4. ASSUME chart.seen # NoFiles, Clean(chart.seen), next = "load_chart"
        PROVE  Shown("lab", MergeOf(chart.seen, {}))'
    <3>1. Shown("lab", MergeOf(chart.seen, {})) /\ charts'["lab"] = charts["lab"]
      BY <1>4, <2>1, <2>4 DEF ShownInv, Tracks
    <3>. QED  BY <2>1, <3>1 DEF Shown
  <2>. QED  BY <1>4, <2>1, <2>3, <2>4 DEF ShownInv
<1>5. CASE ChartLoad
  <2>1. /\ chart.pc = "load_chart" /\ chart'.seen = chart.seen
        /\ report' = report /\ UNCHANGED <<tables, charts>>
    BY <1>5, DoneEffect DEF ChartLoad
  <2>. QED  BY <2>1 DEF ShownInv, Shown
<1>6. "lab" \in Tracks /\ "cloud" \in Tracks
  BY DEF Tracks
<1>. QED  BY <1>1, <1>2, <1>3, <1>4, <1>5, <1>6, Written

LEMMA CsvInit == Init => CsvInv
<1>1. Holds(CsvRows(Nothing)) = {} /\ CsvRows(Nothing) = Nothing
  BY Empty DEF CsvRows, Only, Holds, Nothing
<1>. QED  BY <1>1, Both, EndedFacts DEF Init, CsvInv, CsvNotBehind

LEMMA CsvStep == Typed /\ CsvInv /\ ReaderStep => CsvInv'
<1>. SUFFICES ASSUME Typed, CsvInv, ReaderStep PROVE CsvInv'
  OBVIOUS
<1>. USE Both
<1>. DEFINE report == reader["make_report"]
            rows == CsvRows(report.merged)
<1>0. csv.of \in Nat /\ tables.of \in Nat /\ calls \in Nat /\ csv.of <= calls /\ tables.of <= calls
        /\ report.call \in Nat
  BY BoundsAssumption DEF Typed, ReadersOK, Reader
<1>1. CASE report' = report /\ UNCHANGED <<csv, tables>>
  BY <1>1 DEF CsvInv, CsvNotBehind
<1>2. CASE Quiet /\ report' # report
  <2>1. PICK r \in Readers : Glob(r) \/ ReadFile(r) \/ Stops(r) \/ (\E p \in {"csv", "lab"} : Merged(r, p))
    BY <1>2 DEF Quiet
  <2>2. StepOf(r)
    BY <2>1 DEF StepOf
  <2>3. r = "make_report"
    BY <1>2, <2>2, OthersStay
  <2>4. UNCHANGED <<csv, tables>>
    BY <1>2, QuietEffect
  <2>5. CASE Glob(r)
    BY <1>0, <2>3, <2>4, <2>5, GlobEffect DEF CsvInv, CsvNotBehind
  <2>6. CASE ReadFile(r)
    <3>1. PICK f : f = FirstOf(reader[r].left)
      OBVIOUS
    <3>2. reader'[r] = Ended \/ (reader'[r].pc = "reading" /\ reader'[r].call = reader[r].call)
      BY <2>6, <3>1, ReadEffect
    <3>3. reader[r].pc = "reading"
      BY <2>6, <3>1, ReadEffect
    <3>. QED  BY <2>3, <2>4, <3>2, <3>3, EndedFacts DEF CsvInv, CsvNotBehind
  <2>7. CASE Stops(r)
    BY <2>3, <2>4, <2>7, StopsEffect, EndedFacts DEF CsvInv, CsvNotBehind
  <2>8. CASE \E p \in {"csv", "lab"} : Merged(r, p)
    <3>1. reader[r].pc = "reading"
          /\ (reader'[r] = Ended \/ (reader'[r].pc \in {"csv", "lab"} /\ reader'[r].call = reader[r].call))
      BY <2>8, MergedEffect
    <3>. QED  BY <2>3, <2>4, <3>1, EndedFacts DEF CsvInv, CsvNotBehind
  <2>. QED  BY <2>1, <2>5, <2>6, <2>7, <2>8
<1>3. CASE WriteCsv
  <2>1. /\ report.pc = "csv" /\ report'.pc = "loads" /\ report'.call = report.call /\ report'.merged = report.merged
        /\ tables' = tables
        /\ csv' = IF Holds(rows) # {} THEN [of |-> report.call, rows |-> rows] ELSE csv
    BY <1>3, StepEffect DEF WriteCsv
  <2>2. tables.of < report.call /\ csv.of < report.call /\ CsvNotBehind
    BY <2>1 DEF CsvInv
  <2>3. CsvNotBehind'
    BY <1>0, <2>1, <2>2 DEF CsvNotBehind
  <2>. QED  BY <2>1, <2>2, <2>3 DEF CsvInv
<1>4. CASE ReadLoads
  BY <1>4, StepEffect DEF ReadLoads, CsvInv, CsvNotBehind
<1>5. CASE WriteTables
  <2>1. /\ report.pc = "tables" /\ report'.pc = "done" /\ csv' = csv
        /\ tables' = [of |-> report.call, data |-> report.merged]
    BY <1>5, DoneEffect DEF WriteTables
  <2>2. IF Holds(rows) # {} THEN csv = [of |-> report.call, rows |-> rows] ELSE csv.of < report.call
    BY <2>1 DEF CsvInv
  <2>3. CsvNotBehind'
    BY <1>0, <2>1, <2>2 DEF CsvNotBehind
  <2>. QED  BY <2>1, <2>3 DEF CsvInv
<1>6. CASE DrawTrack("lab", "cloud") \/ DrawTrack("cloud", "load_chart") \/ ChartLoad
  BY <1>1, <1>6, StepEffect, DoneEffect DEF DrawTrack, ChartLoad
<1>7. CASE Quiet
  BY <1>1, <1>2, <1>7, QuietEffect
<1>. QED  BY <1>3, <1>4, <1>5, <1>6, <1>7, Written

-----------------------------------------------------------------------------
(* The theorems. *)

LEMMA Inductive == Spec => []IInv
<1>1. Init => IInv
  BY TypeInit, WriterInit, FilesInit, ReadersInit, ShownInit, CsvInit DEF IInv
<1>2. IInv /\ [Next]_vars => IInv'
  <2>. SUFFICES ASSUME IInv, [Next]_vars PROVE IInv'
    OBVIOUS
  <2>0. Typed'
    BY TypeStep DEF IInv
  <2>1. CASE WriterStep
    <3>1. WriterInv' /\ FilesInv' /\ ReadersInv'
      BY <2>1, WriterInvStep, FilesStep, WriterKeepsReaders DEF IInv
    <3>2. ShownInv' /\ CsvInv'
      BY <2>1, Sides DEF IInv, readers, ShownInv, Shown, CsvInv, CsvNotBehind
    <3>. QED  BY <2>0, <3>1, <3>2 DEF IInv
  <2>2. CASE ReaderStep
    <3>1. ReadersInv' /\ ShownInv' /\ CsvInv'
      BY <2>2, ReaderKeepsReaders, ShownStep, CsvStep DEF IInv
    <3>2. WriterInv' /\ FilesInv'
      BY <2>2, Sides DEF IInv, writers, WriterInv, FilesInv, Latest, Saving, Known, Current, Gone
    <3>. QED  BY <2>0, <3>1, <3>2 DEF IInv
  <2>3. CASE UNCHANGED vars
    <3>1. WriterInv' /\ FilesInv'
      BY <2>3 DEF IInv, vars, WriterInv, FilesInv, Latest, Saving, Known, Current, Gone
    <3>2. ReadersInv'
      <4>. SUFFICES ASSUME NEW r \in Readers PROVE SeenOf(r)' /\ ReadOf(r)' /\ MergedOf(r)'
        BY DEF ReadersInv
      <4>. QED  BY <2>3, Unmoved DEF IInv, ReadersInv, vars, writers
    <3>3. ShownInv' /\ CsvInv'
      BY <2>3 DEF IInv, vars, ShownInv, Shown, CsvInv, CsvNotBehind
    <3>. QED  BY <2>0, <3>1, <3>2, <3>3 DEF IInv
  <2>. QED  BY <2>1, <2>2, <2>3, Sides
<1>. QED  BY <1>1, <1>2, PTL DEF Spec

\* The variables keep their types.
THEOREM TypeCorrect == Spec => []TypeOK
<1>1. IInv => TypeOK
  BY TypedTypes DEF IInv
<1>. QED  BY <1>1, Inductive, PTL

\* A script that ran while no file changed shows the newest entry there is of every
\* database, whatever benchmarks, crashes and copies there were: a content of the
\* benchmark's file never comes back once it is replaced, so that files which are as they
\* were found were so all the time.
THEOREM Newest == Spec => []NewestShown
<1>1. IInv => NewestShown
  BY DEF IInv, ReadersInv, MergedOf, NewestShown, AtLeast, Typed, ReadersOK, Reader
<1>. QED  BY <1>1, Inductive, PTL

\* results.csv is never behind tables.md.
THEOREM CsvKept == Spec => []CsvNotBehind
<1>1. IInv => CsvNotBehind
  BY DEF IInv, CsvInv
<1>. QED  BY <1>1, Inductive, PTL

\* Tables and charts made of the same files show the same entries.
THEOREM ChartsMatch == Spec => []ChartsMatchTables
<1>1. IInv => ChartsMatchTables
  <2>. SUFFICES ASSUME IInv, SameFiles, NEW track \in Tracks PROVE Shown(track, tables.data)
    BY DEF ChartsMatchTables, Shown
  <2>. DEFINE s == reader["make_charts"].seen
  <2>1. /\ reader["make_report"].pc = "done" /\ reader["make_charts"].pc = "done"
        /\ reader["make_report"].seen = s /\ s # NoFiles
    BY Both DEF SameFiles
  <2>2. Clean(s)
    BY <2>1 DEF SameFiles, Clean, IInv, Typed, WritersOK
  <2>3. tables.data = MergeOf(s, {})
    BY <2>1, <2>2 DEF IInv, ShownInv
  <2>4. Shown("lab", MergeOf(s, {})) /\ Shown("cloud", MergeOf(s, {}))
    BY <2>1, <2>2 DEF IInv, ShownInv
  <2>. QED  BY <2>3, <2>4 DEF Tracks
<1>. QED  BY <1>1, Inductive, PTL
=============================================================================
