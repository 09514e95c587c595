------------------------------- MODULE Report -------------------------------
(***************************************************************************)
(* Publication: scripts/make_report.py and scripts/make_charts.py, which   *)
(* merge the results files they find and write results.csv, tables.md and  *)
(* the charts, while run_benchmark.py rewrites results.json.               *)
(*                                                                         *)
(* Abstracted: an entry is the run it is of and how far its target came.   *)
(* BenchRun opens the benchmark, which is here only what its file shows.   *)
(* results-lab.json and results-cloud.json are copies of results.json made *)
(* by hand, of runs over that track only.  The two scripts are called one  *)
(* after the other, while a benchmark may be running.  Each output file,   *)
(* and the three charts of a track, are written in one step.  What         *)
(* load_results.json holds is left out: read half-written it stops the     *)
(* script that reads it, as Ctrl-C may anywhere.                           *)
(***************************************************************************)
EXTENDS Integers, Sequences, FiniteSets, Functions

CONSTANTS
  Targets,     \* the configured databases
  Track,       \* Track[t]: "lab" or "cloud"
  MaxRuns,     \* bound: invocations of run_benchmark.py
  MaxReports   \* bound: invocations of make_report.py and make_charts.py

Tracks == {"lab", "cloud"}

ASSUME TrackAssumption == Track \in [Targets -> Tracks]
ASSUME BoundsAssumption == {MaxRuns, MaxReports} \subseteq Nat

VARIABLES
  files,     \* the results files
  runs,      \* how many times run_benchmark.py was started
  bench,     \* where it is, its targets, those still to measure, its dictionary
  finished,  \* finished[t]: the last run over t that came to its end (history)
  calls,     \* how many times one of the two scripts was started
  reader,    \* the two scripts: where each is, files to read, what it has merged
  csv,       \* results.csv
  tables,    \* tables.md
  charts     \* the charts of each track

vars == <<files, runs, bench, finished, calls, reader, csv, tables, charts>>

Readers == {"make_report", "make_charts"}

\* In file-name order: "-" comes before ".".
Sorted == <<"results-cloud.json", "results-lab.json", "results.json">>
FileNames == Range(Sorted)
CopyOf(track) == IF track = "lab" THEN "results-lab.json" ELSE "results-cloud.json"

\* How far a target came: it could not be connected to; some of its workloads were run, but
\* no level of the mixed workload; at least one level was.
Statuses == {"unconnected", "workloads", "levels"}
NoEntry == [status |-> "absent", run |-> 0]
Nothing == [t \in Targets |-> NoEntry]
Holds(data) == {t \in Targets : data[t] # NoEntry}

Absent == [state |-> "absent", data |-> Nothing]
Torn == [state |-> "torn", data |-> Nothing]
Whole(data) == [state |-> "whole", data |-> data]

NoFiles == [f \in FileNames |-> Absent]
BenchOver == [pc |-> "idle", chosen |-> {}, todo |-> {}, results |-> Nothing]
Ended == [pc |-> "idle", call |-> 0, left |-> {}, merged |-> Nothing, seen |-> NoFiles]
NoPicture == [latency |-> Nothing, mixed |-> Nothing]

Init ==
  /\ files = NoFiles /\ runs = 0 /\ bench = BenchOver /\ finished = [t \in Targets |-> 0]
  /\ calls = 0 /\ reader = [r \in Readers |-> Ended]
  /\ csv = [of |-> 0, rows |-> Nothing] /\ tables = [of |-> 0, data |-> Nothing]
  /\ charts = [track \in Tracks |-> NoPicture]

readers == <<calls, reader, csv, tables, charts>>

-----------------------------------------------------------------------------
(* The writers of the files. *)

BenchStart ==
  /\ bench.pc = "idle" /\ runs < MaxRuns /\ runs' = runs + 1
  /\ \E chosen \in (SUBSET Targets) \ {{}} :
       bench' = [pc |-> "run", chosen |-> chosen, todo |-> chosen, results |-> Nothing]
  /\ UNCHANGED <<files, finished, readers>>

Truncate == files' = [files EXCEPT !["results.json"] = Torn]

\* Mutant: the target stays on the list.
MeasureAgain(t, status) ==
  /\ bench.pc = "run" /\ t \in bench.todo
  /\ bench' = [bench EXCEPT !.results[t] = [status |-> status, run |-> runs],
                            !.pc = IF status = "unconnected" THEN "run" ELSE "saving"]
  /\ IF status = "unconnected" THEN UNCHANGED files ELSE Truncate
  /\ UNCHANGED <<runs, finished, readers>>

\* A target that could not be connected to does not cause a write of its own.
Measure(t, status) ==
  /\ bench.pc = "run" /\ t \in bench.todo
  /\ bench' = [bench EXCEPT !.todo = @ \ {t}, !.results[t] = [status |-> status, run |-> runs],
                            !.pc = IF status = "unconnected" THEN "run" ELSE "saving"]
  /\ IF status = "unconnected" THEN UNCHANGED files ELSE Truncate
  /\ UNCHANGED <<runs, finished, readers>>

LastSave ==
  /\ bench.pc = "run" /\ bench.todo = {}
  /\ bench' = [bench EXCEPT !.pc = "last_saving"] /\ Truncate
  /\ UNCHANGED <<runs, finished, readers>>

Saved ==
  /\ bench.pc \in {"saving", "last_saving"}
  /\ files' = [files EXCEPT !["results.json"] = Whole(bench.results)]
  /\ bench' = IF bench.pc = "saving" THEN [bench EXCEPT !.pc = "run"] ELSE BenchOver
  /\ finished' = [t \in Targets |->
       IF bench.pc = "last_saving" /\ t \in bench.chosen THEN runs ELSE finished[t]]
  /\ UNCHANGED <<runs, readers>>

BenchCrash ==
  /\ bench.pc # "idle" /\ bench' = BenchOver
  /\ UNCHANGED <<files, runs, finished, readers>>

\* The user keeps the results of runs over one track under the name of that track.
Copy(track) ==
  LET now == files["results.json"]
  IN  /\ now.state = "whole" /\ Holds(now.data) # {}
      /\ \A t \in Holds(now.data) : Track[t] = track
      /\ files' = [files EXCEPT ![CopyOf(track)] = now]
      /\ UNCHANGED <<runs, bench, finished, readers>>

-----------------------------------------------------------------------------
(* What both scripts do first: read the files they find, one after another. *)

writers == <<files, runs, bench, finished>>

FilesFound == {f \in FileNames : files[f].state # "absent"}

\* Mutant: the files are read in the reverse order.
LastOf(left) ==
  Sorted[CHOOSE i \in DOMAIN Sorted : /\ Sorted[i] \in left
                                     /\ \A j \in DOMAIN Sorted : Sorted[j] \in left => j <= i]

\* Of the files left to read, the first in file-name order.
FirstOf(left) ==
  Sorted[CHOOSE i \in DOMAIN Sorted : /\ Sorted[i] \in left
                                     /\ \A j \in DOMAIN Sorted : Sorted[j] \in left => i <= j]

Glob(r) ==
  /\ \A q \in Readers : reader[q].pc \in {"idle", "done"}
  /\ calls < MaxReports /\ calls' = calls + 1
  /\ reader' = [reader EXCEPT ![r] =
       [pc |-> "reading", call |-> calls', left |-> FilesFound,
        merged |-> Nothing, seen |-> files]]
  /\ UNCHANGED <<writers, csv, tables, charts>>

Replace(merged, data) == [t \in Targets |-> IF data[t] # NoEntry THEN data[t] ELSE merged[t]]

\* make_report: a later file replaces the whole entry of a database.
LoadResults(merged, data) == Replace(merged, data)

\* Mutant: a target without mixed levels is not merged.
LoadAllMeasured(merged, data) ==
  Replace(merged, [t \in Targets |-> IF data[t].status = "workloads" THEN NoEntry ELSE data[t]])

\* make_charts: the same with dict.update.
LoadAll(merged, data) == Replace(merged, data)

\* A half-written file makes json.loads raise, and the script ends.
ReadFile(r) ==
  /\ reader[r].pc = "reading" /\ reader[r].left # {}
  /\ LET f == FirstOf(reader[r].left)
         merged == IF r = "make_report" THEN LoadResults(reader[r].merged, files[f].data)
                                        ELSE LoadAll(reader[r].merged, files[f].data)
     IN  reader' = IF files[f].state = "torn" THEN [reader EXCEPT ![r] = Ended]
                   ELSE [reader EXCEPT ![r].left = @ \ {f}, ![r].merged = merged]
  /\ UNCHANGED <<writers, calls, csv, tables, charts>>

\* With nothing found the script ends; "seen" stays if the files are as it found them.
Merged(r, step) ==
  /\ reader[r].pc = "reading" /\ reader[r].left = {}
  /\ reader' = IF Holds(reader[r].merged) = {} THEN [reader EXCEPT ![r] = Ended]
               ELSE [reader EXCEPT ![r].pc = step, ![r].seen = IF @ = files THEN @ ELSE NoFiles]
  /\ UNCHANGED <<writers, calls, csv, tables, charts>>

Step(r, from, to) == reader[r].pc = from /\ reader' = [reader EXCEPT ![r].pc = to]

Done(r) == reader' = [reader EXCEPT ![r] = [Ended EXCEPT !.pc = "done", !.seen = reader[r].seen]]

\* Ctrl-C, or an exception, ends the script at any moment.
Stops(r) ==
  /\ reader[r].pc \notin {"idle", "done"} /\ reader' = [reader EXCEPT ![r] = Ended]
  /\ UNCHANGED <<writers, calls, csv, tables, charts>>

-----------------------------------------------------------------------------
(* make_report: results.csv, then load_results.json, then tables.md. *)

Only(data, wanted) == [t \in Targets |-> IF t \in wanted THEN data[t] ELSE NoEntry]

\* The rows of results.csv: the databases that have workloads.
CsvRows(data) == Only(data, {t \in Targets : data[t].status \in {"workloads", "levels"}})

\* Mutant: an existing file is left alone.
WriteCsvOnce ==
  LET data == reader["make_report"].merged
  IN  /\ Step("make_report", "csv", "loads")
      /\ csv' = IF csv.of = 0 /\ Holds(CsvRows(data)) # {}
                  THEN [of |-> reader["make_report"].call, rows |-> CsvRows(data)] ELSE csv
      /\ UNCHANGED <<writers, calls, tables, charts>>

\* With no row to write the file is left as it was.
WriteCsv ==
  LET data == reader["make_report"].merged
  IN  /\ Step("make_report", "csv", "loads")
      /\ csv' = IF Holds(CsvRows(data)) # {}
                  THEN [of |-> reader["make_report"].call, rows |-> CsvRows(data)] ELSE csv
      /\ UNCHANGED <<writers, calls, tables, charts>>

\* A half-written one makes json.loads raise: then the script stops here.
ReadLoads ==
  /\ Step("make_report", "loads", "tables")
  /\ UNCHANGED <<writers, calls, csv, tables, charts>>

WriteTables ==
  /\ reader["make_report"].pc = "tables" /\ Done("make_report")
  /\ tables' = [of |-> reader["make_report"].call, data |-> reader["make_report"].merged]
  /\ UNCHANGED <<writers, calls, csv, charts>>

\* The tables of tables.md over what was merged: the latency table of a track has a column
\* for each of its databases, the concurrency table a row for those with mixed levels, the
\* others a row for every database.
LatencyTable(data, track) == Only(data, {t \in Targets : Track[t] = track})
ConcurrencyTable(data, track) ==
  Only(data, {t \in Targets : Track[t] = track /\ data[t].status = "levels"})

-----------------------------------------------------------------------------
(* make_charts: the lab track, the cloud track, the load chart. *)

\* A chart with nothing to show is not drawn: the file of an earlier call stays.
Draw(old, new) == IF Holds(new) = {} THEN old ELSE new

DrawTrack(track, next) ==
  LET data == reader["make_charts"].merged
  IN  /\ Step("make_charts", track, next)
      /\ charts' = [charts EXCEPT
           ![track].latency = Draw(@, LatencyTable(data, track)),
           ![track].mixed = Draw(@, ConcurrencyTable(data, track))]
      /\ UNCHANGED <<writers, calls, csv, tables>>

ChartLoad ==
  /\ reader["make_charts"].pc = "load_chart" /\ Done("make_charts")
  /\ UNCHANGED <<writers, calls, csv, tables, charts>>

-----------------------------------------------------------------------------

Next ==
  \/ BenchStart \/ LastSave \/ Saved \/ BenchCrash
  \/ \E t \in Targets, status \in Statuses : Measure(t, status)
  \/ \E track \in Tracks : Copy(track)
  \/ \E r \in Readers : Glob(r) \/ ReadFile(r) \/ Stops(r)
  \/ Merged("make_report", "csv") \/ WriteCsv \/ ReadLoads \/ WriteTables
  \/ Merged("make_charts", "lab") \/ DrawTrack("lab", "cloud")
  \/ DrawTrack("cloud", "load_chart") \/ ChartLoad

Spec == Init /\ [][Next]_vars

-----------------------------------------------------------------------------
(* Properties. *)

Data == [Targets -> [status : Statuses \cup {"absent"}, run : 0 .. MaxRuns]]

TypeOK ==
  /\ \A f \in DOMAIN files : files[f].state \in {"absent", "torn", "whole"} /\ files[f].data \in Data
  /\ runs \in 0 .. MaxRuns
  /\ bench.pc \in {"idle", "run", "saving", "last_saving"} /\ bench.chosen \subseteq Targets
  /\ bench.todo = {t \in bench.chosen : bench.results[t] = NoEntry} /\ bench.results \in Data
  /\ finished \in [Targets -> 0 .. MaxRuns]
  /\ \A r \in Readers : reader[r].merged \in Data /\ reader[r].call \in 0 .. calls
  /\ calls \in 0 .. MaxReports /\ csv.of \in 0 .. calls /\ csv.rows \in Data
  /\ tables.of \in 0 .. calls /\ tables.data \in Data
  /\ charts \in [Tracks -> [latency : Data, mixed : Data]]

MergedSteadily(r) ==
  reader[r].pc \notin {"idle", "reading", "done"} /\ reader[r].seen # NoFiles

\* When no file changes under the script it shows, for every database some file holds, the
\* newest entry there is: results.json is sorted behind the copies made of it
\* (make_report.py:215, make_charts.py:39).
NewestShown ==
  \A r \in Readers : MergedSteadily(r) =>
    LET seen == reader[r].seen
    IN  \A f \in DOMAIN seen, t \in Targets : reader[r].merged[t].run >= seen[f].data[t].run

\* results.csv is never behind tables.md, not even after a call that stopped between the
\* two, except when tables.md shows no measured workload: then it is left as it was
\* (make_report.py:83-84, 222, 238).
CsvNotBehind ==
  /\ tables.of > csv.of => Holds(CsvRows(tables.data)) = {}
  /\ tables.of = csv.of => csv.rows = CsvRows(tables.data)

SameFiles ==
  /\ \A r \in Readers : reader[r].pc = "done" /\ reader[r].seen # NoFiles
  /\ reader["make_report"].seen = reader["make_charts"].seen
  /\ \A f \in DOMAIN files : reader["make_report"].seen[f].state # "torn"

\* The two scripts merge with code of their own: called on the same files they show the same
\* entries, in the table and in the chart of a track that has any.
ChartsMatchTables ==
  SameFiles => \A track \in Tracks :
    LET latency == LatencyTable(tables.data, track)
        mixed == ConcurrencyTable(tables.data, track)
    IN  /\ Holds(latency) # {} => charts[track].latency = latency
        /\ Holds(mixed) # {} => charts[track].mixed = mixed

\* make_report.py:9: "python scripts/make_report.py  # all runs merged".
AllRunsMerged ==
  MergedSteadily("make_report") /\ files = reader["make_report"].seen => \A t \in Targets :
    finished[t] > 0 => reader["make_report"].merged[t].run >= finished[t]
=============================================================================
