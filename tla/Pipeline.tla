------------------------------ MODULE Pipeline ------------------------------
(***************************************************************************)
(* From the raw files to a verdict: prepare_dataset.py writes the five     *)
(* files of data/prepared/, load_data.py loads one database from two of    *)
(* them, run_benchmark.py measures it against the others and publishes     *)
(* their hashes.  The three are run by hand: nothing orders them, nothing  *)
(* locks the files, and a preparation can die between any two writes.      *)
(*                                                                         *)
(* Abstracted: a hash is the content it is of; a load and the calls of a   *)
(* measurement are one step each (Loader and BenchRun open them).          *)
(***************************************************************************)
EXTENDS Dataset

CONSTANTS
  Raws,       \* the raw files a behaviour may start from: [edges, dates], sequences of lines
  Requests,   \* prepare_dataset.py's arguments: [edges, seed]
  Limits,     \* load_data.py's --edges
  NoFile,     \* the content of a file that was never written
  MaxPreparations, MaxLoads,  \* bounds: how often each is run
  MaxLost     \* bound: calls of a measurement that are never answered

Id == Seq(0 .. 9)

ASSUME RawsAssumption ==
  \A r \in Raws : /\ r.edges \in Seq(Id \X Id) /\ r.edges # <<>>
                  /\ r.dates \in Seq([id : Id, year : STRING])
                  /\ \A i \in DOMAIN r.dates : r.dates[i].year \notin {"", Null}
ASSUME DrawAssumption ==
  \A r \in Raws, q \in Requests : LET citing == Citing(Kept(r.edges, q)) IN
    StartCount >= Cardinality(citing) \/ Draw(q.seed, citing, StartCount) \subseteq citing
ASSUME RunsAssumption ==
  Limits \subseteq Nat /\ MaxPreparations \in Nat /\ MaxLoads \in Nat /\ MaxLost \in Nat

VARIABLES
  raw,          \* data/raw/
  data,         \* data[f]: what was last written, or is being written, to file f
  whole,        \* the files that are completely written
  preparations, \* how often prepare_dataset.py was started
  pc,           \* where it is: "idle", "dates", "open" or "fill"
  request,      \* its arguments
  line,         \* lines of the dates file read
  dates,        \* the dictionary read_dates is building
  next,         \* position in Files of the file being written
  cut,          \* whether the last preparation died (history)
  loads,        \* how often load_data.py was started
  db,           \* the database
  stage,        \* where run_benchmark.py is: the file it reads next ("mixed": start_nodes.json
                \* again), "measure" or "published"
  starts,       \* what it read: start_nodes.json,
  expected,     \* expected.json,
  pool,         \* start_nodes.json for the mixed workload
  hashes,       \* and the hashes in manifest.json
  measured,     \* the database as it was measured (history)
  answers,      \* what it answered, to the calls that gave an answer
  verdicts,     \* and the verdict on each workload
  since         \* the preparation whose files it began with; 0 if one was under way (history)

files == <<data, whole>>
prepare == <<preparations, pc, request, line, dates, next, cut>>
load == <<loads, db>>
bench == <<stage, starts, expected, pool, hashes, measured, answers, verdicts, since>>
vars == <<raw, files, prepare, load, bench>>

Files == <<"nodes.csv", "edges.csv", "start_nodes.json", "expected.json", "manifest.json">>
FileNames == {Files[i] : i \in DOMAIN Files}
Hashed == FileNames \ {"manifest.json"}

Empty == Database(<<>>, <<>>)

Init ==
  /\ raw \in Raws
  /\ data = [f \in FileNames |-> NoFile] /\ whole = {}
  /\ preparations = 0 /\ pc = "idle" /\ request \in Requests /\ line = 0 /\ dates = <<>> /\ next = 1
  /\ cut = FALSE
  /\ loads = 0 /\ db = Empty
  /\ stage = "start_nodes.json" /\ starts = {} /\ expected = NoFile /\ pool = {} /\ hashes = NoFile
  /\ measured = Empty /\ answers = <<>> /\ verdicts = <<>> /\ since = 0

-----------------------------------------------------------------------------
(* prepare_dataset.py *)

Prepare ==
  /\ pc = "idle" /\ preparations < MaxPreparations
  /\ preparations' = preparations + 1 /\ pc' = "dates" /\ request' \in Requests
  /\ line' = 0 /\ dates' = <<>> /\ next' = 1 /\ cut' = FALSE
  /\ UNCHANGED <<raw, files, load, bench>>

ReadDate ==
  /\ pc = "dates" /\ line < Len(raw.dates)
  /\ line' = line + 1 /\ dates' = AddDate(dates, raw.dates[line + 1])
  /\ UNCHANGED <<raw, files, preparations, pc, request, next, cut, load, bench>>

DatesRead ==
  /\ pc = "dates" /\ line = Len(raw.dates) /\ pc' = "open"
  /\ UNCHANGED <<raw, files, preparations, request, line, dates, next, cut, load, bench>>

\* The four files a request and the dates of the papers make.
Prepared(asked, known) ==
  LET edges == Kept(raw.edges, asked)
      years == Years(Papers(edges), known)
      chosen == PickStartNodes(edges, asked.seed)
  IN  [f \in Hashed |->
         IF f = "nodes.csv" THEN years
         ELSE IF f = "edges.csv" THEN edges
         ELSE IF f = "start_nodes.json" THEN chosen
         ELSE Expected(Cites(edges), DOMAIN chosen, years)]

OnDisk == [f \in Hashed |-> data[f]]

\* The manifest has the hashes of the others as they are on disk.
Content(f) == IF f = "manifest.json" THEN OnDisk ELSE Prepared(request, dates)[f]

\* Opening a file for writing truncates it.
Open(f) ==
  /\ data' = [data EXCEPT ![f] = Content(f)] /\ whole' = whole \ {f}
  /\ pc' = "fill"
  /\ UNCHANGED <<raw, preparations, request, line, dates, next, cut, load, bench>>

\* Mutant: a manifest that is there is kept.
OpenFileUnlessManifest ==
  /\ pc = "open"
  /\ IF Files[next] = "manifest.json" /\ Files[next] \in whole
     THEN /\ pc' = "idle" /\ next' = 1
          /\ UNCHANGED <<raw, files, preparations, request, line, dates, cut, load, bench>>
     ELSE Open(Files[next])

OpenFile == pc = "open" /\ Open(Files[next])

\* Mutant: the last file is not the end.
FillFileNoEnd ==
  /\ pc = "fill" /\ whole' = whole \cup {Files[next]}
  /\ pc' = "open" /\ next' = next + 1
  /\ UNCHANGED <<raw, data, preparations, request, line, dates, cut, load, bench>>

FillFile ==
  /\ pc = "fill"
  /\ whole' = whole \cup {Files[next]}
  /\ pc' = IF next = Len(Files) THEN "idle" ELSE "open"
  /\ next' = IF next = Len(Files) THEN 1 ELSE next + 1
  /\ UNCHANGED <<raw, data, preparations, request, line, dates, cut, load, bench>>

\* The process dies; a file it was filling is left with some of its content.
Die ==
  /\ pc # "idle" /\ pc' = "idle" /\ cut' = TRUE
  /\ UNCHANGED <<raw, files, preparations, request, line, dates, next, load, bench>>

-----------------------------------------------------------------------------
(* load_data.py *)

\* Reading a csv file that is not whole finds its first rows, however many.
RowsRead(f) ==
  IF f \in whole THEN {data[f]} ELSE {SubSeq(data[f], 1, n) : n \in 0 .. Len(data[f])}

YearsRead ==
  LET years == data["nodes.csv"]
      upTo(last) == {n \in DOMAIN years : n = last \/ Before(n, last)}
  IN  IF "nodes.csv" \in whole THEN {years}
      ELSE {<<>>} \cup {[n \in upTo(last) |-> years[n]] : last \in DOMAIN years}

\* read_prepared: with a limit, the first rows and the papers they touch.
ReadPrepared(rows, years, limit) ==
  LET kept == IF limit = 0 \/ limit >= Len(rows) THEN rows ELSE SubSeq(rows, 1, limit)
  IN  [edges |-> kept,
       years |-> IF limit = 0 THEN years
                 ELSE [n \in Papers(kept) |-> IF n \in DOMAIN years THEN years[n] ELSE ""]]

\* The database is emptied and loaded, or the load stops after the papers.
Load ==
  /\ loads < MaxLoads /\ loads' = loads + 1
  /\ data["nodes.csv"] # NoFile /\ data["edges.csv"] # NoFile
  /\ \E rows \in RowsRead("edges.csv"), years \in YearsRead, limit \in Limits :
       LET read == ReadPrepared(rows, years, limit)
       IN  db' \in {Database(read.years, read.edges), DatabaseOfKeys(read.years, read.edges),
                    Database(read.years, <<>>)}
  /\ UNCHANGED <<raw, files, prepare, bench>>

-----------------------------------------------------------------------------
(* run_benchmark.py *)

Settled == pc = "idle" /\ ~cut

BeginBenchmark ==
  /\ stage = "start_nodes.json" /\ stage \in whole
  /\ starts' = DOMAIN data[stage] /\ stage' = "expected.json"
  /\ since' = IF Settled THEN preparations ELSE 0
  /\ UNCHANGED <<raw, files, prepare, load, expected, pool, hashes, measured, answers, verdicts>>

ReadExpected ==
  /\ stage = "expected.json" /\ stage \in whole
  /\ expected' = data[stage] /\ stage' = "mixed"
  /\ UNCHANGED <<raw, files, prepare, load, starts, pool, hashes, measured, answers, verdicts, since>>

\* main reads the start nodes once more, for the mixed workload.
ReadStartsAgain ==
  /\ stage = "mixed" /\ "start_nodes.json" \in whole
  /\ pool' = DOMAIN data["start_nodes.json"] /\ stage' = "manifest.json"
  /\ UNCHANGED <<raw, files, prepare, load, starts, expected, hashes, measured, answers, verdicts, since>>

\* build_manifest: without a manifest no hashes are published.
ReadManifest ==
  /\ stage = "manifest.json"
  /\ data[stage] = NoFile \/ stage \in whole
  /\ hashes' = data[stage] /\ stage' = "measure"
  /\ UNCHANGED <<raw, files, prepare, load, starts, expected, pool, measured, answers, verdicts, since>>

\* A json file that is missing or not whole ends the run, and so does the user.
Abort ==
  /\ stage \notin {"start_nodes.json", "published"} /\ stage' = "start_nodes.json"
  /\ starts' = {} /\ expected' = NoFile /\ pool' = {} /\ hashes' = NoFile /\ since' = 0
  /\ UNCHANGED <<raw, files, prepare, load, measured, answers, verdicts>>

\* The calls the workloads make.  A workload without arguments ends the run.
Calls(asked) == UNION {{w} \X asked[w] : w \in Workloads}

\* Only answers are compared: a call that fails every time it is made, or that the
\* iterations do not come to, is neither right nor wrong.
Measure ==
  /\ stage = "measure" /\ stage' = "published" /\ measured' = db
  /\ LET asked == Arguments(starts, expected) IN
       /\ \A w \in Workloads : asked[w] # {}
       /\ \E lost \in SUBSET Calls(asked) :
            /\ Cardinality(lost) <= MaxLost
            /\ answers' = Answers(db, [w \in Workloads |-> {a \in asked[w] : <<w, a>> \notin lost}])
  /\ verdicts' = [w \in Workloads |->
       IF Mismatched(answers', Wanted(expected), w) THEN "MISMATCH" ELSE "ok"]
  /\ UNCHANGED <<raw, files, prepare, load, starts, expected, pool, hashes, since>>

-----------------------------------------------------------------------------

PrepareStep == Prepare \/ ReadDate \/ DatesRead \/ OpenFile \/ FillFile \/ Die
BenchStep == BeginBenchmark \/ ReadExpected \/ ReadStartsAgain \/ ReadManifest \/ Abort \/ Measure

Next == PrepareStep \/ Load \/ BenchStep

Spec == Init /\ [][Next]_vars

-----------------------------------------------------------------------------
(* Properties. *)

TypeOK ==
  /\ raw \in Raws /\ DOMAIN data = FileNames /\ whole \subseteq FileNames
  /\ preparations \in 0 .. MaxPreparations /\ loads \in 0 .. MaxLoads
  /\ pc \in {"idle", "dates", "open", "fill"} /\ request \in Requests
  /\ line \in 0 .. Len(raw.dates) /\ next \in DOMAIN Files /\ cut \in BOOLEAN
  /\ stage \in {"start_nodes.json", "expected.json", "mixed", "manifest.json", "measure", "published"}
  /\ since \in 0 .. MaxPreparations

DateOf(key, year, read) ==
  \E i \in 1 .. read :
    /\ Normalise(raw.dates[i].id) = key /\ raw.dates[i].year = year
    /\ CrossListed(raw.dates[i].id) =>
         \A j \in 1 .. read : Normalise(raw.dates[j].id) = key => CrossListed(raw.dates[j].id)

\* Whatever the order of the lines, the date of a paper is one of its own and that of a
\* cross-listing only if the paper has no plain entry ("the plain entry wins",
\* prepare_dataset.py:76-77).
PlainEntryWins ==
  pc = "dates" =>
    /\ DOMAIN dates = {Normalise(raw.dates[i].id) : i \in 1 .. line}
    /\ \A key \in DOMAIN dates : DateOf(key, dates[key], line)

\* The papers at the end of a path of one to k citations, by composing the relation.
Composed(r, s) == {<<p[1][1], p[2][2]>> : p \in {q \in r \X s : q[1][2] = q[2][1]}}
PathEnds(cites, n, k) ==
  LET two == IF k >= 2 THEN Composed(cites, cites) ELSE {}
      three == IF k >= 3 THEN Composed(two, cites) ELSE {}
  IN  {p[2] : p \in {q \in cites \cup two \cup three : q[1] = n}}

\* Whether the ground truth is that of these papers and citations.
GroundTruth(truth, chosen, years, edges) ==
  /\ \A k \in 1 .. 3 : DOMAIN truth.counts[k] = DOMAIN chosen
  /\ DOMAIN truth.years = DOMAIN chosen
  /\ \A n \in DOMAIN chosen :
       /\ truth.years[n] = years[n]
       /\ \A k \in 1 .. 3 : truth.counts[k][n] =
            Cardinality(PathEnds(Cites(edges), n, k) \ {n})
  /\ \A y \in DOMAIN truth.histogram :
       truth.histogram[y] = Cardinality({n \in DOMAIN years : years[n] = y})

\* Files that have the hashes of the manifest are one dataset, however many preparations
\* were cut short before: every paper of an edge has its year, and the ground truth is
\* complete and of these papers and edges ("so a reviewer can prove they rebuilt the same
\* dataset", prepare_dataset.py:6).
ManifestProvesDataset ==
  FileNames \subseteq whole /\ data["manifest.json"] = OnDisk =>
    /\ DOMAIN data["nodes.csv"] = Papers(data["edges.csv"])
    /\ \A n \in DOMAIN data["nodes.csv"] : LET year == data["nodes.csv"][n] IN
         IF year = "" THEN \A i \in DOMAIN raw.dates : Normalise(raw.dates[i].id) # n
         ELSE DateOf(n, year, Len(raw.dates))
    /\ GroundTruth(data["expected.json"], data["start_nodes.json"], data["nodes.csv"], data["edges.csv"])

\* No preparation ran, or was cut short, from the first file the benchmark read on.
Undisturbed == stage = "published" /\ Settled /\ since = preparations

\* Whatever ran beside the benchmark, the hashes it publishes are of one dataset with its
\* own ground truth, never of files of two preparations; and if no preparation did, they are
\* of the files it read: the arguments and answers of the read workloads, and the start nodes
\* of the mixed one.
HashesOfGroundTruth ==
  /\ stage = "published" /\ hashes # NoFile =>
       GroundTruth(hashes["expected.json"], hashes["start_nodes.json"],
                   hashes["nodes.csv"], hashes["edges.csv"])
  /\ Undisturbed =>
       /\ DOMAIN hashes["start_nodes.json"] = starts /\ hashes["expected.json"] = expected
       /\ pool = starts

\* A database loaded with all of the dataset is never found wrong: every answer the
\* ground truth wants is the one an adapter gives, papers without a year included.
NoFalseMismatch ==
  Undisturbed /\ measured = Database(data["nodes.csv"], data["edges.csv"])
    => \A w \in Workloads : verdicts[w] = "ok"

\* An ok verdict is true of what was answered: whatever the database was loaded with, each
\* of its answers is that of the dataset of the published hashes.  It says nothing of calls
\* that failed or were never made, even if that is all of them.
OkIsTrueOfDataset ==
  Undisturbed =>
    LET whatItIs == Database(hashes["nodes.csv"], hashes["edges.csv"])
        truth == Answers(whatItIs, Arguments(starts, expected))
    IN  \A w \in Workloads : verdicts[w] = "ok" =>
          \A a \in DOMAIN answers[w] : answers[w][a] = truth[w][a]
=============================================================================
