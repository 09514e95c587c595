# A verification of the graph database benchmark

TLA+ modules, TLC configurations and TLAPS proofs about WexaAI's benchmark harness: the
program in `src/scripts` and `src/benchmarks` that loads one citation graph into several
graph databases (Neo4j, Memgraph, CognoDB over Bolt, FalkorDB, ArangoDB), measures them and
publishes tables and charts. What the harness must get right is not a protocol but honesty:
that every database is asked the same questions, that what is published is what was measured,
that nothing failed is dropped, and that a load or a cleanup really did what its record says.
Those are the properties here.

## The system: an inventory

| Component | Source | State | Operations |
|---|---|---|---|
| Dataset preparation | `scripts/prepare_dataset.py` | the five files of `data/prepared/`, the dictionary of dates | normalise ids, read dates, sample edges, draw start nodes, ground truth (`reachable_within`, years, histogram), write the files and their manifest |
| Workload definitions | `benchmarks/workloads.py` | none | what each of the six workloads asks, and the answers the ground truth has for it |
| Target registry | `benchmarks/registry.py`, `config/databases.yaml` | none | select the targets the environment configures, build an adapter |
| Ingest | `scripts/load_data.py` and the adapters' `connect`, `setup_schema`, `reset`, `load` | the databases, `load_results.json` | load each target, record it |
| Read benchmark | `scripts/run_benchmark.py` `main`, `benchmarks/common.py` `run_workload`, `benchmarks/workloads.py` | `results.json`, `raw/<run>/<db>/*.jsonl`, the results dictionary | cold, warm-up and measured calls, verdict, payload, save |
| Mixed workload | `run_benchmark.py` `run_mixed`, the adapters' `write_op`, `cleanup_writes` | worker threads, the stop event, per-worker lists, rows in the database | workers' cycle of reads and writes, stop, join, cleanup |
| Traversal queries | the adapters' `Q_ONE_HOP` to `Q_THREE_HOP`, `Q_TRAVERSE` | none | count the papers within one to three citations |
| Other queries | the adapters' `point_lookup`, `filtered_lookup`, `aggregation` | none | a paper's year, the papers of a year, the number of years |
| Publication | `scripts/make_report.py`, `scripts/make_charts.py` | `results*.json`, `results.csv`, `tables.md`, charts | merge, write |
| Latency statistics | `benchmarks/metrics.py`, `run_benchmark.py` `tcp_baseline` | the samples | nearest-rank percentiles, calls that failed |
| Footprint, containers | `scripts/capture_footprint.py`, `docker-compose.yml` | none | ask the Docker daemon |

The scripts are separate processes that meet only in files and in the databases. Preparation
writes the dataset and its ground truth. The loader fills the databases. The benchmark reads
the ground truth and queries the databases, trusting that they hold what the loader recorded.
The report and the charts read what the benchmark left. Inside `run_mixed` there are threads:
workers share the stop event and write to disjoint slots of shared lists.

What is hard here, and where a unit test hardly reaches:

* **Threads** (`run_mixed`): the event is set while calls are in flight; an exception inside the
  `with` block makes the executor wait, and a second one ends that wait with the workers still
  running; ArangoDB counts and truncates in two calls.
* **Calls that fail after their effect**: `time_call` sees an exception while the row is, is
  not, or will be stored.
* **Half-done work**: loads, resets and benchmarks that break between two batches or two files,
  and the next run over what they left.
* **Order**: schema before reset, payload before raw samples, csv before tables, copies sorted
  before the working file, a plain date and a cross-listed one in either order.
* **Files rewritten in place**: a crash inside `write_text` leaves neither the old nor the new.
* **Nothing orders the scripts**: a preparation can run, or have died, between a load and the
  measurement of it, and between two files the benchmark reads (one of them twice).
* **Boundaries**: the last batch, a cycle cut by the event, self-loops and cycles in the graph,
  a workload without one successful call, a percentile of one sample, papers without a year.

`PROJECT.json` lists each of these hazards at its line with the properties that cover it.

## Modules

| Module | Models | Properties |
|---|---|---|
| `WriteNamespace` | what `run_mixed` and the adapter contract promise about the BenchWrite rows, without threads | (abstract specification) |
| `MixedWorkload` | `run_mixed`, its workers, `time_call`, `write_op`, `cleanup_writes`, `main`'s loop over client counts | eleven, one of them the refinement of `WriteNamespace` |
| `Loader` | `load_data.py` `main` over `selected_targets` and the three adapters' `connect`, `setup_schema`, `reset`, `load`, run repeatedly | seven, and two the code violates |
| `BenchRun` | `run_benchmark.py` `main` over `run_workload`, run repeatedly, the cells of two report tables, and what its file is to `Report` | seven, one of them the refinement of `Report`'s writer, and one the code violates |
| `Report` | both publishing scripts, the benchmark's writes and the copies of its file | four, and one the code violates |
| `Reachability` | `reachable_within` and the traversal query of each adapter, over every small graph | three |
| `Dataset` | what the preparation computes, what the workloads ask and want, what a loaded database answers (operators, no state) | in `Pipeline` |
| `Pipeline` | preparation, load and benchmark over the same files and one database, in any order | six |
| `Latency` | the calls of a measurement or of the network baseline, and what is published of them | two in runs, `TypeOK` proved |
| `MixedWorkloadProofs`, `LoaderProofs`, `BenchRunProofs`, `BenchPublicationProofs`, `ReachabilityProofs`, `PipelineProofs`, `LatencyProofs`, `ReportProofs` | | proofs, for all values of the constants |
| `MC*` | constants of the runs | |

`BenchRun` treats a level of the mixed workload as one step that returns or raises;
`MixedWorkload` opens that step. `Report` treats a benchmark as the sequence of contents of
its file; `BenchRun` opens that, and implements it (`Publishes`). `Pipeline` composes the three scripts over what they share, with
a load and the calls of a measurement as one step each; `Loader` and `BenchRun` open those, and
`CountWithin` of `Dataset` is what `Reachability` shows both sides to compute.

**MixedWorkload.** `main` is the position of the main thread (`submit`, `join`, `cleanup`,
`truncate`, `returned`; `unwind` while the executor waits after an exception in the block, `raised` when
that wait is over, `abandoned` when a second exception has ended it before), `pc[w]` that of a worker. A driver call is split at the server: `WriteApplied` is its effect, `WriteReturns`
its answer, `WriteFails` an exception before or after the effect, and `LateWrite` the effect
of a request whose client gave up. A latency is the ordinal of its operation, so "counted
once" can be told from "counted". A row is the operation that wrote it; `Key` is what it is stored under,
which two levels of the same client count share, as no platform asks for keys to be unique. Cleanup is `CleanupInOne` (one statement, Bolt and FalkorDB)
or `CountRows` then `Truncate` (ArangoDB).

**Loader.** A stored node is a paper and the run that created it, so a duplicate left by an
earlier load is visible. The batched reset of Bolt, the graph deletion of FalkorDB and the
per-collection truncation of ArangoDB are separate actions, since their failures differ.
Every call can fail before or after its effect; the process can die anywhere. `flavour[t]` is the
adapter the environment configures for `t`, or `"unset"`; `Selected` is `selected_targets`.

**BenchRun.** An argument is its position in the workload's sequence, an answer is right,
wrong or failed. Two history variables: `asked[t]` is what a target was asked, `finished[t]` the last
run over it that came to its end. `Publication` is `Report` seen from here: its writer's variables are
expressions of this module (`Files`, `Progress`, `AllShown`), and its readers do nothing, since no script
reads or copies while `BenchRun` runs alone. An entry goes into `Report`'s dictionary when the target is
left, and a measured workload or a level of it is not seen before.

**Report.** An entry is the run it is of and how far its target came (not connected, some
workloads, mixed levels as well). The two scripts read the files one at a time while a
benchmark may be rewriting `results.json`.

**Reachability.** One call of `reachable_within` as a loop, and each adapter's query as the set
of papers it counts, written from the query text and the engine's path semantics as the
adapters describe it (no relationship twice in a Cypher pattern; no way back to the origin on
CognoDB; global uniqueness in ArangoDB; no rows when FalkorDB's first `MATCH` finds nothing).

**Dataset and Pipeline.** A paper id is its sequence of digits, so that what `normalise_id` does
to a cross-listed id and to one without its leading zeros is visible; a date is its year.
`random.Random(seed).sample` is the parameter `Draw`. A hash is the content it is of: two hashes
are equal exactly if the contents are, the one thing the manifest relies on. `OpenFile` truncates
a file and `FillFile` completes it, `whole` is the set of complete files, and `Die` can happen
before, between and after. The loader reads a csv file that is not whole up to any row; the
benchmark cannot read a json file that is not. What `Load` leaves in the database is the whole
dataset, the first edges of `--edges`, or papers without citations when it stopped halfway; of a csv file
cut short ArangoDB also keeps the citations whose papers are missing (`DatabaseOfKeys`). A measurement
makes the calls of its workloads, of which up to `MaxLost` give no answer, because they fail each time they
are made or because the iterations end before them; only answers are compared. A workload without arguments ends
the run. The start nodes are read a second time for the mixed workload (`ReadStartsAgain`).
The history variable `since` tells which preparation's files a benchmark began with.

**Latency.** The samples are kept sorted as they come, in place of `sorted(samples)`. `Rank` is
`ceil(p / 100.0 * n)` in integers, and claimed for the four published percentages only: 0.5 is exact in binary,
and 0.9, 0.95 and 0.99 are off by so little that no product with a sample size a run can have is moved past
a whole number, in either direction. For other percentages the two differ: 55 percent of 100 samples has rank
56 in floating point and 55 in integers.

A definition whose comment starts with `Mutant:` is not part of the model: it is the form a
bug would give to the definition after it. For each property of a passing run `PROJECT.json`
names the one that breaks it.

## Runs

| Run | Instance | Shows |
|---|---|---|
| `mixed_levels` | one client, then two; cycle of two; four operations per worker; split cleanup; fair | every operation is counted once; acknowledged writes stay stored until all workers are done; cleanup covers them; both levels end; `WriteNamespace` is implemented |
| `mixed_two_clients` | two clients, cycle of three, one or two exceptions in the pool block; fair | how far the realised ratio drifts; the workers' start nodes are disjoint; when an exception gets out, that it does, and what it leaves running; nothing is begun after the event |
| `loader_targets` | Bolt and ArangoDB, or FalkorDB alone; three papers, two citations with a self-citation, batches of two, reset of two nodes a query; two runs; fair | a recorded load is complete, and exact after any earlier failure; listed indexes exist; every target gets a record and records survive; every run ends |
| `bench_runs` | two targets, two workloads (two arguments, one argument), one cold, one warm-up and two measured calls, at most two bad answers, two runs | same queries for all; results, raw samples and tables agree; every target is reported; what happens to `results.json` is what `Report` assumes of its writer |
| `report_files` | a lab and a cloud database, two benchmark runs, two calls of the scripts | the newest entry is shown; csv, tables and charts agree |
| `reachability` | every graph on four papers, one to three hops | ground truth and the four kinds of query agree |
| `pipeline` | ids of two digits, three papers, a citation listed twice, dates in three orders; two preparations (all edges, or two of four with either of two seeds), two loads (`--edges` 0 or 1); at most one call without an answer | the plain date wins; files that match the manifest are one dataset; published hashes are always of one dataset, and undisturbed of the files that were used; no false `MISMATCH`; `ok` is true of every answer given |
| `latency` | twenty calls, each failing or taking one of three times | the percentiles are nearest-rank; every call is published as a sample or as a failure |
| `loader_falkor_indexes`, `loader_falkor_reset`, `bench_all_failed`, `report_all_runs` | as above | a violation each: see Findings |

**Why the bounds are enough.** Two workers are the least that can interleave, two levels the
least in which a late write or a failed cleanup meets a later level, four operations let a
cycle end, wrap and be cut. Two runs of the loader or the benchmark are the least in which one
finds what another left. Three papers and batches of two give a full batch, a partial one and
citations between batches; one bad answer per workload is under the cap on mismatches and two
reach it (`MismatchCap = 1`; `MismatchesShown = 1` of them are published). With four papers a path of three citations can go through four
different papers, return to its start, or repeat one. Two preparations are the least in which files
of one meet files of another, two loads those in which a database is older than the files; limits of
0 and 1 give a full load and a partial one. One call without an answer is enough to hide the only wrong
answer of a workload, and all that a workload of one argument asks. Twenty calls are the baseline's own number, and the
least at which all four ranks differ from each other. The proofs remove the
bounds. `MaxOps`, `MaxRuns`, `MaxFaults`, `MaxReports`, `MaxPreparations`, `MaxLoads` and
`MaxLost` are the only caps; each stands in the guard of the action it limits. In `mixed_levels` a worker that has used up `MaxOps` waits for the event, as one does in a call that
lasts as long as the level.

**Deadlock** is checked except in `reachability`, which models one call that returns, and in
`pipeline`, `report_files` and `report_all_runs`, where the user may have made all the calls the bounds allow. The
other models stutter explicitly when they have reached their bound (`Stopped`, `NoMoreRuns`, `Done`).

**Fairness.** `MixedWorkload` assumes weak fairness of the main thread's step and of each
worker's: the operating system schedules threads, `sleep` returns, and a driver call ends
with an answer or an exception. The last is an assumption about the drivers and servers: the code
sets no timeouts, so a server that never answers blocks the run for ever. Nothing is assumed
about late writes or interrupts. `Loader` assumes weak fairness of the process, for
the same reason. Liveness is checked under these only (`Termination`, `StoppedPoolUnwinds`, `RunsEnd`).
Nothing orders the commands a user types, so `Pipeline` and `Report` assume no fairness.

## Proofs

Eight modules of proofs, checked to the last leaf. They assume the named assumptions on constants, which
TLC evaluates in every run, and nothing else.

`MixedWorkloadProofs` proves for every list of client counts, cycle length, read share and
bound that `Spec` keeps `TypeOK`, `EveryOperationCounted`, `AckedWritesStored`, `CleanupAfterWorkers`
(which no run checks), `CleanupCoversWrites`, `KeysNeverReused` (which none checks either), `ExceptionBeforeStop`, `SlicesDisjoint` and
`RatioWithinOneCycle`, and implements `WriteNamespace` (`NamespacePromise`). The assumptions are the named ones of the module: at least
one level, at least one client in each, a positive cycle, a read share within it. None of the
invariants is inductive. The inductive one, `IInv`, adds

* `ThreadInv`: who can be where. A worker is idle exactly if it was not submitted; the main
  thread is past the pool block only with the event set and all workers out of their loop. The
  ordering properties rest on it.
* `RowInv`: which rows can exist. A row belongs to an operation of its worker's past, or to the one
  just applied; a late one was never acknowledged. This gives fresh keys within a level and acknowledged rows that stay.
* `CountInv`: the three places that record an operation partition the counter, as cardinalities of
  finite sets.
* `CleanInv`: what a cleanup in progress has counted is at least the acknowledged writes. This needs
  `RowInv` (acknowledged rows are among the rows) and an injection from writes to rows.

The step `IInv /\ [Next]_vars => IInv'` has one lemma per part and one case per action. `KeepsPromise`
then maps each step of `MixedWorkload` to a step or a stutter of `WriteNamespace` under
`stored <- rows, acked <- Acked, open <- main \notin Settled`.

Two properties are arithmetic, and each has an invariant of its own on top of `IInv`:

* `CursorInv`: a cursor is the worker's number and a whole number of turns, each as long as the client
  count. Where the count divides the list, two numbers that differ stay different modulo the list
  (`NeverMeet`): this is `SlicesDisjoint`.
* `RatioInv`: how far the reads of one worker are ahead of its share after `n` operations of an
  error-free level is between 0 and `ReadsPerCycle * (Cycle - ReadsPerCycle)`, because the slots of a
  cycle that read come first (`ExcessNext`). Reads and writes of all workers are sets of pairs, and
  the bound is summed over the workers one by one (`BelowNext`, `ExcessSums`). The sum needs induction over the number of
  clients, which `Induction` gives for a set of numbers: every set with 0 and all successors is `Nat`.

`WindsDown`, which `mixed_two_clients` checks, is the safety half of `Termination` and `StoppedPoolUnwinds`: while the event is set a worker finishes at most the
operation it is in (`Begun`), and each of its steps brings it nearer to the end of its loop (`StepsLeft`), at
most three steps away. What is left to fairness is that the steps are taken.

`ReachabilityProofs` proves for every graph, start and depth, and without assuming the graph
finite, that the loop of `reachable_within` returns the papers other than the start at the end of
some path of at most that many citations, although it never expands a paper twice (but the
start) and stops at an empty frontier; and that each engine's query counts the same set.
`LoopInvariant` says what is seen after each round; the argument for the engines is that a path of
two or three citations that repeats a citation, or comes back to the start, ends where a
shorter one does.

`CountsAgree` joins this to `Pipeline`: the ground truth and the query of each engine have, as numbers, the
`CountWithin` that `Dataset` uses for both, so the composition abstracts traversals by what the code computes. It is
stated over the same papers and citations.

`FreshFrontier`, that what is expanded was never expanded before, is proved there too, though no run needs it.

`LoaderProofs` proves, for every dataset, batch size, delete limit, set of targets and number of
runs, all six safety properties of the run `loader_targets`. None is inductive, since each speaks of the moment a
record is made, and what earlier runs left matters. `IInv` is `TypeOK` and

* `PlaceInv`: where in rows or statements each step of the process can be;
* `JoinInv`: on the platforms with nodes of their own a relationship joins two stored nodes. It is why the
  Bolt reset, which only deletes nodes with what hangs on them, leaves no relationship: it ends
  when no paper is left, and then there is nothing to join;
* `CompleteInv` and `ExactInv`: which papers and citations of this run are stored when so many
  rows are done, and that nothing else is. Batches go through `PapersDone` and `RowsDone`; on
  ArangoDB exactness begins with the truncation of each collection;
* `IndexInv`: what `setup_schema` listed exists, but for FalkorDB after a reset;
* `RecordInv`: how old records in memory and on disk are, and that a torn file is being rewritten or
  has no process. `RecordsSurvive` is an action property and follows from it.

`StepsForward` is the safety half of `RunsEnd`: each step of the process ends it, takes a target off the list, or
goes on with the same target to a later stage, or leaves its loop less to do (`Left`, a natural number). It
holds whatever the drivers answer, so a run over finitely many targets can only fail to end if a call
never returns. The one step where this is not plain is the Bolt reset: a query that goes on deletes as many nodes as
it may, which is at least one, mixed-workload rows included (`DeletesSome`).

`BenchRunProofs` proves, for every set of targets, list of workloads and number of calls, the six
invariants of `bench_runs`, and that the entries of a file are all of the run whose manifest it carries (`FileOfOneRun`, which no run checks). The invariant has a part for the samples of the workload under way
(`ResultInv`), for the entry being filled (`EntryInv`), for what is of which run (`RunInv`), and for
what a chosen target must have when it is left (`DoneInv`). Two parts carry the argument:

* `SampleInv`: the numbers of each finished workload are those of its raw file, in the entry under way, in
  the dictionary and on disk. The file is written after the numbers are made, so the step that
  writes it has to count the lines it writes (`LinesCount`, `CountSplits`).
* `AskedInv`: the list of what a target was asked is an initial part of one list, that of all
  queries, because the query at each position is determined by the position (`Position` is
  injective). Two initial parts of one list are prefixes of each other, which is `SameQueries`.

`BenchPublicationProofs` proves the seventh property of `bench_runs`, `Publishes`, for the same constants: under the mapping
`Publication` every step of `BenchRun` is a step of `Report`'s writer or a stutter. Picking, connecting, the calls of a workload,
the tables and the footprint are stutters (`MeasuringIsQuiet`, `BetweenIsQuiet`). A target that fails to connect, and
one that is saved, is where `Report` measures a target, with the outcome the entry shows (`TargetDone`). `SaveInv`, added to
the invariant, says that a target is recorded and off the list when its save begins. With the theorems of `ReportProofs` about
that writer this carries from the calls of the benchmark to the published tables. The mapping fixes the readers and the tracks;
that the scripts interleave with the writer is in `Report` itself.

`PipelineProofs` proves the six properties of `pipeline` for every raw file, sampler and sequence of
commands. It assumes that ids are digits and dates have a nonempty year (`RawsAssumption`), and that
what `sample` draws is among what it draws from (`DrawAssumption`). `SpellingsJoin` says that the three
spellings of an id are normalised to it. The invariant says which entry the dictionary of dates holds (`DatesInv`), that
files before the one being written are of this preparation (`WritingInv`), that a manifest has the four
files of one preparation (`ManifestInv`) and, unless one is under way or was cut short, those on disk (`DiskInv`); that
published hashes are therefore of one preparation whatever ran meanwhile (`HashInv`); what a benchmark has read if
no preparation came in between (`BenchInv`), and what its answers are of (`VerdictInv`). `TruthIsAnswers` shows the ground truth of a dataset to be
what a database loaded with it answers, papers without a year included.

`LatencyProofs` proves for every number of calls and all latencies that a percentile is the nearest-rank
one (`PercentileIsNearestRank`, for any sorted sequence and the four published percentages, since `Rank` is
the code's rank for no others); that inserting keeps the samples sorted and
loses none of them (`InsertKeeps`: every value as often as before, the new one once more), which is what lets it stand
for `sorted(samples)`; and that what is published is in order (`DistributionInOrder`): least value, percentiles from low to
high, greatest value, and no sample outside.

`ReportProofs` proves the four properties of `report_files` for every set of databases and every
number of benchmarks, crashes, copies and calls. The readers compare the files they end with to those
they found, which says something only if a file cannot change and change back in between. So the
invariant says of each content of `results.json` that it is there now or about to be (`Current`), or is
one the benchmark can never write again (`Gone`): every entry of it is of an earlier run, or differs from
one already measured. The parts are

* `WriterInv`: what the benchmark has measured is of its own run, and its file is of an earlier one
  or agrees with what was measured so far;
* `FilesInv` and `SeenOf`: what is known of every file, and of every file as a script found it; a
  copy that has changed since has a content that is past (`Past`);
* `ReadOf` and `MergedOf`: what a script has merged is `MergeOf` the files it found, in the order of
  their names, or one of those is past and the comparison fails;
* `ShownInv` and `CsvInv`: what the tables and the charts on disk show, and of which call they are.

Only model-checked: liveness under fairness, which the prover does not do (`Termination`, `StoppedPoolUnwinds`, `RunsEnd`); of each
the safety half is proved. Induction is possible where it can be stated with a set of numbers; what a recursive definition computes for
every input is not provable here, and the proofs rely on none.

## Findings

Places where the code does something else than the repository says; each is a violation run.

* `loader_falkor_indexes`: `load_data.py` creates the indexes and then resets. FalkorDB's reset
  deletes the graph and its indexes, so the load and the benchmark run without the indexes
  the record lists.
* `loader_falkor_reset`: FalkorDB's reset takes any exception for an absent graph; the dataset
  is then loaded on top of the old one and recorded as loaded.
* `bench_all_failed`: a workload whose measured calls all failed has the verdict `ok` and a check
  mark in the correctness table.
* `report_all_runs`: the documented sequence (lab run, cloud run, report) publishes the cloud run
  only, since each run overwrites `results.json`. No script writes the `results-lab.json` and
  `results-cloud.json` the repository holds.

Smaller disagreements that need no run: cold samples are said to be the first operations after
connecting (`run_benchmark.py:3-4`), while those of all workloads but the first follow the workloads
before (`run_benchmark.py:334`); the comment at `run_benchmark.py:136-138` calls the realised
read ratio exact, while the event may cut a cycle (`RatioWithinOneCycle` bounds the drift); the concurrency table
has no row for a database without a finished level; the charts draw latencies whose verdict is
`MISMATCH`; a workload whose raw file could not be written has its percentiles published all the same
(`run_benchmark.py:348-362`).

`Pipeline` shows how far a verdict can be trusted. With no preparation in between, every answer behind an `ok`
is the one the published dataset has, whatever the database was loaded with (`OkIsTrueOfDataset`). It does not mean that every call
was answered: failed calls are compared with nothing (`common.py:221`), and neither are the arguments `--iterations` does not come to
(`common.py:217-218`), so a database can be `ok` although another argument would have shown it wrong. `CheckMarkEarned` is the extreme of it. A partial load or one of
another sample is measured and published all the same, with `MISMATCH` where the difference shows and `ok` where
it does not. A preparation that dies between `start_nodes.json` and `expected.json` leaves start
nodes the ground truth may not know; their answers are compared with nothing and the workload can be `ok`.
`Undisturbed` in the properties excludes that.

## Not modelled

* Mean, deviation, rounding and throughput: no property depends on them. File sizes and row counts
  in the manifest.
* The engines and drivers: external; each call is its effect and its answer. The lookups of the three
  adapters differ in syntax only and are one model.
* `--db` with an unknown name, which ends the process before it does anything. `BenchRun` and
  `Report` start from an arbitrary nonempty set of targets, which covers `--db`, `--track` and
  targets that are not configured.
* `capture_footprint.py`: it asks the Docker daemon once per container and writes a file no script reads.
  Containers: configuration.
* The wording of tables and the drawing of charts. Outputs of the report are written in one
  step each; the files the benchmark, the loader and the preparation rewrite are not.
* Papers that `--keep` loads a second time: they are stored as copies, and no property is stated about them.
* The rest of the process after an exception left `run_mixed`: the workers of an abandoned pool go on, and the interpreter
  waits for them at its exit.
* Requests of a dead loader that commit after the next one has started; raw directories shared by
  two runs with one `--run-id`.

## Plan

Done: the mixed workload and its promise, the loader, the benchmark, the publication, reachability,
the dataset and the pipeline, the latency statistics, the benchmark as the writer the publication assumes, and proofs for
all of them. Left, in this order:

1. `Loader` as the load step of `Pipeline`: failures on every platform under one measurement.
2. The calls of `Pipeline`'s measurement as those of `BenchRun`: which of them fail or are never made is a free choice
   there, and follows from the iterations and the phases here.
