------------------------------ MODULE BenchRun ------------------------------
(***************************************************************************)
(* The measurement: main of scripts/run_benchmark.py over run_workload of  *)
(* benchmarks/common.py, run again and again, and what scripts/            *)
(* make_report.py prints of the results.json it leaves.                    *)
(*                                                                         *)
(* Abstracted: an argument is its position in the workload's sequence; an  *)
(* answer is right or wrong against the ground truth, or the call failed;  *)
(* latencies, the network baseline and the manifest are left out.  A level *)
(* of the mixed workload is one step here: MixedWorkload opens it.         *)
(***************************************************************************)
EXTENDS Integers, Sequences, FiniteSets, SequencesExt

CONSTANTS
  Targets,      \* the configured databases
  NumArgs,      \* NumArgs[w]: arguments workload w cycles through
  Cold,         \* --cold
  Warmup,       \* --warmup
  Iterations,   \* --iterations
  MismatchCap,  \* mismatches kept for each workload (10 in the code)
  MismatchesShown,  \* how many of them are published (5 in the code)
  NumLevels,    \* --concurrency: how many client counts
  MaxRuns,      \* bound: invocations of run_benchmark.py
  MaxFaults     \* bound: calls, over all runs, that are not answered correctly

ASSUME WorkloadsAssumption == NumArgs \in Seq(Nat \ {0}) /\ NumArgs # <<>>
ASSUME PhasesAssumption == {Cold, Warmup, Iterations, NumLevels} \subseteq Nat
ASSUME CapAssumption == MismatchCap \in Nat \ {0} /\ MismatchesShown \in Nat \ {0}
ASSUME RunsAssumption == {MaxRuns, MaxFaults} \subseteq Nat

VARIABLES
  torn,     \* whether results.json is a half-written file
  file,     \* results.json: the run it is of, and an entry for each target
  raw,      \* raw[t][w]: the lines of this run's raw/<run_id>/t/w.jsonl
  run,      \* how many times run_benchmark.py was started
  pc,       \* where the process is; "idle" when none runs
  chosen,   \* the targets of this run
  todo,     \* those it has still to measure
  results,  \* the dictionary the process will write
  cur,      \* the target being measured
  entry,    \* its entry so far
  w,        \* the workload being run
  k,        \* calls of it that have returned
  result,   \* its WorkloadResult
  level,    \* levels of the mixed workload done
  finished, \* finished[t]: the last run over t that came to its end (history)
  asked,    \* asked[t]: the calls t received from this run, in order (history)
  faults    \* calls that were not answered correctly (bound)

disk == <<torn, file, raw, finished>>
target == <<cur, entry, w, k, result, level>>
vars == <<disk, run, pc, chosen, todo, results, target, asked, faults>>

Workloads == 1 .. Len(NumArgs)
Calls == Cold + Warmup + Iterations
Outcomes == {"right", "wrong", "failed"}

\* A fresh WorkloadResult; the outcomes of its cold and its measured samples.
NoSamples == [cold |-> <<>>, samples |-> <<>>, mismatches |-> 0]

NotRun == [n |-> 0, failures |-> 0, verdict |-> "not_run", mismatches |-> 0, cold |-> 0]
NoEntry == [status |-> "absent", run |-> 0, workloads |-> [v \in Workloads |-> NotRun],
            mixed |-> 0, footprint |-> FALSE]
NewEntry == [NoEntry EXCEPT !.status = "measuring", !.run = run]
Nothing == [t \in Targets |-> NoEntry]

Steps == {"idle", "next", "connect", "calls", "levels", "broken", "close",
          "save", "saving", "last_save", "last_saving", "finished"}

Init ==
  /\ torn = FALSE /\ file = [run |-> 0, entries |-> Nothing]
  /\ raw = [t \in Targets |-> [v \in Workloads |-> <<>>]]
  /\ run = 0 /\ pc = "idle" /\ chosen = {} /\ todo = {} /\ results = Nothing
  /\ cur \in Targets /\ entry = NoEntry /\ w = 1 /\ k = 0 /\ result = NoSamples /\ level = 0
  /\ finished = [t \in Targets |-> 0] /\ asked = [t \in Targets |-> <<>>] /\ faults = 0

-----------------------------------------------------------------------------
(* The process and its files. *)

Begin(known) ==
  /\ pc = "idle" /\ run < MaxRuns
  /\ run' = run + 1 /\ pc' = "next"
  /\ chosen' \in (SUBSET Targets) \ {{}} /\ todo' = chosen'
  /\ results' = known
  /\ raw' = [t \in Targets |-> [v \in Workloads |-> <<>>]]
  /\ asked' = [t \in Targets |-> <<>>]
  /\ UNCHANGED <<torn, file, finished, target, faults>>

\* Mutant: entries of an earlier run are carried over.
StartFromFile == Begin(IF torn THEN Nothing ELSE file.entries)

\* main starts with an empty dictionary and a directory of its own for the raw samples;
\* it does not read what an earlier run left in results.json.
Start == Begin(Nothing)

Pick ==
  /\ pc = "next"
  /\ \E t \in todo : cur' = t /\ todo' = todo \ {t}
  /\ entry' = NewEntry /\ w' = 1 /\ k' = 0 /\ result' = NoSamples /\ level' = 0
  /\ pc' = "connect"
  /\ UNCHANGED <<disk, run, chosen, results, asked, faults>>

\* A target that cannot be reached gets an entry that says so; the file is not written.
ConnectFails ==
  /\ pc = "connect"
  /\ results' = [results EXCEPT ![cur] = [entry EXCEPT !.status = "connect_failed"]]
  /\ pc' = "next"
  /\ UNCHANGED <<disk, run, chosen, todo, target, asked, faults>>

Connect ==
  /\ pc = "connect" /\ pc' = "calls"
  /\ UNCHANGED <<disk, run, chosen, todo, results, target, asked, faults>>

\* An exception that is not one of a timed call ends the target's measurement.
Break ==
  /\ pc = "broken" /\ pc' = "close"
  /\ entry' = [entry EXCEPT !.status = "run_failed"]
  /\ UNCHANGED <<disk, run, chosen, todo, results, cur, w, k, result, level, asked, faults>>

\* Mutant: the file is written only at the end of the run.
CloseUnsaved ==
  /\ pc = "close" /\ pc' = "next"
  /\ results' = [results EXCEPT ![cur] = entry]
  /\ UNCHANGED <<disk, run, chosen, todo, target, asked, faults>>

Close ==
  /\ pc = "close" /\ pc' = "save"
  /\ results' = [results EXCEPT ![cur] = entry]
  /\ UNCHANGED <<disk, run, chosen, todo, target, asked, faults>>

\* Mutant: the write after the loop is missing.
FinishUnsaved ==
  /\ pc = "next" /\ todo = {} /\ pc' = "finished"
  /\ UNCHANGED <<disk, run, chosen, todo, results, target, asked, faults>>

\* After the loop the dictionary is written once more.
LastSave ==
  /\ pc = "next" /\ todo = {} /\ pc' = "last_save"
  /\ UNCHANGED <<disk, run, chosen, todo, results, target, asked, faults>>

\* write_text truncates the file and then fills it.
BeginSave ==
  /\ pc \in {"save", "last_save"}
  /\ pc' = IF pc = "save" THEN "saving" ELSE "last_saving"
  /\ torn' = TRUE /\ file' = [run |-> 0, entries |-> Nothing]
  /\ UNCHANGED <<raw, finished, run, chosen, todo, results, target, asked, faults>>

EndSave ==
  /\ pc \in {"saving", "last_saving"}
  /\ pc' = IF pc = "saving" THEN "next" ELSE "finished"
  /\ torn' = FALSE /\ file' = [run |-> run, entries |-> results]
  /\ finished' = [t \in Targets |->
       IF pc = "last_saving" /\ t \in chosen THEN run ELSE finished[t]]
  /\ UNCHANGED <<raw, run, chosen, todo, results, target, asked, faults>>

\* The process is gone; what it had not written is lost.
Ended ==
  /\ pc' = "idle" /\ todo' = {} /\ results' = Nothing
  /\ entry' = NoEntry /\ w' = 1 /\ k' = 0 /\ result' = NoSamples /\ level' = 0
  /\ UNCHANGED <<disk, run, chosen, cur, asked, faults>>

Exit == pc = "finished" /\ Ended

Crash == pc # "idle" /\ Ended

-----------------------------------------------------------------------------
(* run_workload: cold samples, warm-up, measured run, verdict. *)

Phase == IF k < Cold THEN "cold" ELSE IF k < Cold + Warmup THEN "warm-up" ELSE "measured"
PhaseStart == CASE Phase = "cold" -> 0 [] Phase = "warm-up" -> Cold [] OTHER -> Cold + Warmup

\* Every phase cycles through the arguments from the first.
Argument == ((k - PhaseStart) % NumArgs[w]) + 1

\* Mutant: the last answer decides the verdict.
SampleLastAnswer(outcome) ==
  [result EXCEPT !.samples = Append(@, outcome), !.mismatches = IF outcome = "wrong" THEN 1 ELSE 0]

\* Mutant: the cap is one too high.
SampleOverCap(outcome) ==
  [result EXCEPT !.samples = Append(@, outcome),
                 !.mismatches = IF outcome = "wrong" /\ @ <= MismatchCap THEN @ + 1 ELSE @]

\* Mutant: a failed call leaves no sample.
SampleUnlessFailed(outcome) ==
  IF outcome = "failed" THEN result
  ELSE [result EXCEPT !.samples = Append(@, outcome),
                      !.mismatches = IF outcome = "wrong" /\ @ < MismatchCap THEN @ + 1 ELSE @]

\* A measured sample is kept whether or not it failed, a mismatch up to the cap.
MeasuredSample(outcome) ==
  [result EXCEPT !.samples = Append(@, outcome),
                 !.mismatches = IF outcome = "wrong" /\ @ < MismatchCap THEN @ + 1 ELSE @]

\* Mutant: the workload is given up at its first failure.
CallsAfterFirst(outcome) == IF outcome = "failed" THEN Calls ELSE k + 1

CallsAfter(outcome) == k + 1

Call(outcome) ==
  /\ pc = "calls" /\ k < Calls
  /\ faults' = IF outcome = "right" THEN faults ELSE faults + 1
  /\ faults' <= MaxFaults
  /\ asked' = [asked EXCEPT ![cur] =
       Append(@, [workload |-> w, phase |-> Phase, arg |-> Argument])]
  /\ result' = CASE Phase = "cold" -> [result EXCEPT !.cold = Append(@, outcome)]
                 [] Phase = "measured" -> MeasuredSample(outcome)
                 [] OTHER -> result
  /\ k' = CallsAfter(outcome)
  /\ UNCHANGED <<disk, run, pc, chosen, todo, results, cur, entry, w, level>>

Count(outcomes, wanted) == Cardinality({i \in DOMAIN outcomes : outcomes[i] \in wanted})

Verdict ==
  CASE result.mismatches > 0 -> "MISMATCH"
    [] result.mismatches = 0 /\ result.samples # <<>> -> "ok"
    [] OTHER -> "unchecked"

Payload ==
  [n |-> Count(result.samples, {"right", "wrong"}),
   failures |-> Count(result.samples, {"failed"}),
   verdict |-> Verdict,
   mismatches |-> IF result.mismatches < MismatchesShown THEN result.mismatches ELSE MismatchesShown,
   cold |-> Count(result.cold, {"right", "wrong"})]

RawLines ==
  [i \in DOMAIN result.cold |-> [phase |-> "cold", outcome |-> result.cold[i]]]
    \o [i \in DOMAIN result.samples |-> [phase |-> "measured", outcome |-> result.samples[i]]]

NextWorkload ==
  /\ pc' = IF w < Len(NumArgs) THEN "calls" ELSE "levels"
  /\ w' = IF w < Len(NumArgs) THEN w + 1 ELSE w
  /\ k' = 0 /\ result' = NoSamples

\* The payload goes into the entry first, then the raw samples into their file, which
\* can raise: then the payload stays and the file is not complete.
FinishWorkload ==
  /\ pc = "calls" /\ k = Calls
  /\ entry' = [entry EXCEPT !.workloads[w] = Payload]
  /\ \/ NextWorkload /\ raw' = [raw EXCEPT ![cur][w] = RawLines]
     \/ pc' = "broken" /\ UNCHANGED <<raw, w, k, result>>
  /\ UNCHANGED <<torn, file, finished, run, chosen, todo, results, cur, level, asked, faults>>

\* run_mixed at the next client count: it returns its record or raises.
MixedLevel ==
  /\ pc = "levels" /\ level < NumLevels
  /\ \/ /\ level' = level + 1 /\ entry' = [entry EXCEPT !.mixed = @ + 1]
        /\ UNCHANGED pc
     \/ pc' = "broken" /\ UNCHANGED <<level, entry>>
  /\ UNCHANGED <<disk, run, chosen, todo, results, cur, w, k, result, asked, faults>>

\* What the platform exposes, or that it is not observable.
Footprint ==
  /\ pc = "levels" /\ level = NumLevels /\ pc' = "close"
  /\ \E observable \in BOOLEAN :
       entry' = [entry EXCEPT !.footprint = observable, !.status = "measured"]
  /\ UNCHANGED <<disk, run, chosen, todo, results, cur, w, k, result, level, asked, faults>>

-----------------------------------------------------------------------------

NoMoreRuns == pc = "idle" /\ run = MaxRuns /\ UNCHANGED vars

Next ==
  \/ Start \/ Pick \/ ConnectFails \/ Connect \/ Break \/ Close
  \/ LastSave \/ BeginSave \/ EndSave \/ Exit \/ Crash
  \/ \E outcome \in Outcomes : Call(outcome)
  \/ FinishWorkload \/ MixedLevel \/ Footprint
  \/ NoMoreRuns

Spec == Init /\ [][Next]_vars

-----------------------------------------------------------------------------
(* The report: the cells make_report.py prints for workload v of entry e. *)

LatencyCell(e, v) ==
  LET p == e.workloads[v]
  IN  [measured |-> p.n > 0, warned |-> p.verdict = "MISMATCH", failed |-> p.failures]

CorrectnessCell(e, v) ==
  CASE e.workloads[v].verdict = "not_run" -> "not_run"
    [] e.workloads[v].verdict = "ok" -> "check_mark"
    [] e.workloads[v].verdict = "MISMATCH" -> "cross"
    [] OTHER -> "dash"

-----------------------------------------------------------------------------
(* What the scripts that publish see of the benchmark: Report's writer.      *)

Reached(e) ==
  IF e.status = "connect_failed" THEN "unconnected"
  ELSE IF e.mixed > 0 THEN "levels" ELSE "workloads"
Shown(e) ==
  IF e.status = "absent" THEN [status |-> "absent", run |-> 0]
  ELSE [status |-> Reached(e), run |-> e.run]
AllShown(entries) == [t \in Targets |-> Shown(entries[t])]
NoneShown == [t \in Targets |-> [status |-> "absent", run |-> 0]]

ResultsJson ==
  IF torn THEN [state |-> "torn", data |-> NoneShown]
  ELSE [state |-> IF file.run = 0 THEN "absent" ELSE "whole", data |-> AllShown(file.entries)]
NoFiles ==
  [f \in {"results-cloud.json", "results-lab.json", "results.json"} |->
     [state |-> "absent", data |-> NoneShown]]
Files == [NoFiles EXCEPT !["results.json"] = ResultsJson]

\* The target being measured is one that is still to measure, until its entry is written.
UnderWay == {"connect", "calls", "levels", "broken", "close", "save"}
Progress ==
  IF pc \in {"idle", "finished"}
  THEN [pc |-> "idle", chosen |-> {}, todo |-> {}, results |-> NoneShown]
  ELSE [pc |-> IF pc \in {"saving", "last_saving"} THEN pc ELSE "run",
        chosen |-> chosen,
        todo |-> IF pc \in UnderWay THEN todo \cup {cur} ELSE todo,
        results |-> AllShown(IF pc = "save" THEN [results EXCEPT ![cur] = NoEntry] ELSE results)]

NoReader == [pc |-> "idle", call |-> 0, left |-> {}, merged |-> NoneShown, seen |-> NoFiles]
NoChart == [latency |-> NoneShown, mixed |-> NoneShown]

\* Nobody reads or copies the file, whichever track a target is on.
Publication ==
  INSTANCE Report
    WITH Track <- [t \in Targets |-> "lab"], MaxReports <- 0,
         files <- Files, runs <- run, bench <- Progress, calls <- 0,
         reader <- [r \in {"make_report", "make_charts"} |-> NoReader],
         csv <- [of |-> 0, rows |-> NoneShown], tables <- [of |-> 0, data |-> NoneShown],
         charts <- [track \in {"lab", "cloud"} |-> NoChart]

-----------------------------------------------------------------------------
(* Properties. *)

PayloadType ==
  [n : 0 .. Iterations, failures : 0 .. Iterations, mismatches : 0 .. MismatchCap, cold : 0 .. Cold,
   verdict : {"not_run", "ok", "MISMATCH", "unchecked"}]
EntryType ==
  [status : {"absent", "measuring", "connect_failed", "run_failed", "measured"}, run : 0 .. MaxRuns,
   workloads : [Workloads -> PayloadType], mixed : 0 .. NumLevels, footprint : BOOLEAN]

TypeOK ==
  /\ torn \in BOOLEAN /\ file.run \in 0 .. MaxRuns /\ file.entries \in [Targets -> EntryType]
  /\ run \in 0 .. MaxRuns /\ pc \in Steps /\ chosen \subseteq Targets /\ todo \subseteq chosen
  /\ results \in [Targets -> EntryType] /\ cur \in Targets /\ entry \in EntryType
  /\ w \in Workloads /\ k \in 0 .. Calls /\ level \in 0 .. NumLevels
  /\ result.mismatches \in 0 .. MismatchCap
  /\ Len(result.cold) <= Cold /\ Len(result.samples) <= Iterations

\* Every target is asked the same queries in the same order, whatever it or another one
\* answers (common.py:202-205); one that broke was asked the first of them.
SameQueries ==
  \A t, u \in Targets : IsPrefix(asked[t], asked[u]) \/ IsPrefix(asked[u], asked[t])

Published(t) == ~torn /\ file.run = run /\ file.entries[t].status = "measured"
Answers(t, v, wanted) ==
  Cardinality({i \in DOMAIN raw[t][v] : raw[t][v][i].phase = "measured" /\ raw[t][v][i].outcome \in wanted})

\* What results.json says of a target that was measured to the end can be recomputed from
\* the raw samples of that run (run_benchmark.py:10-11): nothing failed was dropped
\* (common.py:180-181), and no cold or warm-up sample was counted.
RawBacksResults ==
  \A t \in Targets, v \in Workloads : Published(t) =>
    LET p == file.entries[t].workloads[v]
    IN  /\ p.n = Answers(t, v, {"right", "wrong"})
        /\ p.failures = Answers(t, v, {"failed"})
        /\ p.n + p.failures = Iterations

\* One wrong answer among the measured ones is enough for both tables to show it, however
\* many right ones surround it; without one neither does.
WrongAnswersShow ==
  \A t \in Targets, v \in Workloads : Published(t) =>
    LET wrong == Answers(t, v, {"wrong"}) > 0
    IN  /\ wrong <=> LatencyCell(file.entries[t], v).measured /\ LatencyCell(file.entries[t], v).warned
        /\ wrong <=> CorrectnessCell(file.entries[t], v) = "cross"

\* A run that comes to its end leaves an entry for each of its targets, the ones it could
\* not connect to included, and all workloads and levels of those that did not break.
EveryTargetReported ==
  pc = "finished" =>
    /\ ~torn /\ file.run = run
    /\ \A t \in chosen :
         /\ file.entries[t].status \in {"connect_failed", "run_failed", "measured"}
         /\ file.entries[t].status = "measured" =>
              /\ file.entries[t].mixed = NumLevels
              /\ \A v \in Workloads : file.entries[t].workloads[v] # NotRun

\* Once a target was measured a crash in a later one does not lose it, unless it tears
\* the file.
MeasuredIsSaved ==
  pc \in {"next", "connect", "calls", "levels"} =>
    \A t \in Targets : results[t].status \in {"measured", "run_failed"} =>
      ~torn /\ file.entries[t] = results[t]

\* The entries of a file are all of the run whose manifest it carries.
FileOfOneRun ==
  \A t \in Targets : file.entries[t].status # "absent" => file.entries[t].run = file.run

\* Seen from outside the benchmark does to results.json what Report lets its writer do:
\* it replaces the file as a whole, by entries of the run under way and by more of them
\* each time, and leaves it torn if it is stopped in between.
Publishes == Publication!Spec

\* make_report.py:5-6: "A workload that failed, or whose results did not match ground
\* truth, is rendered as such": a check mark means that some answer was right.
CheckMarkEarned ==
  \A t \in Targets, v \in Workloads :
    Published(t) /\ CorrectnessCell(file.entries[t], v) = "check_mark" => Answers(t, v, {"right"}) > 0
=============================================================================
