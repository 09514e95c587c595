----------------------- MODULE BenchPublicationProofs -----------------------
(***************************************************************************)
(* The benchmark implements the writer of Report: what BenchRun does to    *)
(* results.json, one call at a time, is what Report takes it to do in a    *)
(* step or two for each target, for every number of targets, workloads,    *)
(* calls and runs.                                                         *)
(***************************************************************************)
EXTENDS BenchRunProofs

\* A target is recorded before the file is written, and no longer on the list.
SaveInv ==
  pc = "save" => /\ cur \notin todo /\ cur \in Targets
                 /\ results[cur].status \in {"run_failed", "measured"}

LEMMA SaveStep == IInv /\ SaveInv /\ [Next]_vars => SaveInv'
<1>. SUFFICES ASSUME TypeOK, EntryInv, SaveInv, [Next]_vars, pc' = "save" PROVE SaveInv'
  BY DEF IInv, SaveInv
<1>1. CASE Close
  <2>1. cur' = cur /\ todo' = todo /\ results' = [results EXCEPT ![cur] = entry] /\ pc = "close"
    BY <1>1 DEF Close, target
  <2>2. cur \notin todo /\ entry.status \in {"run_failed", "measured"}
    BY <2>1 DEF EntryInv, Busy
  <2>3. cur \in Targets /\ results'[cur] = entry
    BY <2>1 DEF TypeOK
  <2>. QED  BY <2>1, <2>2, <2>3 DEF SaveInv
<1>2. CASE UNCHANGED vars
  BY <1>2 DEF SaveInv, vars, target
<1>. QED  BY <1>1, <1>2
     DEF Next, Start, Begin, Pick, ConnectFails, Connect, Break, LastSave, BeginSave, EndSave, Exit,
         Crash, Ended, Call, FinishWorkload, NextWorkload, MixedLevel, Footprint, NoMoreRuns

-----------------------------------------------------------------------------
(* The names of Report in terms of this module. *)

LEMMA ReportNames ==
  /\ Publication!NoEntry = [status |-> "absent", run |-> 0]
  /\ Publication!Nothing = NoneShown
  /\ Publication!Torn = [state |-> "torn", data |-> NoneShown]
  /\ \A data : Publication!Whole(data) = [state |-> "whole", data |-> data]
  /\ Publication!BenchOver = [pc |-> "idle", chosen |-> {}, todo |-> {}, results |-> NoneShown]
BY DEF Publication!NoEntry, Publication!Nothing, Publication!Torn, Publication!Whole,
       Publication!BenchOver, NoneShown

\* Readers that never run do nothing.
LEMMA NobodyReads == UNCHANGED Publication!readers
BY DEF Publication!readers

LEMMA ShownFacts ==
  /\ Shown(NoEntry) = [status |-> "absent", run |-> 0]
  /\ AllShown(Nothing) = NoneShown
  /\ \A e : e.status = "connect_failed" => Shown(e) = [status |-> "unconnected", run |-> e.run]
  /\ \A e : e.status \in {"run_failed", "measured"} =>
       \E status \in {"workloads", "levels"} : Shown(e) = [status |-> status, run |-> e.run]
<1>1. NoEntry.status = "absent" /\ NoEntry.run = 0
  BY DEF NoEntry
<1>2. ASSUME NEW e, e.status \in {"run_failed", "measured"}
      PROVE  \E status \in {"workloads", "levels"} : Shown(e) = [status |-> status, run |-> e.run]
  BY <1>2 DEF Shown, Reached
<1>3. ASSUME NEW e, e.status = "connect_failed"
      PROVE  Shown(e) = [status |-> "unconnected", run |-> e.run]
  BY <1>3 DEF Shown, Reached
<1>4. Shown(NoEntry) = [status |-> "absent", run |-> 0]
  BY <1>1 DEF Shown
<1>5. AllShown(Nothing) = NoneShown
  BY <1>4 DEF AllShown, NoneShown, Nothing
<1>. QED  BY <1>2, <1>3, <1>4, <1>5

\* The file that is shown depends on results.json alone.
LEMMA FilesShown ==
  /\ torn' = torn /\ file' = file => Files' = Files
  /\ torn' = TRUE => Files' = [Files EXCEPT !["results.json"] = Publication!Torn]
  /\ torn' = FALSE /\ file'.run # 0 =>
       Files' = [Files EXCEPT !["results.json"] = Publication!Whole(AllShown(file'.entries))]
<1>1. torn' = TRUE => ResultsJson' = Publication!Torn
  BY ReportNames DEF ResultsJson, NoneShown
<1>2. torn' = FALSE /\ file'.run # 0 => ResultsJson' = Publication!Whole(AllShown(file'.entries))
  BY ReportNames DEF ResultsJson, AllShown, Shown, Reached
<1>3. torn' = torn /\ file' = file => ResultsJson' = ResultsJson
  BY DEF ResultsJson, AllShown, Shown, Reached, NoneShown
<1>4. \A new : [NoFiles EXCEPT !["results.json"] = new] = [Files EXCEPT !["results.json"] = new]
  BY DEF Files, NoFiles
<1>. QED  BY <1>1, <1>2, <1>3, <1>4 DEF Files, NoFiles

-----------------------------------------------------------------------------
(* Each step of the benchmark is one of the writer's or none. *)

LEMMA Quiet ==
  ASSUME UNCHANGED <<torn, file, run, finished>>, Progress' = Progress
  PROVE  UNCHANGED Publication!vars
<1>1. Files' = Files
  BY FilesShown
<1>. QED  BY <1>1 DEF Publication!vars

\* An entry among the results is shown among those that are shown.
LEMMA ShownExcept ==
  ASSUME NEW entries \in [Targets -> EntryType], NEW t \in Targets, NEW e
  PROVE  AllShown([entries EXCEPT ![t] = e]) = [AllShown(entries) EXCEPT ![t] = Shown(e)]
BY DEF AllShown

\* Where the benchmark is, as the writer's record.
LEMMA ProgressIs ==
  /\ pc \in {"idle", "finished"} => Progress = Publication!BenchOver
  /\ pc \in {"next", "last_save"} =>
       Progress = [pc |-> "run", chosen |-> chosen, todo |-> todo, results |-> AllShown(results)]
  /\ pc \in Busy =>
       Progress = [pc |-> "run", chosen |-> chosen, todo |-> todo \cup {cur},
                   results |-> AllShown(results)]
  /\ pc = "save" =>
       Progress = [pc |-> "run", chosen |-> chosen, todo |-> todo \cup {cur},
                   results |-> AllShown([results EXCEPT ![cur] = NoEntry])]
  /\ pc \in {"saving", "last_saving"} =>
       Progress = [pc |-> pc, chosen |-> chosen, todo |-> todo, results |-> AllShown(results)]
BY ReportNames DEF Progress, Busy, UnderWay

LEMMA ProgressNext ==
  /\ pc' \in {"idle", "finished"} => Progress' = Publication!BenchOver
  /\ pc' \in {"next", "last_save"} =>
       Progress' = [pc |-> "run", chosen |-> chosen', todo |-> todo', results |-> AllShown(results')]
  /\ pc' \in Busy =>
       Progress' = [pc |-> "run", chosen |-> chosen', todo |-> todo' \cup {cur'},
                    results |-> AllShown(results')]
  /\ pc' = "save" =>
       Progress' = [pc |-> "run", chosen |-> chosen', todo |-> todo' \cup {cur'},
                    results |-> AllShown([results' EXCEPT ![cur'] = NoEntry])]
  /\ pc' \in {"saving", "last_saving"} =>
       Progress' = [pc |-> pc', chosen |-> chosen', todo |-> todo', results |-> AllShown(results')]
BY ReportNames DEF Progress, Busy, UnderWay, AllShown, Shown, Reached

\* main begins: an empty dictionary and all its targets to measure.
LEMMA StartMaps == Start => Publication!BenchStart
<1>. SUFFICES ASSUME Start PROVE Publication!BenchStart
  OBVIOUS
<1>1. /\ pc = "idle" /\ run < MaxRuns /\ run' = run + 1 /\ pc' = "next"
      /\ chosen' \in (SUBSET Targets) \ {{}} /\ todo' = chosen' /\ results' = Nothing
      /\ torn' = torn /\ file' = file /\ finished' = finished
  BY DEF Start, Begin
<1>2. Files' = Files
  BY <1>1, FilesShown
<1>3. Progress = Publication!BenchOver /\ Progress.pc = "idle"
  BY <1>1, ProgressIs, ReportNames
<1>4. Progress' = [pc |-> "run", chosen |-> chosen', todo |-> chosen', results |-> Publication!Nothing]
  BY <1>1, ProgressNext, ShownFacts, ReportNames
<1>. QED  BY <1>1, <1>2, <1>3, <1>4, NobodyReads DEF Publication!BenchStart

\* The writer's record after a target, its three fields changed one after another.
Recording(B, t, e, p) == [B EXCEPT !.todo = @ \ {t}, !.results[t] = e, !.pc = p]

LEMMA TargetDone ==
  ASSUME NEW to, NEW left, NEW shown, NEW t, NEW e, NEW p
  PROVE  Recording([pc |-> "run", chosen |-> to, todo |-> left, results |-> shown], t, e, p)
           = [pc |-> p, chosen |-> to, todo |-> left \ {t}, results |-> [shown EXCEPT ![t] = e]]
<1>. DEFINE B == [pc |-> "run", chosen |-> to, todo |-> left, results |-> shown]
            B1 == [pc |-> "run", chosen |-> to, todo |-> left \ {t}, results |-> shown]
            B2 == [pc |-> "run", chosen |-> to, todo |-> left \ {t}, results |-> [shown EXCEPT ![t] = e]]
<1>1. [B EXCEPT !.todo = @ \ {t}] = B1
  OBVIOUS
<1>2. [B1 EXCEPT !.results[t] = e] = B2
  OBVIOUS
<1>3. [B2 EXCEPT !.pc = p]
        = [pc |-> p, chosen |-> to, todo |-> left \ {t}, results |-> [shown EXCEPT ![t] = e]]
  OBVIOUS
<1>. HIDE DEF B, B1, B2
<1>4. Recording(B, t, e, p) = [[[B EXCEPT !.todo = @ \ {t}] EXCEPT !.results[t] = e] EXCEPT !.pc = p]
  BY DEF Recording
<1>. QED  BY <1>1, <1>2, <1>3, <1>4 DEF B

\* A target that could not be connected to: its entry, and no write.
LEMMA ConnectFailsMaps ==
  ASSUME TypeOK, EntryInv, ConnectFails
  PROVE  \E t \in Targets, status \in Publication!Statuses : Publication!Measure(t, status)
<1>. DEFINE e == [entry EXCEPT !.status = "connect_failed"]
<1>1. /\ pc = "connect" /\ pc' = "next" /\ results' = [results EXCEPT ![cur] = e]
      /\ UNCHANGED <<torn, file, finished, run, chosen, todo, cur>>
  BY DEF ConnectFails, disk, target
<1>2. /\ cur \in Targets /\ cur \notin todo /\ results \in [Targets -> EntryType]
      /\ entry.run = run /\ entry \in EntryType
  BY <1>1 DEF TypeOK, EntryInv, Busy
<1>3. Shown(e) = [status |-> "unconnected", run |-> run]
  <2>1. e.status = "connect_failed" /\ e.run = run
    BY <1>2 DEF EntryType
  <2>. HIDE DEF e
  <2>. QED  BY <2>1, ShownFacts
<1>4. Progress = [pc |-> "run", chosen |-> chosen, todo |-> todo \cup {cur}, results |-> AllShown(results)]
  BY <1>1, ProgressIs DEF Busy
<1>5. Progress' = [pc |-> "run", chosen |-> chosen, todo |-> todo,
                   results |-> [AllShown(results) EXCEPT ![cur] = [status |-> "unconnected", run |-> run]]]
  <2>1. AllShown(results') = [AllShown(results) EXCEPT ![cur] = Shown(e)]
    <3>. HIDE DEF e
    <3>. QED  BY <1>1, <1>2, ShownExcept
  <2>. QED  BY <1>1, <1>3, <2>1, ProgressNext
<1>6. Files' = Files
  BY <1>1, FilesShown
<1>7. Progress' = Recording(Progress, cur, [status |-> "unconnected", run |-> run], "run")
  <2>1. (todo \cup {cur}) \ {cur} = todo
    BY <1>2
  <2>. QED  BY <2>1, <1>4, <1>5, TargetDone
<1>8. Publication!Measure(cur, "unconnected")
  BY <1>1, <1>4, <1>6, <1>7, NobodyReads DEF Publication!Measure, Recording
<1>. QED  BY <1>2, <1>8 DEF Publication!Statuses

\* The write after a target: its entry is added, and the file is truncated.
LEMMA SaveMaps ==
  ASSUME TypeOK, RunInv, SaveInv, BeginSave, pc = "save"
  PROVE  \E t \in Targets, status \in Publication!Statuses : Publication!Measure(t, status)
<1>1. /\ pc' = "saving" /\ torn' = TRUE
      /\ UNCHANGED <<finished, run, chosen, todo, cur, results>>
  BY DEF BeginSave, target
<1>2. /\ cur \in Targets /\ cur \notin todo /\ results \in [Targets -> EntryType]
      /\ results[cur].status \in {"run_failed", "measured"} /\ results[cur].run = run
  BY DEF TypeOK, SaveInv, RunInv
<1>3. PICK status \in {"workloads", "levels"} :
        Shown(results[cur]) = [status |-> status, run |-> run]
  BY <1>2, ShownFacts
<1>. DEFINE before == AllShown([results EXCEPT ![cur] = NoEntry])
<1>4. Progress = [pc |-> "run", chosen |-> chosen, todo |-> todo \cup {cur}, results |-> before]
  BY ProgressIs
<1>5. AllShown(results) = [before EXCEPT ![cur] = [status |-> status, run |-> run]]
  BY <1>2, <1>3 DEF AllShown
<1>6. Progress' = [pc |-> "saving", chosen |-> chosen, todo |-> todo, results |-> AllShown(results)]
  BY <1>1, ProgressNext
<1>. HIDE DEF before
<1>7. Progress' = Recording(Progress, cur, [status |-> status, run |-> run], "saving")
  <2>1. (todo \cup {cur}) \ {cur} = todo
    BY <1>2
  <2>. QED  BY <2>1, <1>4, <1>5, <1>6, TargetDone
<1>8. Publication!Truncate
  BY <1>1, FilesShown DEF Publication!Truncate
<1>9. Publication!Measure(cur, status)
  BY <1>1, <1>3, <1>4, <1>7, <1>8, NobodyReads DEF Publication!Measure, Recording
<1>. QED  BY <1>2, <1>9 DEF Publication!Statuses

\* The write after the loop.
LEMMA LastSaveMaps ==
  ASSUME DoneInv, BeginSave, pc = "last_save"
  PROVE  Publication!LastSave
<1>1. /\ pc' = "last_saving" /\ torn' = TRUE /\ todo = {}
      /\ UNCHANGED <<finished, run, chosen, todo, cur, results>>
  BY DEF BeginSave, target, DoneInv
<1>2. Progress = [pc |-> "run", chosen |-> chosen, todo |-> {}, results |-> AllShown(results)]
  BY <1>1, ProgressIs
<1>3. Progress' = [pc |-> "last_saving", chosen |-> chosen, todo |-> {}, results |-> AllShown(results)]
  BY <1>1, ProgressNext
<1>. QED  BY <1>1, <1>2, <1>3, FilesShown, NobodyReads DEF Publication!LastSave, Publication!Truncate

\* The file is whole again; the run is over with its last write.
LEMMA EndSaveMaps ==
  ASSUME TypeOK, RunInv, EndSave
  PROVE  Publication!Saved
<1>1. /\ pc \in {"saving", "last_saving"} /\ pc' = IF pc = "saving" THEN "next" ELSE "finished"
      /\ torn' = FALSE /\ file' = [run |-> run, entries |-> results]
      /\ finished' = [t \in Targets |->
           IF pc = "last_saving" /\ t \in chosen THEN run ELSE finished[t]]
      /\ UNCHANGED <<run, chosen, todo, cur, results>>
  BY DEF EndSave, target
<1>2. file'.run # 0 /\ file'.entries = results
  BY <1>1 DEF RunInv, TypeOK
<1>3. Progress = [pc |-> pc, chosen |-> chosen, todo |-> todo, results |-> AllShown(results)]
  BY <1>1, ProgressIs
<1>4. Files' = [Files EXCEPT !["results.json"] = Publication!Whole(Progress.results)]
  BY <1>1, <1>2, <1>3, FilesShown
<1>5. Progress' = IF Progress.pc = "saving" THEN [Progress EXCEPT !.pc = "run"]
                  ELSE Publication!BenchOver
  <2>1. CASE pc = "saving"
    <3>1. Progress' = [pc |-> "run", chosen |-> chosen, todo |-> todo, results |-> AllShown(results)]
      BY <1>1, <2>1, ProgressNext
    <3>. QED  BY <1>3, <2>1, <3>1
  <2>2. CASE pc = "last_saving"
    BY <1>1, <1>3, <2>2, ProgressNext
  <2>. QED  BY <1>1, <2>1, <2>2
<1>6. finished' = [t \in Targets |->
        IF Progress.pc = "last_saving" /\ t \in Progress.chosen THEN run ELSE finished[t]]
  BY <1>1, <1>3
<1>. QED  BY <1>1, <1>3, <1>4, <1>5, <1>6, NobodyReads DEF Publication!Saved

\* A run that ends, or dies: the file stays as it is.
LEMMA EndedMaps ==
  ASSUME TypeOK, Ended
  PROVE  \/ Publication!BenchCrash
         \/ UNCHANGED Publication!vars
<1>1. pc' = "idle" /\ UNCHANGED <<torn, file, finished, run>>
  BY DEF Ended, disk
<1>2. Progress' = Publication!BenchOver /\ Files' = Files
  BY <1>1, ProgressNext, FilesShown
<1>3. CASE pc \in {"idle", "finished"}
  BY <1>1, <1>2, <1>3, ProgressIs, Quiet
<1>4. CASE pc \notin {"idle", "finished"}
  <2>1. pc \in {"next", "last_save"} \cup Busy \cup {"save", "saving", "last_saving"}
    BY <1>4 DEF TypeOK, Steps, Busy
  <2>2. Progress.pc # "idle"
    BY <2>1, ProgressIs
  <2>. QED  BY <1>1, <1>2, <2>2, NobodyReads DEF Publication!BenchCrash
<1>. QED  BY <1>3, <1>4

\* The calls, the workloads and the mixed levels of a target do not show.
LEMMA MeasuringIsQuiet ==
  ASSUME Connect \/ Break \/ (\E outcome \in Outcomes : Call(outcome)) \/ FinishWorkload \/ MixedLevel
           \/ Footprint
  PROVE  UNCHANGED Publication!vars
<1>1. /\ pc \in Busy /\ pc' \in Busy
      /\ UNCHANGED <<torn, file, finished, run, chosen, todo, results, cur>>
  BY MeasuringSteps DEF Measuring
<1>2. Progress' = Progress
  BY <1>1, ProgressIs, ProgressNext
<1>. QED  BY <1>1, <1>2, Quiet

\* Neither does what happens between the targets in memory.
LEMMA BetweenIsQuiet ==
  ASSUME TypeOK, EntryInv, RunInv, Pick \/ Close \/ LastSave
  PROVE  UNCHANGED Publication!vars
<1>1. CASE Pick
  <2>1. PICK t \in todo : cur' = t /\ todo' = todo \ {t}
    BY <1>1 DEF Pick
  <2>2. /\ pc = "next" /\ pc' = "connect" /\ UNCHANGED <<torn, file, finished, run, chosen, results>>
    BY <1>1 DEF Pick, disk
  <2>3. todo' \cup {cur'} = todo
    BY <2>1
  <2>4. Progress' = Progress
    BY <2>2, <2>3, ProgressIs, ProgressNext DEF Busy
  <2>. QED  BY <2>2, <2>4, Quiet
<1>2. CASE Close
  <2>1. /\ pc = "close" /\ pc' = "save" /\ results' = [results EXCEPT ![cur] = entry]
        /\ UNCHANGED <<torn, file, finished, run, chosen, todo, cur>>
    BY <1>2 DEF Close, disk, target
  <2>2. results[cur].status = "absent" /\ results \in [Targets -> EntryType]
    BY <2>1 DEF RunInv, Busy, TypeOK
  <2>3. Shown(results[cur]) = Shown(NoEntry)
    BY <2>2, ShownFacts DEF Shown
  <2>4. AllShown([results' EXCEPT ![cur] = NoEntry]) = AllShown(results)
    BY <2>1, <2>2, <2>3 DEF AllShown
  <2>5. Progress' = Progress
    BY <2>1, <2>4, ProgressIs, ProgressNext DEF Busy
  <2>. QED  BY <2>1, <2>5, Quiet
<1>3. CASE LastSave
  <2>1. /\ pc = "next" /\ pc' = "last_save"
        /\ UNCHANGED <<torn, file, finished, run, chosen, todo, results>>
    BY <1>3 DEF LastSave, disk
  <2>2. Progress' = Progress
    BY <2>1, ProgressIs, ProgressNext
  <2>. QED  BY <2>1, <2>2, Quiet
<1>. QED  BY <1>1, <1>2, <1>3

\* Nothing happens to results.json, however a run is stopped, that Report does not have its
\* writer do: its properties hold of what this benchmark publishes.
THEOREM PublishesAsReported == Spec => Publishes
<1>1. Init => Publication!Init /\ SaveInv
  <2>. SUFFICES ASSUME Init PROVE Publication!Init /\ SaveInv
    OBVIOUS
  <2>1. /\ torn = FALSE /\ file = [run |-> 0, entries |-> Nothing] /\ run = 0 /\ pc = "idle"
        /\ finished = [t \in Targets |-> 0]
    BY DEF Init
  <2>2. ResultsJson = [state |-> "absent", data |-> NoneShown]
    BY <2>1, ShownFacts DEF ResultsJson
  <2>3. Files = Publication!NoFiles
    BY <2>2, ReportNames DEF Files, NoFiles, Publication!NoFiles, Publication!Absent,
       Publication!FileNames, Publication!Sorted, Publication!Range
  <2>4. Progress = Publication!BenchOver
    BY <2>1, ProgressIs
  <2>5. NoReader = Publication!Ended /\ NoChart = Publication!NoPicture
    BY <2>3, ReportNames DEF NoReader, NoChart, Publication!Ended, Publication!NoPicture, Files,
       NoFiles, Publication!NoFiles, Publication!Absent, Publication!FileNames, Publication!Sorted,
       Publication!Range
  <2>6. Publication!Init
    BY <2>1, <2>3, <2>4, <2>5, ReportNames
       DEF Publication!Init, Publication!Readers, Publication!Tracks
  <2>. QED  BY <2>1, <2>6 DEF SaveInv
<1>2. IInv /\ SaveInv /\ [Next]_vars => [Publication!Next]_(Publication!vars)
  <2>. SUFFICES ASSUME IInv, SaveInv, [Next]_vars PROVE [Publication!Next]_(Publication!vars)
    OBVIOUS
  <2>0. TypeOK /\ EntryInv /\ RunInv /\ DoneInv
    BY DEF IInv
  <2>1. CASE Start
    BY <2>1, StartMaps DEF Publication!Next
  <2>2. CASE ConnectFails
    BY <2>0, <2>2, ConnectFailsMaps DEF Publication!Next
  <2>3. CASE BeginSave
    <3>1. pc \in {"save", "last_save"}
      BY <2>3 DEF BeginSave
    <3>. QED  BY <2>0, <2>3, <3>1, SaveMaps, LastSaveMaps DEF Publication!Next
  <2>4. CASE EndSave
    BY <2>0, <2>4, EndSaveMaps DEF Publication!Next
  <2>5. CASE Exit \/ Crash
    BY <2>0, <2>5, EndedMaps DEF Exit, Crash, Publication!Next
  <2>6. CASE Connect \/ Break \/ (\E outcome \in Outcomes : Call(outcome)) \/ FinishWorkload
               \/ MixedLevel \/ Footprint
    BY <2>6, MeasuringIsQuiet
  <2>7. CASE Pick \/ Close \/ LastSave
    BY <2>0, <2>7, BetweenIsQuiet
  <2>8. CASE UNCHANGED vars
    <3>1. UNCHANGED <<torn, file, run, finished>> /\ Progress' = Progress
      BY <2>8 DEF vars, disk, target, Progress, AllShown, Shown, Reached, UnderWay, NoneShown, NoEntry
    <3>. QED  BY <3>1, Quiet
  <2>. QED  BY <2>1, <2>2, <2>3, <2>4, <2>5, <2>6, <2>7, <2>8 DEF Next, NoMoreRuns
<1>. QED  BY <1>1, <1>2, SaveStep, Inductive, PTL DEF Spec, Publishes, Publication!Spec
=============================================================================
