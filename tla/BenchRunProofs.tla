--------------------------- MODULE BenchRunProofs ---------------------------
(***************************************************************************)
(* The benchmark keeps its guarantees for every set of targets, every list *)
(* of workloads and every number of cold, warm-up and measured calls.      *)
(***************************************************************************)
EXTENDS BenchRun, FiniteSetTheorems, SequenceTheorems, TLAPS

Busy == {"connect", "calls", "levels", "broken", "close"}

\* What the samples of the workload under way amount to.
ResultInv ==
  /\ result = [cold |-> result.cold, samples |-> result.samples, mismatches |-> result.mismatches]
  /\ result.cold \in Seq(Outcomes) /\ result.samples \in Seq(Outcomes)
  /\ pc = "connect" => w = 1 /\ k = 0 /\ result = NoSamples
  /\ pc = "calls" => /\ Len(result.cold) = IF k < Cold THEN k ELSE Cold
                     /\ Len(result.samples) = IF k < Cold + Warmup THEN 0 ELSE k - Cold - Warmup
  /\ result.mismatches > 0 <=> \E i \in DOMAIN result.samples : result.samples[i] = "wrong"

\* Whose entry says what while a target is measured.
EntryInv ==
  /\ pc \in Busy => entry.run = run /\ cur \in chosen /\ cur \notin todo
  /\ pc \in {"connect", "calls"} => level = 0
  /\ pc \in {"connect", "calls", "levels", "broken"} => entry.status = "measuring"
  /\ pc \in {"connect", "calls", "levels"} => entry.mixed = level
  /\ pc = "close" => entry.status \in {"run_failed", "measured"}

\* The entries in memory and on disk are of the run that made them.
RunInv ==
  /\ \A t \in Targets : results[t].status # "absent" => results[t].run = run
  /\ FileOfOneRun
  /\ file.run <= run
  /\ torn => file = [run |-> 0, entries |-> Nothing]
  /\ pc = "idle" => results = Nothing
  /\ pc # "idle" => run > 0
  /\ pc # "idle" => \A t \in todo : results[t].status = "absent"
  /\ pc \in Busy => results[cur].status = "absent"
  /\ pc # "idle" /\ file.run = run =>
       \A t \in Targets : results[t].status = "absent" => file.entries[t].status = "absent"

\* An entry that will not change any more.
Final(e) ==
  /\ e.status \in {"connect_failed", "run_failed", "measured"}
  /\ e.status = "measured" => e.mixed = NumLevels /\ \A v \in Workloads : e.workloads[v] # NotRun

\* How far the entries of the chosen targets are.
DoneInv ==
  /\ pc # "idle" => \A t \in chosen \ todo : t # cur \/ pc \notin Busy => Final(results[t])
  /\ pc = "calls" => \A v \in Workloads : v < w => entry.workloads[v] # NotRun
  /\ pc = "levels" => \A v \in Workloads : entry.workloads[v] # NotRun
  /\ pc = "close" => Final(entry)
  /\ pc \in {"last_save", "last_saving", "finished"} => todo = {}
  /\ pc = "finished" => ~torn /\ file.run = run /\ file.entries = results

\* The numbers of a workload are those of its raw samples.
Measured(lines, wanted) ==
  Cardinality({i \in DOMAIN lines : lines[i].phase = "measured" /\ lines[i].outcome \in wanted})

Backed(p, lines) ==
  /\ p.n = Measured(lines, {"right", "wrong"}) /\ p.failures = Measured(lines, {"failed"})
  /\ p.n + p.failures = Iterations
  /\ Measured(lines, {"wrong"}) > 0 <=> p.verdict = "MISMATCH"
  /\ p.verdict = "MISMATCH" => p.n > 0

SampleInv ==
  /\ raw \in [Targets -> [Workloads -> Seq([phase : {"cold", "measured"}, outcome : Outcomes])]]
  /\ pc = "calls" => \A v \in Workloads : v < w => Backed(entry.workloads[v], raw[cur][v])
  /\ pc = "levels" => \A v \in Workloads : Backed(entry.workloads[v], raw[cur][v])
  /\ pc = "close" /\ entry.status = "measured" =>
       \A v \in Workloads : Backed(entry.workloads[v], raw[cur][v])
  /\ \A t \in Targets : results[t].status = "measured" =>
       \A v \in Workloads : Backed(results[t].workloads[v], raw[t][v])
  /\ \A t \in Targets : file.run = run /\ file.entries[t].status = "measured" =>
       \A v \in Workloads : Backed(file.entries[t].workloads[v], raw[t][v])

\* The query at position j of workload v.
Query(v, j) ==
  LET phase == IF j < Cold THEN "cold" ELSE IF j < Cold + Warmup THEN "warm-up" ELSE "measured"
      start == IF j < Cold THEN 0 ELSE IF j < Cold + Warmup THEN Cold ELSE Cold + Warmup
  IN  [workload |-> v, phase |-> phase, arg |-> ((j - start) % NumArgs[v]) + 1]

\* How many queries come before it, and its place among them.
Before(v) == (v - 1) * Calls
Position(v, j) == Before(v) + j + 1

\* A list of calls is that of all queries, up to some place.
Queries == {Query(v, j) : v \in Workloads, j \in 0 .. Calls - 1}
Listed(calls) ==
  \A i \in 1 .. Len(calls) : \E v \in Workloads, j \in 0 .. Calls - 1 :
    i = Position(v, j) /\ calls[i] = Query(v, j)

AskedInv ==
  /\ asked \in [Targets -> Seq(Queries)]
  /\ \A t \in Targets : Listed(asked[t])
  /\ pc # "idle" => \A t \in todo : asked[t] = <<>>
  /\ pc = "connect" => asked[cur] = <<>>
  /\ pc = "calls" => Len(asked[cur]) + 1 = Position(w, k)

-----------------------------------------------------------------------------
(* Counting. *)

LEMMA Sizes ==
  /\ {Cold, Warmup, Iterations, NumLevels, MaxRuns, MaxFaults, Calls} \subseteq Nat
  /\ MismatchCap \in Nat \ {0}
  /\ Len(NumArgs) \in Nat /\ Workloads = 1 .. Len(NumArgs) /\ 1 \in Workloads
<1>1. Len(NumArgs) \in Nat \ {0}
  BY WorkloadsAssumption
<1>2. 1 \in 1 .. Len(NumArgs)
  BY <1>1
<1>. QED  BY <1>1, <1>2, PhasesAssumption, CapAssumption, RunsAssumption DEF Calls, Workloads

LEMMA Moved ==
  ASSUME NEW a \in Int, NEW b \in Int, NEW c \in Int, NEW d \in Int, a <= b + c + d
  PROVE  a - b - c <= d
OBVIOUS

LEMMA IntervalSize ==
  ASSUME NEW n \in Nat
  PROVE  IsFiniteSet(1 .. n) /\ Cardinality(1 .. n) = n
<1>1. IsFiniteSet(1 .. n) /\ Cardinality(1 .. n) = IF 1 > n THEN 0 ELSE n - 1 + 1
  BY FS_Interval
<1>. QED  BY <1>1

\* A count is at most the length of what is counted, and positive if there is something.
LEMMA CountFacts ==
  ASSUME NEW s \in Seq(Outcomes), NEW wanted
  PROVE  /\ Count(s, wanted) \in Nat /\ Count(s, wanted) <= Len(s)
         /\ Count(s, wanted) > 0 <=> \E i \in DOMAIN s : s[i] \in wanted
<1>. DEFINE C == {i \in DOMAIN s : s[i] \in wanted}
<1>1. Len(s) \in Nat /\ DOMAIN s = 1 .. Len(s)
  OBVIOUS
<1>2. IsFiniteSet(1 .. Len(s)) /\ Cardinality(1 .. Len(s)) = Len(s)
  BY <1>1, IntervalSize
<1>3. C \in SUBSET (1 .. Len(s))
  BY <1>1
<1>4. IsFiniteSet(C) /\ Cardinality(C) <= Len(s)
  BY <1>2, <1>3, FS_Subset
<1>5. Cardinality(C) \in Nat /\ (Cardinality(C) = 0 <=> C = {})
  BY <1>4, FS_CardinalityType, FS_EmptySet
<1>6. Cardinality(C) > 0 <=> C # {}
  BY <1>5
<1>. QED  BY <1>4, <1>5, <1>6 DEF Count

\* Every outcome is an answer or a failure.
LEMMA CountSplits ==
  ASSUME NEW s \in Seq(Outcomes)
  PROVE  Count(s, {"right", "wrong"}) + Count(s, {"failed"}) = Len(s)
<1>. DEFINE A == {i \in DOMAIN s : s[i] \in {"right", "wrong"}}
            F == {i \in DOMAIN s : s[i] \in {"failed"}}
<1>1. Len(s) \in Nat /\ DOMAIN s = 1 .. Len(s) /\ \A i \in 1 .. Len(s) : s[i] \in Outcomes
  OBVIOUS
<1>2. IsFiniteSet(1 .. Len(s)) /\ Cardinality(1 .. Len(s)) = Len(s)
  BY <1>1, IntervalSize
<1>3. A \cup F = 1 .. Len(s) /\ A \cap F = {}
  BY <1>1 DEF Outcomes
<1>4. IsFiniteSet(A) /\ IsFiniteSet(F)
  <2>1. A \in SUBSET (1 .. Len(s)) /\ F \in SUBSET (1 .. Len(s))
    BY <1>1
  <2>. QED  BY <1>2, <2>1, FS_Subset
<1>. HIDE DEF A, F
<1>5. Cardinality(A \cup F) = Cardinality(A) + Cardinality(F) - Cardinality(A \cap F)
  BY <1>4, FS_Union
<1>6. Cardinality(A \cap F) = 0
  BY <1>3, FS_EmptySet
<1>7. Cardinality(A) \in Nat /\ Cardinality(F) \in Nat
  BY <1>4, FS_CardinalityType
<1>8. Cardinality(A \cup F) = Len(s)
  BY <1>2, <1>3
<1>9. Cardinality(A) + Cardinality(F) = Len(s)
  BY <1>5, <1>6, <1>7, <1>8
<1>. QED  BY <1>9 DEF Count, A, F

\* The measured lines of a raw file with the outcomes of interest are the samples with them.
LEMMA LinesCount ==
  ASSUME NEW cold \in Seq(Outcomes), NEW samples \in Seq(Outcomes), NEW wanted
  PROVE  LET lines == [i \in DOMAIN cold |-> [phase |-> "cold", outcome |-> cold[i]]]
                        \o [i \in DOMAIN samples |-> [phase |-> "measured", outcome |-> samples[i]]]
         IN  Cardinality({i \in DOMAIN lines : lines[i].phase = "measured" /\ lines[i].outcome \in wanted})
               = Count(samples, wanted)
<1>. DEFINE a == Len(cold)
            b == Len(samples)
            first == [i \in DOMAIN cold |-> [phase |-> "cold", outcome |-> cold[i]]]
            second == [i \in DOMAIN samples |-> [phase |-> "measured", outcome |-> samples[i]]]
            lines == first \o second
            S == {i \in DOMAIN samples : samples[i] \in wanted}
            T == {i \in DOMAIN lines : lines[i].phase = "measured" /\ lines[i].outcome \in wanted}
            f == [i \in S |-> a + i]
<1>1. a \in Nat /\ b \in Nat /\ DOMAIN cold = 1 .. a /\ DOMAIN samples = 1 .. b
  OBVIOUS
<1>2. /\ DOMAIN lines = 1 .. a + b
      /\ \A i \in 1 .. a : lines[i].phase = "cold"
      /\ \A i \in 1 .. b : lines[a + i].phase = "measured" /\ lines[a + i].outcome = samples[i]
  <2>. DEFINE R == [phase : {"cold", "measured"}, outcome : Outcomes]
  <2>1. first \in [1 .. a -> R] /\ second \in [1 .. b -> R]
    <3>1. \A i \in 1 .. a : cold[i] \in Outcomes
      OBVIOUS
    <3>2. \A i \in 1 .. b : samples[i] \in Outcomes
      OBVIOUS
    <3>. QED  BY <1>1, <3>1, <3>2
  <2>2. /\ first \in Seq(R) /\ Len(first) = a /\ second \in Seq(R) /\ Len(second) = b
    BY <1>1, <2>1
  <2>3. /\ \A i \in 1 .. a : first[i].phase = "cold"
        /\ \A i \in 1 .. b : second[i].phase = "measured" /\ second[i].outcome = samples[i]
    BY <1>1
  <2>. HIDE DEF first, second, R, a, b
  <2>4. /\ lines \in Seq(R) /\ Len(lines) = a + b
        /\ \A i \in 1 .. a + b : lines[i] = IF i <= a THEN first[i] ELSE second[i - a]
    BY <2>2, ConcatProperties
  <2>5. ASSUME NEW i \in 1 .. a PROVE lines[i].phase = "cold"
    BY <1>1, <2>3, <2>4
  <2>6. ASSUME NEW i \in 1 .. b
        PROVE  lines[a + i].phase = "measured" /\ lines[a + i].outcome = samples[i]
    <3>1. a + i \in 1 .. a + b /\ ~(a + i <= a) /\ (a + i) - a = i
      BY <1>1
    <3>. QED  BY <2>3, <2>4, <3>1
  <2>7. DOMAIN lines = 1 .. a + b
    <3>. HIDE DEF lines
    <3>. QED  BY <2>4
  <2>. QED  BY <2>5, <2>6, <2>7
<1>. HIDE DEF lines, a, b
<1>3. S \in SUBSET (1 .. b)
  BY <1>1
<1>4. ASSUME NEW i \in S PROVE a + i \in T
  <2>1. i \in 1 .. b /\ a + i \in 1 .. a + b
    BY <1>1, <1>3
  <2>. QED  BY <1>2, <2>1
<1>5. ASSUME NEW j \in T PROVE \E i \in S : a + i = j
  <2>1. j \in 1 .. a + b /\ ~(j \in 1 .. a)
    BY <1>2
  <2>2. PICK i \in 1 .. b : a + i = j
    BY <1>1, <2>1
  <2>. QED  BY <1>1, <1>2, <2>2
<1>6. IsFiniteSet(S)
  BY <1>1, <1>3, FS_Interval, FS_Subset
<1>7. f \in Bijection(S, T)
  <2>1. f \in [S -> T]
    BY <1>4
  <2>2. \A i, j \in S : f[i] = f[j] => i = j
    BY <1>1, <1>3
  <2>3. \A j \in T : \E i \in S : f[i] = j
    BY <1>5
  <2>. HIDE DEF f, S, T
  <2>. QED  BY <2>1, <2>2, <2>3 DEF Bijection, Injection, Surjection, IsInjective
<1>8. Cardinality(T) = Cardinality(S)
  <2>. HIDE DEF f, S, T
  <2>. QED  BY <1>6, <1>7, FS_Bijection DEF ExistsBijection
<1>. QED  BY <1>8 DEF Count, lines

-----------------------------------------------------------------------------
(* Types and samples. *)

LEMMA EntryFacts ==
  /\ NotRun \in PayloadType /\ NoEntry \in EntryType /\ Nothing \in [Targets -> EntryType]
<1>1. NotRun \in PayloadType
  BY Sizes DEF NotRun, PayloadType
<1>2. [v \in Workloads |-> NotRun] \in [Workloads -> PayloadType]
  BY <1>1
<1>3. NoEntry \in EntryType
  BY <1>2, Sizes DEF NoEntry, EntryType
<1>. QED  BY <1>1, <1>3 DEF Nothing

\* A measured outcome goes where the verdict is made of.
LEMMA ResultStep == TypeOK /\ ResultInv /\ [Next]_vars => ResultInv'
<1>. SUFFICES ASSUME TypeOK, ResultInv, [Next]_vars PROVE ResultInv'
  OBVIOUS
<1>0. /\ Cold \in Nat /\ Warmup \in Nat /\ Iterations \in Nat /\ Calls = Cold + Warmup + Iterations
      /\ k \in 0 .. Calls /\ result.mismatches \in 0 .. MismatchCap /\ MismatchCap \in Nat \ {0}
  BY Sizes DEF TypeOK, Calls
<1>1. ASSUME result' = NoSamples, k' = 0, w' = 1 \/ pc' # "connect" PROVE ResultInv'
  <2>1. /\ result'.cold = <<>> /\ result'.samples = <<>> /\ result'.mismatches = 0
        /\ result' = [cold |-> <<>>, samples |-> <<>>, mismatches |-> 0]
    BY <1>1 DEF NoSamples
  <2>2. Len(<<>>) = 0 /\ DOMAIN <<>> = {} /\ <<>> \in Seq(Outcomes)
    OBVIOUS
  <2>3. 0 < Cold + Warmup \/ 0 - Cold - Warmup = 0
    BY <1>0
  <2>4. 0 < Cold \/ Cold = 0
    BY <1>0
  <2>. QED  BY <1>0, <1>1, <2>1, <2>2, <2>3, <2>4 DEF ResultInv
<1>2. CASE Pick
  BY <1>1, <1>2 DEF Pick
<1>3. CASE Exit \/ Crash
  BY <1>1, <1>3 DEF Exit, Crash, Ended
<1>4. CASE Connect
  <2>1. pc = "connect" /\ pc' = "calls" /\ UNCHANGED <<w, k, result>>
    BY <1>4 DEF Connect, target
  <2>. QED  BY <1>1, <2>1 DEF ResultInv
<1>5. CASE Start \/ ConnectFails \/ Break \/ Close \/ LastSave \/ BeginSave \/ EndSave
            \/ MixedLevel \/ Footprint
  <2>1. UNCHANGED result /\ pc' \notin {"connect", "calls"}
    BY <1>5 DEF Start, Begin, ConnectFails, Break, Close, LastSave, BeginSave, EndSave, MixedLevel,
                Footprint, target
  <2>. QED  BY <2>1 DEF ResultInv
<1>6. CASE FinishWorkload
  <2>1. CASE result' = NoSamples /\ k' = 0 /\ pc' # "connect"
    BY <1>1, <2>1
  <2>2. CASE UNCHANGED result /\ pc' = "broken"
    BY <2>2 DEF ResultInv
  <2>. QED  BY <1>6, <2>1, <2>2 DEF FinishWorkload, NextWorkload
<1>7. ASSUME NEW outcome \in Outcomes, Call(outcome) PROVE ResultInv'
  <2>1. pc = "calls" /\ pc' = "calls" /\ k < Calls /\ k' = k + 1
    BY <1>7 DEF Call, CallsAfter
  <2>2. /\ Len(result.cold) = IF k < Cold THEN k ELSE Cold
        /\ Len(result.samples) = IF k < Cold + Warmup THEN 0 ELSE k - Cold - Warmup
        /\ result.cold \in Seq(Outcomes) /\ result.samples \in Seq(Outcomes)
    BY <2>1 DEF ResultInv
  <2>. DEFINE Wrong(samples) == \E i \in DOMAIN samples : samples[i] = "wrong"
  <2>6. ASSUME result' = [cold |-> result'.cold, samples |-> result'.samples,
                          mismatches |-> result'.mismatches],
               result'.cold \in Seq(Outcomes), result'.samples \in Seq(Outcomes),
               Len(result'.cold) = (IF k + 1 < Cold THEN k + 1 ELSE Cold),
               Len(result'.samples) = (IF k + 1 < Cold + Warmup THEN 0 ELSE k + 1 - Cold - Warmup),
               result'.mismatches > 0 <=> Wrong(result'.samples)
        PROVE  ResultInv'
    <3>1. pc' # "connect" /\ k' = k + 1
      BY <2>1
    <3>2. result'.mismatches > 0 <=> \E i \in DOMAIN result'.samples : result'.samples[i] = "wrong"
      BY <2>6
    <3>3. /\ Len(result'.cold) = IF k' < Cold THEN k' ELSE Cold
          /\ Len(result'.samples) = IF k' < Cold + Warmup THEN 0 ELSE k' - Cold - Warmup
      BY <1>0, <2>6, <3>1
    <3>. HIDE DEF Wrong
    <3>. QED  BY <2>6, <3>1, <3>2, <3>3 DEF ResultInv
  <2>7. /\ result.mismatches > 0 <=> Wrong(result.samples)
        /\ result = [cold |-> result.cold, samples |-> result.samples, mismatches |-> result.mismatches]
    BY DEF ResultInv
  <2>. HIDE DEF Wrong
  <2>3. CASE k < Cold
    <3>1. result' = [result EXCEPT !.cold = Append(@, outcome)]
      BY <1>7, <2>3 DEF Call, Phase
    <3>2. /\ result'.cold = Append(result.cold, outcome) /\ result'.samples = result.samples
          /\ result'.mismatches = result.mismatches
          /\ result' = [cold |-> result'.cold, samples |-> result'.samples, mismatches |-> result'.mismatches]
      BY <3>1 DEF ResultInv
    <3>3. result'.cold \in Seq(Outcomes) /\ Len(result'.cold) = k + 1
      BY <2>2, <2>3, <3>2
    <3>4. /\ k + 1 = (IF k + 1 < Cold THEN k + 1 ELSE Cold)
          /\ Len(result'.samples) = IF k + 1 < Cold + Warmup THEN 0 ELSE k + 1 - Cold - Warmup
      BY <1>0, <2>2, <2>3, <3>2
    <3>. QED  BY <2>2, <2>6, <2>7, <3>2, <3>3, <3>4
  <2>4. CASE ~(k < Cold) /\ k < Cold + Warmup
    <3>1. result' = result
      BY <1>7, <2>4 DEF Call, Phase
    <3>2. /\ Cold = (IF k + 1 < Cold THEN k + 1 ELSE Cold)
          /\ 0 = (IF k + 1 < Cold + Warmup THEN 0 ELSE k + 1 - Cold - Warmup)
      BY <1>0, <2>4
    <3>. QED  BY <2>2, <2>4, <2>6, <2>7, <3>1, <3>2
  <2>5. CASE ~(k < Cold) /\ ~(k < Cold + Warmup)
    <3>1. result' = MeasuredSample(outcome)
      BY <1>7, <2>5 DEF Call, Phase
    <3>2. /\ result'.cold = result.cold /\ result'.samples = Append(result.samples, outcome)
          /\ result'.mismatches = IF outcome = "wrong" /\ result.mismatches < MismatchCap
                                  THEN result.mismatches + 1 ELSE result.mismatches
          /\ result' = [cold |-> result'.cold, samples |-> result'.samples, mismatches |-> result'.mismatches]
      BY <3>1 DEF MeasuredSample, ResultInv
    <3>3. result'.samples \in Seq(Outcomes) /\ Len(result'.samples) = k + 1 - Cold - Warmup
      BY <1>0, <2>2, <2>5, <3>2
    <3>4. /\ Cold = (IF k + 1 < Cold THEN k + 1 ELSE Cold) /\ ~(k + 1 < Cold + Warmup)
      BY <1>0, <2>5
    <3>5. result'.mismatches > 0 <=> Wrong(result'.samples)
      <4>. DEFINE s == result.samples
                  n == Len(s)
                  s2 == result'.samples
      <4>1. /\ n \in Nat /\ DOMAIN s = 1 .. n /\ DOMAIN s2 = 1 .. n + 1
            /\ \A i \in 1 .. n : s2[i] = s[i]
            /\ s2[n + 1] = outcome
        BY <2>2, <3>2
      <4>2. result.mismatches > 0 <=> \E i \in 1 .. n : s[i] = "wrong"
        BY <4>1 DEF ResultInv
      <4>3. result'.mismatches > 0 <=> result.mismatches > 0 \/ outcome = "wrong"
        BY <1>0, <3>2
      <4>. HIDE DEF s, n, s2
      <4>4. (\E i \in 1 .. n + 1 : s2[i] = "wrong") <=> (\E i \in 1 .. n : s[i] = "wrong") \/ outcome = "wrong"
        <5>1. \A i \in 1 .. n + 1 : i \in 1 .. n \/ i = n + 1
          BY <4>1
        <5>2. \A i \in 1 .. n : i \in 1 .. n + 1
          BY <4>1
        <5>3. n + 1 \in 1 .. n + 1
          BY <4>1
        <5>. QED  BY <4>1, <5>1, <5>2, <5>3
      <4>5. DOMAIN s2 = 1 .. n + 1
        BY <4>1
      <4>. QED  BY <4>2, <4>3, <4>4, <4>5 DEF s2, Wrong
    <3>. QED  BY <2>2, <2>5, <2>6, <3>2, <3>3, <3>4, <3>5
  <2>. QED  BY <2>3, <2>4, <2>5
<1>8. CASE NoMoreRuns \/ UNCHANGED vars
  BY <1>8 DEF NoMoreRuns, vars, target, ResultInv
<1>. QED  BY <1>2, <1>3, <1>4, <1>5, <1>6, <1>7, <1>8 DEF Next

\* The numbers of a payload are within what was called.
LEMMA PayloadFacts ==
  ASSUME TypeOK, ResultInv
  PROVE  Payload \in PayloadType
<1>1. /\ Cold \in Nat /\ Iterations \in Nat /\ result.mismatches \in 0 .. MismatchCap
      /\ Len(result.cold) <= Cold /\ Len(result.samples) <= Iterations
  BY Sizes DEF TypeOK
<1>2. result.cold \in Seq(Outcomes) /\ result.samples \in Seq(Outcomes)
  BY DEF ResultInv
<1>3. Count(result.samples, {"right", "wrong"}) \in 0 .. Iterations
  <2>1. Count(result.samples, {"right", "wrong"}) \in Nat /\ Count(result.samples, {"right", "wrong"}) <= Len(result.samples)
    BY <1>2, CountFacts
  <2>. QED  BY <1>1, <1>2, <2>1
<1>4. Count(result.samples, {"failed"}) \in 0 .. Iterations
  <2>1. Count(result.samples, {"failed"}) \in Nat /\ Count(result.samples, {"failed"}) <= Len(result.samples)
    BY <1>2, CountFacts
  <2>. QED  BY <1>1, <1>2, <2>1
<1>5. Count(result.cold, {"right", "wrong"}) \in 0 .. Cold
  <2>1. Count(result.cold, {"right", "wrong"}) \in Nat /\ Count(result.cold, {"right", "wrong"}) <= Len(result.cold)
    BY <1>2, CountFacts
  <2>. QED  BY <1>1, <1>2, <2>1
<1>6. Verdict \in {"ok", "MISMATCH", "unchecked"}
  BY DEF Verdict
<1>7. (IF result.mismatches < MismatchesShown THEN result.mismatches ELSE MismatchesShown) \in 0 .. MismatchCap
  BY <1>1, CapAssumption
<1>. QED  BY <1>3, <1>4, <1>5, <1>6, <1>7 DEF Payload, PayloadType

\* Nothing leaves its type.
LEMMA TypeStep ==
  ASSUME TypeOK, ResultInv, EntryInv, ResultInv', [Next]_vars
  PROVE  TypeOK'
<1>0. /\ Cold \in Nat /\ Warmup \in Nat /\ Iterations \in Nat /\ Calls = Cold + Warmup + Iterations
      /\ MismatchCap \in Nat \ {0} /\ NumLevels \in Nat /\ MaxRuns \in Nat /\ Len(NumArgs) \in Nat
      /\ Workloads = 1 .. Len(NumArgs) /\ 1 \in Workloads
  BY Sizes DEF Calls
<1>1. Len(NoSamples.cold) = 0 /\ Len(NoSamples.samples) = 0 /\ NoSamples.mismatches = 0
  BY DEF NoSamples
<1>z. /\ 0 \in 0 .. MaxRuns /\ 0 \in 0 .. NumLevels /\ 0 \in 0 .. Calls /\ 0 \in 0 .. MismatchCap
      /\ 0 <= Cold /\ 0 <= Iterations
  BY <1>0
<1>2. CASE Start
  BY <1>0, <1>2, EntryFacts DEF Start, Begin, TypeOK, target, Steps
<1>3. CASE Pick
  <2>1. NewEntry \in EntryType
    <3>1. NoEntry \in EntryType /\ run \in 0 .. MaxRuns
      BY EntryFacts DEF TypeOK
    <3>. QED  BY <3>1 DEF NewEntry, EntryType
  <2>. QED  BY <1>0, <1>1, <1>3, <2>1 DEF Pick, TypeOK, disk, Steps
<1>4. CASE ConnectFails
  <2>1. [entry EXCEPT !.status = "connect_failed"] \in EntryType
    BY DEF TypeOK, EntryType
  <2>. QED  BY <1>4, <2>1 DEF ConnectFails, TypeOK, disk, target, Steps
<1>5. CASE Connect \/ LastSave
  BY <1>5 DEF Connect, LastSave, TypeOK, disk, target, Steps
<1>6. CASE Break
  <2>1. [entry EXCEPT !.status = "run_failed"] \in EntryType
    BY DEF TypeOK, EntryType
  <2>. QED  BY <1>6, <2>1 DEF Break, TypeOK, disk, Steps
<1>7. CASE Close
  BY <1>7 DEF Close, TypeOK, disk, target, Steps
<1>8. CASE BeginSave
  <2>1. pc' \in Steps
    BY <1>8 DEF BeginSave, Steps
  <2>2. file'.run \in 0 .. MaxRuns /\ file'.entries \in [Targets -> EntryType] /\ torn' \in BOOLEAN
    BY <1>8, <1>z, EntryFacts DEF BeginSave
  <2>. QED  BY <1>8, <2>1, <2>2 DEF BeginSave, TypeOK, target
<1>9. CASE EndSave
  BY <1>9 DEF EndSave, TypeOK, target, Steps
<1>10. CASE Exit \/ Crash
  <2>1. pc' \in Steps /\ todo' \subseteq chosen' /\ level' \in 0 .. NumLevels /\ k' \in 0 .. Calls /\ w' \in Workloads
    BY <1>0, <1>10, <1>z DEF Exit, Crash, Ended, Steps
  <2>2. /\ result'.mismatches \in 0 .. MismatchCap
        /\ Len(result'.cold) <= Cold /\ Len(result'.samples) <= Iterations
    BY <1>0, <1>1, <1>10 DEF Exit, Crash, Ended
  <2>3. results' \in [Targets -> EntryType] /\ entry' \in EntryType
    BY <1>10, EntryFacts DEF Exit, Crash, Ended
  <2>. QED  BY <1>10, <2>1, <2>2, <2>3 DEF Exit, Crash, Ended, TypeOK, disk
<1>11. ASSUME NEW outcome \in Outcomes, Call(outcome) PROVE TypeOK'
  <2>1. /\ pc = "calls" /\ pc' = "calls" /\ k \in 0 .. Calls /\ k < Calls /\ k' = k + 1
        /\ UNCHANGED <<disk, run, chosen, todo, results, cur, entry, w, level>>
    BY <1>11 DEF Call, CallsAfter, TypeOK
  <2>2. k' \in 0 .. Calls
    BY <1>0, <2>1
  <2>3. /\ Len(result'.cold) = IF k' < Cold THEN k' ELSE Cold
        /\ Len(result'.samples) = IF k' < Cold + Warmup THEN 0 ELSE k' - Cold - Warmup
    BY <2>1 DEF ResultInv
  <2>4. Len(result'.cold) <= Cold /\ Len(result'.samples) <= Iterations
    <3>1. CASE k' < Cold
      <4>1. Len(result'.cold) = k' /\ Len(result'.samples) = 0
        <5>1. k' < Cold + Warmup
          BY <1>0, <2>2, <3>1
        <5>. QED  BY <2>3, <3>1, <5>1
      <4>2. k' \in Int /\ Cold \in Int
        BY <1>0, <2>2
      <4>3. k' <= Cold
        BY <3>1, <4>2
      <4>. QED  BY <1>z, <4>1, <4>3
    <3>2. CASE ~(k' < Cold) /\ k' < Cold + Warmup
      BY <1>0, <2>2, <2>3, <3>2
    <3>3. CASE ~(k' < Cold) /\ ~(k' < Cold + Warmup)
      <4>1. Len(result'.cold) = Cold /\ Len(result'.samples) = k' - Cold - Warmup
        BY <2>3, <3>3
      <4>2. k' - Cold - Warmup <= Iterations
        <5>1. k' \in Int /\ k' <= Cold + Warmup + Iterations
          BY <1>0, <2>2
        <5>2. Cold \in Int /\ Warmup \in Int /\ Iterations \in Int
          BY <1>0
        <5>. QED  BY <5>1, <5>2, Moved
      <4>3. Cold <= Cold
        BY <1>0
      <4>. QED  BY <4>1, <4>2, <4>3
    <3>. QED  BY <3>1, <3>2, <3>3
  <2>5. result'.mismatches \in 0 .. MismatchCap
    <3>1. /\ result.mismatches \in 0 .. MismatchCap
          /\ result = [cold |-> result.cold, samples |-> result.samples, mismatches |-> result.mismatches]
      BY DEF TypeOK, ResultInv
    <3>2. \/ result'.mismatches = result.mismatches
          \/ result.mismatches < MismatchCap /\ result'.mismatches = result.mismatches + 1
      BY <1>11, <3>1 DEF Call, MeasuredSample
    <3>. QED  BY <1>0, <3>1, <3>2
  <2>. QED  BY <2>1, <2>2, <2>4, <2>5 DEF TypeOK, disk
<1>12. CASE FinishWorkload
  <2>1. entry' = [entry EXCEPT !.workloads[w] = Payload] /\ entry \in EntryType /\ w \in Workloads
    BY <1>12 DEF FinishWorkload, TypeOK
  <2>2. entry' \in EntryType
    BY <2>1, PayloadFacts DEF EntryType
  <2>3. UNCHANGED <<torn, file, run, chosen, todo, results, cur, level>>
    BY <1>12 DEF FinishWorkload
  <2>4. CASE NextWorkload
    <3>1. w' \in Workloads
      BY <1>0, <2>1, <2>4 DEF NextWorkload
    <3>2. pc' \in Steps /\ k' \in 0 .. Calls
      BY <1>0, <2>4 DEF NextWorkload, Steps
    <3>3. /\ result'.mismatches \in 0 .. MismatchCap
          /\ Len(result'.cold) <= Cold /\ Len(result'.samples) <= Iterations
      BY <1>0, <1>1, <2>4 DEF NextWorkload
    <3>. QED  BY <2>2, <2>3, <3>1, <3>2, <3>3 DEF TypeOK
  <2>5. CASE pc' = "broken" /\ UNCHANGED <<raw, w, k, result>>
    BY <2>2, <2>3, <2>5 DEF TypeOK, Steps
  <2>. QED  BY <1>12, <2>4, <2>5 DEF FinishWorkload
<1>13. CASE MixedLevel
  <2>1. entry \in EntryType /\ level \in 0 .. NumLevels /\ pc = "levels" /\ level < NumLevels /\ entry.mixed = level
    BY <1>13 DEF MixedLevel, TypeOK, EntryInv
  <2>2. [entry EXCEPT !.mixed = @ + 1] \in EntryType /\ level + 1 \in 0 .. NumLevels
    <3>1. level + 1 \in 0 .. NumLevels /\ entry.mixed + 1 = level + 1
      BY <1>0, <2>1
    <3>. QED  BY <2>1, <3>1 DEF EntryType
  <2>. QED  BY <1>13, <2>1, <2>2 DEF MixedLevel, TypeOK, disk, Steps
<1>14. CASE Footprint
  <2>1. ASSUME NEW observable \in BOOLEAN
        PROVE  [entry EXCEPT !.footprint = observable, !.status = "measured"] \in EntryType
    BY DEF EntryType, TypeOK
  <2>. QED  BY <1>14, <2>1 DEF Footprint, TypeOK, disk, Steps
<1>15. CASE NoMoreRuns \/ UNCHANGED vars
  BY <1>15 DEF NoMoreRuns, vars, disk, target, TypeOK
<1>. QED  BY <1>2, <1>3, <1>4, <1>5, <1>6, <1>7, <1>8, <1>9, <1>10, <1>11, <1>12, <1>13, <1>14, <1>15 DEF Next

\* The entry under way is of this run and of a chosen target.
LEMMA EntryStep == TypeOK /\ EntryInv /\ [Next]_vars => EntryInv'
<1>. SUFFICES ASSUME TypeOK, EntryInv, [Next]_vars PROVE EntryInv'
  OBVIOUS
<1>1. CASE Pick
  <2>1. NewEntry.status = "measuring" /\ NewEntry.run = run /\ NewEntry.mixed = 0
    BY DEF NewEntry, NoEntry
  <2>. QED  BY <1>1, <2>1 DEF Pick, EntryInv, TypeOK
<1>2. CASE Start \/ ConnectFails \/ Close \/ LastSave \/ BeginSave \/ EndSave \/ Exit \/ Crash
  <2>1. pc' \notin Busy
    BY <1>2 DEF Start, Begin, ConnectFails, Close, LastSave, BeginSave, EndSave, Exit, Crash, Ended, Busy
  <2>. QED  BY <2>1 DEF EntryInv, Busy
<1>3. CASE Connect
  BY <1>3 DEF Connect, EntryInv, target, Busy
<1>4. entry \in EntryType
  BY DEF TypeOK
<1>5. CASE Break
  BY <1>4, <1>5 DEF Break, EntryInv, Busy, EntryType
<1>6. ASSUME NEW outcome \in Outcomes, Call(outcome) PROVE EntryInv'
  BY <1>6 DEF Call, EntryInv, Busy
<1>7. CASE FinishWorkload
  <2>1. entry' = [entry EXCEPT !.workloads[w] = Payload]
    BY <1>7 DEF FinishWorkload
  <2>2. entry'.status = entry.status /\ entry'.run = entry.run /\ entry'.mixed = entry.mixed
    BY <1>4, <2>1 DEF EntryType
  <2>. QED  BY <1>7, <2>2 DEF FinishWorkload, NextWorkload, EntryInv, Busy
<1>8. CASE MixedLevel
  BY <1>4, <1>8 DEF MixedLevel, EntryInv, Busy, EntryType
<1>9. CASE Footprint
  BY <1>4, <1>9 DEF Footprint, EntryInv, Busy, EntryType
<1>10. CASE NoMoreRuns \/ UNCHANGED vars
  BY <1>10 DEF NoMoreRuns, vars, target, EntryInv
<1>. QED  BY <1>1, <1>2, <1>3, <1>5, <1>6, <1>7, <1>8, <1>9, <1>10 DEF Next

-----------------------------------------------------------------------------
(* The entries in memory and on disk. *)

LEMMA Absent == NoEntry.status = "absent" /\ \A t \in Targets : Nothing[t].status = "absent"
BY DEF NoEntry, Nothing

\* Steps between the choice of a target and the end of its measurement.
Measuring ==
  /\ pc \in Busy /\ pc' \in Busy
  /\ UNCHANGED <<torn, file, finished, run, chosen, todo, results, cur>>

LEMMA MeasuringSteps ==
  ASSUME Connect \/ Break \/ (\E outcome \in Outcomes : Call(outcome)) \/ FinishWorkload \/ MixedLevel \/ Footprint
  PROVE  Measuring
<1>1. CASE Connect
  BY <1>1 DEF Connect, Measuring, Busy, disk, target
<1>2. CASE Break
  BY <1>2 DEF Break, Measuring, Busy, disk
<1>3. CASE \E outcome \in Outcomes : Call(outcome)
  BY <1>3 DEF Call, Measuring, Busy, disk
<1>4. CASE FinishWorkload
  BY <1>4 DEF FinishWorkload, NextWorkload, Measuring, Busy
<1>5. CASE MixedLevel
  BY <1>5 DEF MixedLevel, Measuring, Busy, disk
<1>6. CASE Footprint
  BY <1>6 DEF Footprint, Measuring, Busy, disk
<1>. QED  BY <1>1, <1>2, <1>3, <1>4, <1>5, <1>6

\* The entry of a target takes its place among the results.
Recorded(e) ==
  /\ pc \in Busy /\ results' = [results EXCEPT ![cur] = e] /\ pc' \in {"next", "save"}
  /\ UNCHANGED <<torn, file, raw, run, chosen, todo, cur>>

LEMMA RecordSteps ==
  /\ ConnectFails => Recorded([entry EXCEPT !.status = "connect_failed"]) /\ pc = "connect" /\ pc' = "next"
  /\ Close => Recorded(entry) /\ pc = "close" /\ pc' = "save"
BY DEF ConnectFails, Close, Recorded, Busy, disk, target

\* The entries are of the run that made them.
LEMMA RunStep == TypeOK /\ EntryInv /\ RunInv /\ [Next]_vars => RunInv'
<1>. SUFFICES ASSUME TypeOK, EntryInv, RunInv, [Next]_vars PROVE RunInv'
  OBVIOUS
<1>0. /\ run \in Nat /\ file.run \in Nat /\ file.run <= run /\ cur \in Targets /\ todo \subseteq Targets
      /\ entry \in EntryType /\ results \in [Targets -> EntryType]
  BY Sizes DEF TypeOK, RunInv
<1>1. CASE Start
  <2>1. /\ run' = run + 1 /\ pc' = "next" /\ results' = Nothing /\ todo' \subseteq Targets
        /\ UNCHANGED <<torn, file>>
    BY <1>1 DEF Start, Begin
  <2>2. run' > 0 /\ file'.run <= run' /\ file'.run # run'
    BY <1>0, <2>1
  <2>. QED  BY <2>1, <2>2, Absent DEF RunInv, FileOfOneRun, Busy
<1>2. CASE Pick
  <2>1. /\ pc = "next" /\ pc' = "connect" /\ cur' \in todo /\ todo' \subseteq todo
        /\ UNCHANGED <<torn, file, run, results>>
    BY <1>2 DEF Pick, disk
  <2>. QED  BY <2>1 DEF RunInv, FileOfOneRun
<1>3. ASSUME NEW e, Recorded(e), e.status # "absent", e.run = run PROVE RunInv'
  <2>1. /\ pc \in Busy /\ pc' \in {"next", "save"} /\ UNCHANGED <<torn, file, run, todo, cur>>
        /\ results' = [results EXCEPT ![cur] = e]
    BY <1>3 DEF Recorded
  <2>2. pc # "idle" /\ cur \notin todo /\ pc' # "idle" /\ pc' \notin Busy
    BY <2>1 DEF EntryInv, Busy
  <2>3. \A t \in Targets : results'[t] = IF t = cur THEN e ELSE results[t]
    BY <1>0, <2>1
  <2>. QED  BY <1>0, <1>3, <2>1, <2>2, <2>3 DEF RunInv, FileOfOneRun
<1>4. CASE ConnectFails
  <2>. DEFINE e == [entry EXCEPT !.status = "connect_failed"]
  <2>1. e.status # "absent" /\ e.run = run
    BY <1>0, <1>4, RecordSteps DEF EntryInv, EntryType, Busy
  <2>. HIDE DEF e
  <2>2. Recorded(e)
    BY <1>4, RecordSteps DEF e
  <2>. QED  BY <1>3, <2>1, <2>2
<1>5. CASE Close
  <2>1. Recorded(entry) /\ entry.status # "absent" /\ entry.run = run
    BY <1>5, RecordSteps DEF EntryInv, Busy
  <2>. QED  BY <1>3, <2>1
<1>6. CASE Measuring
  BY <1>6 DEF Measuring, RunInv, FileOfOneRun, Busy
<1>7. CASE LastSave
  BY <1>7 DEF LastSave, RunInv, FileOfOneRun, Busy, disk
<1>8. CASE BeginSave
  <2>1. /\ file' = [run |-> 0, entries |-> Nothing] /\ UNCHANGED <<run, results, todo>>
        /\ pc # "idle" /\ pc' # "idle" /\ pc' \notin Busy
    BY <1>8 DEF BeginSave, Busy
  <2>2. file'.run = 0 /\ file'.entries = Nothing
    BY <2>1
  <2>3. file'.run <= run' /\ file'.run # run'
    BY <1>0, <2>1, <2>2 DEF RunInv
  <2>. QED  BY <2>1, <2>2, <2>3, Absent DEF RunInv, FileOfOneRun
<1>9. CASE EndSave
  <2>1. /\ file' = [run |-> run, entries |-> results] /\ torn' = FALSE /\ UNCHANGED <<run, results, todo>>
        /\ pc # "idle" /\ pc' # "idle" /\ pc' \notin Busy
    BY <1>9 DEF EndSave, Busy
  <2>2. file'.run = run /\ file'.entries = results /\ run <= run
    BY <1>0, <2>1
  <2>. QED  BY <2>1, <2>2 DEF RunInv, FileOfOneRun
<1>10. CASE Exit \/ Crash
  <2>1. pc' = "idle" /\ results' = Nothing /\ UNCHANGED <<torn, file, run>>
    BY <1>10 DEF Exit, Crash, Ended, disk
  <2>. QED  BY <2>1, Absent DEF RunInv, FileOfOneRun, Busy
<1>11. CASE NoMoreRuns \/ UNCHANGED vars
  BY <1>11 DEF NoMoreRuns, vars, disk, target, RunInv, FileOfOneRun
<1>. QED  BY <1>1, <1>2, <1>4, <1>5, <1>6, <1>7, <1>8, <1>9, <1>10, <1>11, MeasuringSteps DEF Next

\* Chosen targets are to be measured, under way or done.
LEMMA DoneStep == TypeOK /\ ResultInv /\ EntryInv /\ DoneInv /\ [Next]_vars => DoneInv'
<1>. SUFFICES ASSUME TypeOK, ResultInv, EntryInv, DoneInv, [Next]_vars PROVE DoneInv'
  OBVIOUS
<1>0. /\ cur \in Targets /\ chosen \subseteq Targets /\ entry \in EntryType /\ results \in [Targets -> EntryType]
      /\ Len(NumArgs) \in Nat /\ Workloads = 1 .. Len(NumArgs) /\ w \in Workloads
  BY Sizes DEF TypeOK
<1>1. CASE Start
  BY <1>1 DEF Start, Begin, DoneInv
<1>2. CASE Pick
  <2>1. /\ pc = "next" /\ pc' = "connect" /\ todo' = todo \ {cur'} /\ UNCHANGED <<chosen, results>>
    BY <1>2 DEF Pick
  <2>. QED  BY <2>1 DEF DoneInv, Busy
<1>3. ASSUME NEW e, Recorded(e), Final(e) PROVE DoneInv'
  <2>1. /\ pc \in Busy /\ pc' \in {"next", "save"} /\ UNCHANGED <<chosen, todo, cur>>
        /\ results' = [results EXCEPT ![cur] = e]
    BY <1>3 DEF Recorded
  <2>2. \A t \in Targets : results'[t] = IF t = cur THEN e ELSE results[t]
    BY <1>0, <2>1
  <2>3. ASSUME NEW t \in chosen, t \notin todo PROVE Final(results'[t])
    <3>1. pc # "idle" /\ t \in Targets
      BY <1>0, <2>1 DEF Busy
    <3>2. CASE t = cur
      BY <1>3, <2>2, <3>1, <3>2
    <3>3. CASE t # cur
      BY <2>2, <2>3, <3>1, <3>3 DEF DoneInv
    <3>. QED  BY <3>2, <3>3
  <2>. QED  BY <2>1, <2>3 DEF DoneInv
<1>4. CASE ConnectFails
  <2>. DEFINE e == [entry EXCEPT !.status = "connect_failed"]
  <2>1. Final(e)
    BY <1>0 DEF Final, EntryType
  <2>. HIDE DEF e
  <2>2. Recorded(e)
    BY <1>4, RecordSteps DEF e
  <2>. QED  BY <1>3, <2>1, <2>2
<1>5. CASE Close
  BY <1>3, <1>5, RecordSteps DEF DoneInv
<1>6. ASSUME Measuring,
             pc' = "calls" => \A v \in Workloads : v < w' => entry'.workloads[v] # NotRun,
             pc' = "levels" => \A v \in Workloads : entry'.workloads[v] # NotRun,
             pc' = "close" => Final(entry')
      PROVE  DoneInv'
  BY <1>6 DEF Measuring, DoneInv, Busy
<1>7. CASE Connect
  <2>1. pc' = "calls" /\ w' = 1 /\ pc = "connect"
    BY <1>7 DEF Connect, ResultInv, target
  <2>2. \A v \in Workloads : ~(v < 1)
    BY <1>0
  <2>. QED  BY <1>6, <1>7, <2>1, <2>2, MeasuringSteps
<1>8. CASE Break
  <2>1. Final(entry') /\ pc' = "close"
    BY <1>0, <1>8 DEF Break, Final, EntryType
  <2>. QED  BY <1>6, <1>8, <2>1, MeasuringSteps
<1>9. ASSUME NEW outcome \in Outcomes, Call(outcome) PROVE DoneInv'
  <2>1. pc = "calls" /\ pc' = "calls" /\ UNCHANGED <<entry, w>>
    BY <1>9 DEF Call
  <2>. QED  BY <1>6, <1>9, <2>1, MeasuringSteps DEF DoneInv
<1>10. CASE FinishWorkload
  <2>1. pc = "calls" /\ entry' = [entry EXCEPT !.workloads[w] = Payload]
    BY <1>10 DEF FinishWorkload
  <2>2. Payload # NotRun
    <3>1. Payload.verdict # "not_run" /\ NotRun.verdict = "not_run"
      BY DEF Payload, Verdict, NotRun
    <3>. QED  BY <3>1
  <2>3. \A v \in Workloads : entry'.workloads[v] = IF v = w THEN Payload ELSE entry.workloads[v]
    BY <1>0, <2>1 DEF EntryType
  <2>4. \A v \in Workloads : v <= w => entry'.workloads[v] # NotRun
    <3>1. \A v \in Workloads : v <= w => v = w \/ v < w
      BY <1>0
    <3>. QED  BY <2>1, <2>2, <2>3, <3>1 DEF DoneInv
  <2>5. CASE NextWorkload /\ w < Len(NumArgs)
    <3>1. pc' = "calls" /\ w' = w + 1
      BY <2>5 DEF NextWorkload
    <3>2. \A v \in Workloads : v < w + 1 => v <= w
      BY <1>0
    <3>. QED  BY <1>6, <1>10, <2>4, <3>1, <3>2, MeasuringSteps
  <2>6. CASE NextWorkload /\ ~(w < Len(NumArgs))
    <3>1. pc' = "levels"
      BY <2>6 DEF NextWorkload
    <3>2. \A v \in Workloads : v <= w
      BY <1>0, <2>6
    <3>. QED  BY <1>6, <1>10, <2>4, <3>1, <3>2, MeasuringSteps
  <2>7. CASE pc' = "broken"
    BY <1>6, <1>10, <2>7, MeasuringSteps
  <2>. QED  BY <1>10, <2>5, <2>6, <2>7 DEF FinishWorkload
<1>11. CASE MixedLevel
  <2>1. pc = "levels" /\ pc' \in {"levels", "broken"} /\ entry'.workloads = entry.workloads
    BY <1>0, <1>11 DEF MixedLevel, EntryType
  <2>. QED  BY <1>6, <1>11, <2>1, MeasuringSteps DEF DoneInv
<1>12. CASE Footprint
  <2>1. /\ pc = "levels" /\ level = NumLevels /\ pc' = "close"
        /\ entry'.workloads = entry.workloads /\ entry'.mixed = entry.mixed /\ entry'.status = "measured"
    BY <1>0, <1>12 DEF Footprint, EntryType
  <2>2. Final(entry')
    BY <2>1 DEF DoneInv, EntryInv, Final
  <2>. QED  BY <1>6, <1>12, <2>1, <2>2, MeasuringSteps
<1>13. CASE LastSave \/ BeginSave \/ EndSave
  <2>1. UNCHANGED <<chosen, todo, results, cur>> /\ pc # "idle" /\ pc \notin Busy /\ pc' \notin Busy
    BY <1>13 DEF LastSave, BeginSave, EndSave, Busy, target
  <2>2. pc' \in {"last_save", "last_saving", "finished"} => todo = {}
    BY <1>13 DEF LastSave, BeginSave, EndSave, DoneInv
  <2>3. pc' = "finished" => ~torn' /\ file'.run = run' /\ file'.entries = results'
    <3>1. CASE LastSave \/ BeginSave
      BY <3>1 DEF LastSave, BeginSave
    <3>2. CASE EndSave
      BY <3>2 DEF EndSave
    <3>. QED  BY <1>13, <3>1, <3>2
  <2>. QED  BY <2>1, <2>2, <2>3 DEF DoneInv, Busy
<1>14. CASE Exit \/ Crash
  BY <1>14 DEF Exit, Crash, Ended, DoneInv
<1>15. CASE NoMoreRuns \/ UNCHANGED vars
  <2>1. UNCHANGED <<torn, file, run, pc, chosen, todo, results, cur, entry, w>>
    BY <1>15 DEF NoMoreRuns, vars, disk, target
  <2>. QED  BY <2>1 DEF DoneInv
<1>. QED  BY <1>1, <1>2, <1>4, <1>5, <1>7, <1>8, <1>9, <1>10, <1>11, <1>12, <1>13, <1>14, <1>15 DEF Next

\* What was measured stays in the file while the next target is measured.
LEMMA SavedStep == TypeOK /\ MeasuredIsSaved /\ [Next]_vars => MeasuredIsSaved'
<1>. SUFFICES ASSUME TypeOK, MeasuredIsSaved, [Next]_vars PROVE MeasuredIsSaved'
  OBVIOUS
<1>. DEFINE Going == {"next", "connect", "calls", "levels"}
<1>1. CASE Start
  <2>1. results' = Nothing
    BY <1>1 DEF Start, Begin
  <2>. QED  BY <2>1, Absent DEF MeasuredIsSaved
<1>2. CASE pc \in Going /\ UNCHANGED <<torn, file, results>>
  BY <1>2 DEF MeasuredIsSaved
<1>3. CASE ConnectFails
  <2>1. /\ pc \in Going /\ UNCHANGED <<torn, file>>
        /\ results' = [results EXCEPT ![cur] = [entry EXCEPT !.status = "connect_failed"]]
    BY <1>3 DEF ConnectFails, disk
  <2>2. [entry EXCEPT !.status = "connect_failed"].status = "connect_failed"
    BY DEF TypeOK, EntryType
  <2>3. \A t \in Targets : results'[t].status \in {"measured", "run_failed"} => results'[t] = results[t]
    BY <2>1, <2>2 DEF TypeOK
  <2>. QED  BY <2>1, <2>3 DEF MeasuredIsSaved
<1>4. CASE pc' \notin Going
  BY <1>4 DEF MeasuredIsSaved
<1>5. CASE EndSave
  BY <1>5 DEF EndSave, MeasuredIsSaved
<1>6. CASE Pick \/ Connect \/ MixedLevel \/ FinishWorkload \/ \E outcome \in Outcomes : Call(outcome)
  BY <1>2, <1>6 DEF Pick, Connect, MixedLevel, FinishWorkload, Call, disk
<1>7. CASE Break \/ Close \/ LastSave \/ BeginSave \/ Exit \/ Crash \/ Footprint
  BY <1>4, <1>7 DEF Break, Close, LastSave, BeginSave, Exit, Crash, Ended, Footprint
<1>8. CASE NoMoreRuns \/ UNCHANGED vars
  BY <1>8 DEF NoMoreRuns, vars, disk, MeasuredIsSaved
<1>. QED  BY <1>1, <1>3, <1>5, <1>6, <1>7, <1>8 DEF Next

-----------------------------------------------------------------------------
(* The raw samples. *)

\* What is published of a workload is what its raw file holds.
LEMMA PayloadIsBacked ==
  ASSUME TypeOK, ResultInv, pc = "calls", k = Calls
  PROVE  /\ Backed(Payload, RawLines)
         /\ RawLines \in Seq([phase : {"cold", "measured"}, outcome : Outcomes])
<1>. DEFINE s == result.samples
            n == Count(s, {"right", "wrong"})
<1>1. result.cold \in Seq(Outcomes) /\ s \in Seq(Outcomes)
  BY DEF ResultInv
<1>2. \A wanted : Measured(RawLines, wanted) = Count(s, wanted)
  BY <1>1, LinesCount DEF Measured, RawLines
<1>3. Len(s) = Iterations
  <2>1. Len(s) = IF k < Cold + Warmup THEN 0 ELSE k - Cold - Warmup
    BY DEF ResultInv
  <2>2. /\ Cold \in Nat /\ Warmup \in Nat /\ Iterations \in Nat /\ k = Cold + Warmup + Iterations
    BY Sizes DEF Calls
  <2>3. k - Cold - Warmup = Iterations /\ ~(k < Cold + Warmup)
    BY <2>2
  <2>. QED  BY <2>1, <2>3
<1>4. n + Count(s, {"failed"}) = Iterations
  BY <1>1, <1>3, CountSplits
<1>5. Count(s, {"wrong"}) > 0 <=> \E i \in DOMAIN s : s[i] = "wrong"
  <2>1. Count(s, {"wrong"}) > 0 <=> \E i \in DOMAIN s : s[i] \in {"wrong"}
    BY <1>1, CountFacts
  <2>. QED  BY <2>1
<1>6. (\E i \in DOMAIN s : s[i] = "wrong") => n > 0
  <2>1. n > 0 <=> \E i \in DOMAIN s : s[i] \in {"right", "wrong"}
    BY <1>1, CountFacts
  <2>. QED  BY <2>1
<1>7. (\E i \in DOMAIN s : s[i] = "wrong") <=> Verdict = "MISMATCH"
  <2>1. result.mismatches > 0 <=> \E i \in DOMAIN s : s[i] = "wrong"
    BY DEF ResultInv
  <2>2. result.mismatches > 0 <=> Verdict = "MISMATCH"
    BY DEF Verdict
  <2>. QED  BY <2>1, <2>2
<1>8. Payload.n = n /\ Payload.failures = Count(s, {"failed"}) /\ Payload.verdict = Verdict
  BY DEF Payload
<1>9. Backed(Payload, RawLines)
  <2>. HIDE DEF n, s
  <2>. QED  BY <1>2, <1>4, <1>5, <1>6, <1>7, <1>8 DEF Backed, n
<1>10. RawLines \in Seq([phase : {"cold", "measured"}, outcome : Outcomes])
  <2>. DEFINE R == [phase : {"cold", "measured"}, outcome : Outcomes]
              first == [i \in DOMAIN result.cold |-> [phase |-> "cold", outcome |-> result.cold[i]]]
              second == [i \in DOMAIN s |-> [phase |-> "measured", outcome |-> s[i]]]
  <2>1. first \in [1 .. Len(result.cold) -> R] /\ Len(result.cold) \in Nat
    <3>1. \A i \in 1 .. Len(result.cold) : result.cold[i] \in Outcomes
      BY <1>1
    <3>. QED  BY <1>1, <3>1
  <2>2. second \in [1 .. Len(s) -> R] /\ Len(s) \in Nat
    <3>1. \A i \in 1 .. Len(s) : s[i] \in Outcomes
      BY <1>1
    <3>. QED  BY <1>1, <3>1
  <2>3. first \in Seq(R) /\ second \in Seq(R)
    <3>. HIDE DEF R, first, second, s
    <3>. QED  BY <2>1, <2>2
  <2>4. RawLines = first \o second
    BY DEF RawLines
  <2>. HIDE DEF R, first, second
  <2>5. RawLines \in Seq(R)
    BY <2>3, <2>4
  <2>. QED  BY <2>5 DEF R
<1>. QED  BY <1>9, <1>10

\* The numbers in memory and on disk are those of the raw samples.
LEMMA SampleStep == TypeOK /\ ResultInv /\ EntryInv /\ RunInv /\ SampleInv /\ [Next]_vars => SampleInv'
<1>. SUFFICES ASSUME TypeOK, ResultInv, EntryInv, RunInv, SampleInv, [Next]_vars PROVE SampleInv'
  OBVIOUS
<1>. DEFINE R == [phase : {"cold", "measured"}, outcome : Outcomes]
<1>0. /\ cur \in Targets /\ entry \in EntryType /\ results \in [Targets -> EntryType]
      /\ run \in Nat /\ file.run \in Nat /\ w \in Workloads
      /\ Len(NumArgs) \in Nat /\ Workloads = 1 .. Len(NumArgs)
      /\ raw \in [Targets -> [Workloads -> Seq(R)]]
  <2>1. run \in 0 .. MaxRuns /\ file.run \in 0 .. MaxRuns /\ MaxRuns \in Nat
    BY Sizes DEF TypeOK
  <2>2. run \in Nat /\ file.run \in Nat
    BY <2>1
  <2>3. cur \in Targets /\ entry \in EntryType /\ results \in [Targets -> EntryType] /\ w \in Workloads
    BY DEF TypeOK
  <2>. QED  BY <2>2, <2>3, Sizes DEF SampleInv
<1>1. CASE Start
  <2>1. /\ run' = run + 1 /\ results' = Nothing /\ UNCHANGED file /\ pc' = "next"
        /\ raw' = [t \in Targets |-> [v \in Workloads |-> <<>>]]
    BY <1>1 DEF Start, Begin
  <2>2. file'.run # run'
    BY <1>0, <2>1 DEF RunInv
  <2>3. raw' \in [Targets -> [Workloads -> Seq(R)]]
    <3>1. <<>> \in Seq(R)
      OBVIOUS
    <3>. QED  BY <2>1, <3>1
  <2>. QED  BY <2>1, <2>2, <2>3, Absent DEF SampleInv
<1>2. CASE Pick
  BY <1>2 DEF Pick, disk, SampleInv
<1>3. ASSUME NEW e, Recorded(e),
             e.status = "measured" => \A v \in Workloads : Backed(e.workloads[v], raw[cur][v])
      PROVE  SampleInv'
  <2>1. /\ pc' \in {"next", "save"} /\ UNCHANGED <<file, raw, run, cur>>
        /\ results' = [results EXCEPT ![cur] = e]
    BY <1>3 DEF Recorded
  <2>2. \A t \in Targets : results'[t] = IF t = cur THEN e ELSE results[t]
    BY <1>0, <2>1
  <2>3. ASSUME NEW t \in Targets, results'[t].status = "measured", NEW v \in Workloads
        PROVE  Backed(results'[t].workloads[v], raw[t][v])
    BY <1>3, <2>2, <2>3 DEF SampleInv
  <2>. QED  BY <2>1, <2>3 DEF SampleInv
<1>4. CASE ConnectFails
  <2>. DEFINE e == [entry EXCEPT !.status = "connect_failed"]
  <2>1. e.status # "measured"
    BY <1>0 DEF EntryType
  <2>. HIDE DEF e
  <2>2. Recorded(e)
    BY <1>4, RecordSteps DEF e
  <2>. QED  BY <1>3, <2>1, <2>2
<1>5. CASE Close
  BY <1>3, <1>5, RecordSteps DEF SampleInv
<1>6. ASSUME Measuring, UNCHANGED raw,
             pc' = "calls" => \A v \in Workloads : v < w' => Backed(entry'.workloads[v], raw[cur][v]),
             pc' = "levels" => \A v \in Workloads : Backed(entry'.workloads[v], raw[cur][v]),
             pc' = "close" /\ entry'.status = "measured" =>
               \A v \in Workloads : Backed(entry'.workloads[v], raw[cur][v])
      PROVE  SampleInv'
  <2>1. UNCHANGED <<file, raw, run, results, cur>>
    BY <1>6 DEF Measuring
  <2>. QED  BY <1>6, <2>1 DEF SampleInv
<1>7. CASE Connect
  <2>1. pc' = "calls" /\ w' = 1 /\ pc = "connect" /\ UNCHANGED raw
    BY <1>7 DEF Connect, ResultInv, target, disk
  <2>2. \A v \in Workloads : ~(v < 1)
    BY <1>0
  <2>. QED  BY <1>6, <1>7, <2>1, <2>2, MeasuringSteps
<1>8. CASE Break
  <2>1. entry'.status # "measured" /\ pc' = "close" /\ UNCHANGED raw
    BY <1>0, <1>8 DEF Break, EntryType, disk
  <2>. QED  BY <1>6, <1>8, <2>1, MeasuringSteps
<1>9. ASSUME NEW outcome \in Outcomes, Call(outcome) PROVE SampleInv'
  <2>1. pc = "calls" /\ pc' = "calls" /\ UNCHANGED <<raw, entry, w>>
    BY <1>9 DEF Call, disk
  <2>. QED  BY <1>6, <1>9, <2>1, MeasuringSteps DEF SampleInv
<1>10. CASE FinishWorkload
  <2>1. /\ pc = "calls" /\ k = Calls /\ entry' = [entry EXCEPT !.workloads[w] = Payload]
        /\ UNCHANGED <<file, run, results, cur>>
    BY <1>10 DEF FinishWorkload
  <2>2. \A v \in Workloads : entry'.workloads[v] = IF v = w THEN Payload ELSE entry.workloads[v]
    BY <1>0, <2>1 DEF EntryType
  <2>3. CASE NextWorkload /\ raw' = [raw EXCEPT ![cur][w] = RawLines]
    <3>1. raw' \in [Targets -> [Workloads -> Seq(R)]]
      BY <1>0, <2>1, <2>3, PayloadIsBacked
    <3>2. /\ \A t \in Targets : t # cur => raw'[t] = raw[t]
          /\ \A v \in Workloads : raw'[cur][v] = IF v = w THEN RawLines ELSE raw[cur][v]
      BY <1>0, <2>3
    <3>3. \A v \in Workloads : v <= w => Backed(entry'.workloads[v], raw'[cur][v])
      <4>1. \A v \in Workloads : v <= w => v = w \/ v < w
        BY <1>0
      <4>. QED  BY <2>1, <2>2, <3>2, <4>1, PayloadIsBacked DEF SampleInv
    <3>4. results[cur].status = "absent" /\ (file.run = run => file.entries[cur].status = "absent")
      BY <1>0, <2>1 DEF RunInv, Busy
    <3>5. pc' = "calls" => \A v \in Workloads : v < w' => Backed(entry'.workloads[v], raw'[cur][v])
      <4>1. pc' = "calls" => w' = w + 1
        BY <2>3 DEF NextWorkload
      <4>2. \A v \in Workloads : v < w + 1 => v <= w
        BY <1>0
      <4>. QED  BY <3>3, <4>1, <4>2
    <3>6. pc' = "levels" => \A v \in Workloads : Backed(entry'.workloads[v], raw'[cur][v])
      <4>1. pc' = "levels" => \A v \in Workloads : v <= w
        BY <1>0, <2>3 DEF NextWorkload
      <4>. QED  BY <3>3, <4>1
    <3>7. pc' \in {"calls", "levels"}
      BY <2>3 DEF NextWorkload
    <3>8. ASSUME NEW t \in Targets, results'[t].status = "measured", NEW v \in Workloads
          PROVE  Backed(results'[t].workloads[v], raw'[t][v])
      BY <2>1, <3>2, <3>4, <3>8 DEF SampleInv
    <3>9. ASSUME NEW t \in Targets, file'.run = run', file'.entries[t].status = "measured",
                 NEW v \in Workloads
          PROVE  Backed(file'.entries[t].workloads[v], raw'[t][v])
      BY <2>1, <3>2, <3>4, <3>9 DEF SampleInv
    <3>. QED  BY <2>1, <3>1, <3>5, <3>6, <3>7, <3>8, <3>9 DEF SampleInv
  <2>4. CASE pc' = "broken" /\ UNCHANGED raw
    BY <1>6, <1>10, <2>4, MeasuringSteps
  <2>. QED  BY <1>10, <2>3, <2>4 DEF FinishWorkload
<1>11. CASE MixedLevel
  <2>1. /\ pc = "levels" /\ pc' \in {"levels", "broken"} /\ entry'.workloads = entry.workloads
        /\ UNCHANGED raw
    BY <1>0, <1>11 DEF MixedLevel, EntryType, disk
  <2>. QED  BY <1>6, <1>11, <2>1, MeasuringSteps DEF SampleInv
<1>12. CASE Footprint
  <2>1. pc = "levels" /\ pc' = "close" /\ entry'.workloads = entry.workloads /\ UNCHANGED raw
    BY <1>0, <1>12 DEF Footprint, EntryType, disk
  <2>. QED  BY <1>6, <1>12, <2>1, MeasuringSteps DEF SampleInv
<1>13. CASE LastSave
  BY <1>13 DEF LastSave, SampleInv, disk
<1>14. CASE BeginSave
  <2>1. /\ file' = [run |-> 0, entries |-> Nothing] /\ UNCHANGED <<raw, run, results>>
        /\ pc' \notin {"calls", "levels", "close"}
    BY <1>14 DEF BeginSave
  <2>2. file'.entries = Nothing
    BY <2>1
  <2>. QED  BY <2>1, <2>2, Absent DEF SampleInv
<1>15. CASE EndSave
  <2>1. /\ file' = [run |-> run, entries |-> results] /\ UNCHANGED <<raw, run, results>>
        /\ pc' \notin {"calls", "levels", "close"}
    BY <1>15 DEF EndSave
  <2>2. file'.entries = results
    BY <2>1
  <2>. QED  BY <2>1, <2>2 DEF SampleInv
<1>16. CASE Exit \/ Crash
  <2>1. pc' = "idle" /\ results' = Nothing /\ UNCHANGED <<file, raw, run>>
    BY <1>16 DEF Exit, Crash, Ended, disk
  <2>. QED  BY <2>1, Absent DEF SampleInv
<1>17. CASE NoMoreRuns \/ UNCHANGED vars
  <2>1. UNCHANGED <<file, raw, run, pc, results, cur, entry, w>>
    BY <1>17 DEF NoMoreRuns, vars, disk, target
  <2>. QED  BY <2>1 DEF SampleInv
<1>. QED  BY <1>1, <1>2, <1>4, <1>5, <1>7, <1>8, <1>9, <1>10, <1>11, <1>12, <1>13, <1>14, <1>15, <1>16, <1>17 DEF Next

-----------------------------------------------------------------------------
(* The queries. *)

\* Workloads follow one another.
LEMMA BeforeNext ==
  /\ Before(1) = 0
  /\ \A v \in Workloads : Before(v) \in Nat /\ Before(v + 1) = Before(v) + Calls
<1>1. Calls \in Nat /\ Len(NumArgs) \in Nat /\ Workloads = 1 .. Len(NumArgs)
  BY Sizes
<1>. DEFINE C == Calls
<1>2. C \in Nat
  BY <1>1
<1>. HIDE DEF C
<1>3. (1 - 1) * C = 0
  BY <1>2
<1>4. ASSUME NEW v \in 1 .. Len(NumArgs)
      PROVE  (v - 1) * C \in Nat /\ (v + 1 - 1) * C = (v - 1) * C + C
  <2>1. v \in Int /\ v - 1 \in Nat
    BY <1>1, <1>4
  <2>2. (v - 1) * C \in Nat
    BY <1>2, <2>1
  <2>3. (v + 1 - 1) * C = (v - 1) * C + C
    BY <1>2, <2>1
  <2>. QED  BY <2>2, <2>3
<1>. QED  BY <1>1, <1>3, <1>4 DEF Before, C

\* Two workloads are not at the same place.
LEMMA PlaceIsOnes ==
  ASSUME NEW v \in Workloads, NEW u \in Workloads, NEW i \in 0 .. Calls - 1, NEW j \in 0 .. Calls - 1,
         Position(v, i) = Position(u, j)
  PROVE  v = u /\ i = j
<1>1. Calls \in Nat /\ v \in Int /\ u \in Int /\ i \in Int /\ j \in Int
  BY Sizes
<1>2. Before(v) \in Nat /\ Before(u) \in Nat
  BY BeforeNext
<1>3. ASSUME NEW x \in Workloads, NEW y \in Workloads, x < y PROVE Before(x) + Calls <= Before(y)
  <2>. DEFINE C == Calls
              d == y - 1 - x
  <2>1. x \in Int /\ y \in Int /\ d \in Nat /\ C \in Nat
    BY <1>1, <1>3, Sizes
  <2>2. d * C \in Nat
    <3>. HIDE DEF d, C
    <3>. QED  BY <2>1
  <2>3. (y - 1) * C = (x - 1) * C + C + d * C
    <3>. HIDE DEF C
    <3>. QED  BY <2>1
  <2>4. (x - 1) * C \in Int
    <3>. HIDE DEF C
    <3>. QED  BY <2>1
  <2>. HIDE DEF d
  <2>. QED  BY <2>1, <2>2, <2>3, <2>4 DEF Before
<1>4. ~(v < u)
  <2>1. CASE v < u
    <3>1. Before(v) + Calls <= Before(u)
      BY <1>3, <2>1
    <3>. QED  BY <1>1, <1>2, <3>1 DEF Position
  <2>. QED  BY <2>1
<1>5. ~(u < v)
  <2>1. CASE u < v
    <3>1. Before(u) + Calls <= Before(v)
      BY <1>3, <2>1
    <3>. QED  BY <1>1, <1>2, <3>1 DEF Position
  <2>. QED  BY <2>1
<1>6. v = u
  BY <1>1, <1>4, <1>5
<1>. QED  BY <1>1, <1>2, <1>6 DEF Position

\* A call asks the query of its place.
LEMMA CallAsks ==
  ASSUME TypeOK, NEW outcome \in Outcomes, Call(outcome)
  PROVE  asked' = [asked EXCEPT ![cur] = Append(@, Query(w, k))] /\ k \in 0 .. Calls - 1
<1>1. k \in 0 .. Calls /\ k < Calls /\ Calls \in Nat
  BY Sizes DEF Call, TypeOK
<1>2. Query(w, k) = [workload |-> w, phase |-> Phase, arg |-> Argument]
  BY DEF Query, Phase, PhaseStart, Argument
<1>3. asked' = [asked EXCEPT ![cur] = Append(@, Query(w, k))]
  BY <1>2 DEF Call
<1>4. k \in 0 .. Calls - 1
  BY <1>1
<1>. QED  BY <1>3, <1>4

\* What was asked is the list of queries up to where the target is.
LEMMA AskedStep == TypeOK /\ ResultInv /\ EntryInv /\ AskedInv /\ [Next]_vars => AskedInv'
<1>. SUFFICES ASSUME TypeOK, ResultInv, EntryInv, AskedInv, [Next]_vars PROVE AskedInv'
  OBVIOUS
<1>0. cur \in Targets /\ todo \subseteq Targets /\ w \in Workloads /\ Calls \in Nat /\ k \in 0 .. Calls
  BY Sizes DEF TypeOK
<1>1. CASE Start
  <2>1. asked' = [t \in Targets |-> <<>>] /\ pc' = "next" /\ todo' \subseteq Targets
    BY <1>1 DEF Start, Begin
  <2>2. <<>> \in Seq(Queries) /\ Len(<<>>) = 0 /\ 1 .. 0 = {}
    OBVIOUS
  <2>3. Listed(<<>>)
    BY <2>2 DEF Listed
  <2>. QED  BY <2>1, <2>2, <2>3 DEF AskedInv
<1>2. CASE Pick
  <2>1. /\ pc # "idle" /\ pc' = "connect" /\ UNCHANGED asked /\ cur' \in todo /\ todo' \subseteq todo
    BY <1>2 DEF Pick
  <2>. QED  BY <2>1 DEF AskedInv
<1>3. ASSUME UNCHANGED <<asked, todo>>, pc' \notin {"connect", "calls"}, pc # "idle" \/ pc' = "idle"
      PROVE  AskedInv'
  BY <1>3 DEF AskedInv
<1>4. CASE Connect
  <2>1. pc = "connect" /\ pc' = "calls" /\ UNCHANGED <<asked, todo, cur, w, k>> /\ w = 1 /\ k = 0
    BY <1>4 DEF Connect, target, ResultInv
  <2>2. asked[cur] = <<>> /\ Len(<<>>) + 1 = Position(1, 0)
    BY <2>1, BeforeNext DEF AskedInv, Position
  <2>. QED  BY <2>1, <2>2 DEF AskedInv
<1>5. CASE ConnectFails \/ Break \/ Close \/ LastSave \/ BeginSave \/ EndSave \/ MixedLevel \/ Footprint
  <2>1. UNCHANGED <<asked, todo>> /\ pc' \notin {"connect", "calls"} /\ pc # "idle"
    BY <1>5 DEF ConnectFails, Break, Close, LastSave, BeginSave, EndSave, MixedLevel, Footprint
  <2>. QED  BY <1>3, <2>1
<1>6. CASE Exit \/ Crash
  <2>1. UNCHANGED asked /\ pc' = "idle" /\ todo' = {}
    BY <1>6 DEF Exit, Crash, Ended
  <2>. QED  BY <2>1 DEF AskedInv
<1>7. ASSUME NEW outcome \in Outcomes, Call(outcome) PROVE AskedInv'
  <2>. DEFINE s == asked[cur]
              n == Len(s)
              q == Query(w, k)
  <2>1. /\ asked' = [asked EXCEPT ![cur] = Append(@, q)] /\ k \in 0 .. Calls - 1
        /\ pc = "calls" /\ pc' = "calls" /\ UNCHANGED <<todo, cur, w>> /\ k' = k + 1
    BY <1>7, CallAsks DEF Call, CallsAfter
  <2>2. s \in Seq(Queries) /\ n + 1 = Position(w, k) /\ Listed(s) /\ cur \notin todo
    BY <1>0, <2>1 DEF AskedInv, EntryInv, Busy
  <2>3. q \in Queries /\ n \in Nat
    BY <1>0, <2>1, <2>2 DEF Queries
  <2>4. \A t \in Targets : asked'[t] = IF t = cur THEN Append(s, q) ELSE asked[t]
    BY <1>0, <2>1 DEF AskedInv
  <2>. HIDE DEF q
  <2>5. /\ Append(s, q) \in Seq(Queries) /\ Len(Append(s, q)) = n + 1
        /\ \A i \in 1 .. n : Append(s, q)[i] = s[i]
        /\ Append(s, q)[n + 1] = q
    BY <2>2, <2>3
  <2>6. Listed(Append(s, q))
    <3>. SUFFICES ASSUME NEW i \in 1 .. n + 1
                  PROVE  \E v \in Workloads, j \in 0 .. Calls - 1 :
                           i = Position(v, j) /\ Append(s, q)[i] = Query(v, j)
      BY <2>5 DEF Listed
    <3>1. CASE i = n + 1
      BY <1>0, <2>1, <2>2, <2>5, <3>1 DEF q
    <3>2. CASE i # n + 1
      <4>1. i \in 1 .. n
        BY <2>3, <3>2
      <4>. QED  BY <2>2, <2>5, <4>1 DEF Listed
    <3>. QED  BY <3>1, <3>2
  <2>7. Len(asked'[cur]) + 1 = Position(w', k')
    <3>1. asked'[cur] = Append(s, q)
      BY <1>0, <2>4
    <3>2. Before(w) \in Nat /\ k \in Int
      BY <1>0, <2>1, BeforeNext
    <3>3. n + 1 + 1 = Before(w) + (k + 1) + 1
      BY <2>2, <3>2 DEF Position
    <3>. QED  BY <2>1, <2>5, <3>1, <3>3 DEF Position
  <2>8. asked' \in [Targets -> Seq(Queries)]
    BY <1>0, <2>1, <2>5 DEF AskedInv
  <2>9. \A t \in Targets : Listed(asked'[t])
    BY <2>4, <2>6 DEF AskedInv
  <2>10. \A t \in todo' : asked'[t] = <<>>
    BY <1>0, <2>1, <2>2, <2>4 DEF AskedInv
  <2>. QED  BY <2>1, <2>7, <2>8, <2>9, <2>10 DEF AskedInv
<1>8. CASE FinishWorkload
  <2>1. pc = "calls" /\ k = Calls /\ UNCHANGED <<asked, todo, cur>>
    BY <1>8 DEF FinishWorkload
  <2>2. CASE pc' = "calls" /\ NextWorkload
    <3>1. w' = w + 1 /\ k' = 0
      BY <2>2 DEF NextWorkload
    <3>2. Before(w) \in Nat /\ Before(w + 1) = Before(w) + Calls
      BY <1>0, BeforeNext
    <3>3. Position(w, Calls) = Position(w + 1, 0)
      BY <1>0, <3>2 DEF Position
    <3>. QED  BY <2>1, <2>2, <3>1, <3>3 DEF AskedInv
  <2>3. CASE pc' # "calls"
    <3>1. pc' # "connect"
      BY <1>8 DEF FinishWorkload, NextWorkload
    <3>. QED  BY <1>3, <2>1, <2>3, <3>1
  <2>. QED  BY <1>8, <2>2, <2>3 DEF FinishWorkload, NextWorkload
<1>9. CASE NoMoreRuns \/ UNCHANGED vars
  <2>1. UNCHANGED <<asked, pc, todo, cur, w, k>>
    BY <1>9 DEF NoMoreRuns, vars, target
  <2>. QED  BY <2>1 DEF AskedInv
<1>. QED  BY <1>1, <1>2, <1>4, <1>5, <1>6, <1>7, <1>8, <1>9 DEF Next

-----------------------------------------------------------------------------
(* The theorems. *)

IInv ==
  /\ TypeOK /\ ResultInv /\ EntryInv /\ RunInv /\ DoneInv /\ MeasuredIsSaved /\ SampleInv /\ AskedInv

\* The conjunction is inductive.
LEMMA Inductive == Spec => []IInv
<1>1. Init => IInv
  <2>. SUFFICES ASSUME Init PROVE IInv
    OBVIOUS
  <2>0. pc = "idle" /\ todo = {} /\ chosen = {} /\ torn = FALSE /\ run = 0
    BY DEF Init
  <2>1. TypeOK
    <3>1. /\ 0 \in 0 .. MaxRuns /\ 0 \in 0 .. NumLevels /\ 0 \in 0 .. Calls /\ 0 \in 0 .. MismatchCap
          /\ 0 <= Cold /\ 0 <= Iterations /\ 1 \in Workloads
      BY Sizes
    <3>2. file.run = 0 /\ file.entries = Nothing /\ results = Nothing /\ entry = NoEntry
      BY DEF Init
    <3>3. result.mismatches = 0 /\ Len(result.cold) = 0 /\ Len(result.samples) = 0
      BY DEF Init, NoSamples
    <3>4. w = 1 /\ k = 0 /\ level = 0 /\ cur \in Targets
      BY DEF Init
    <3>. QED  BY <2>0, <3>1, <3>2, <3>3, <3>4, EntryFacts DEF TypeOK, Steps
  <2>2. ResultInv
    <3>1. <<>> \in Seq(Outcomes) /\ DOMAIN <<>> = {}
      OBVIOUS
    <3>. QED  BY <2>0, <3>1 DEF ResultInv, Init, NoSamples
  <2>3. EntryInv /\ DoneInv /\ MeasuredIsSaved
    BY <2>0 DEF EntryInv, DoneInv, MeasuredIsSaved, Busy
  <2>4. file.run = 0 /\ file.entries = Nothing /\ results = Nothing
    BY DEF Init
  <2>5. RunInv
    BY <2>0, <2>4, Absent DEF RunInv, FileOfOneRun, Busy
  <2>6. SampleInv
    <3>. DEFINE R == [phase : {"cold", "measured"}, outcome : Outcomes]
    <3>1. raw = [t \in Targets |-> [v \in Workloads |-> <<>>]] /\ <<>> \in Seq(R)
      BY DEF Init
    <3>2. raw \in [Targets -> [Workloads -> Seq(R)]]
      BY <3>1
    <3>. QED  BY <2>0, <2>4, <3>2, Absent DEF SampleInv
  <2>7. AskedInv
    <3>1. asked = [t \in Targets |-> <<>>] /\ <<>> \in Seq(Queries) /\ 1 .. Len(<<>>) = {}
      BY DEF Init
    <3>2. Listed(<<>>)
      BY <3>1 DEF Listed
    <3>. QED  BY <2>0, <3>1, <3>2 DEF AskedInv
  <2>. QED  BY <2>1, <2>2, <2>3, <2>5, <2>6, <2>7 DEF IInv
<1>2. IInv /\ [Next]_vars => IInv'
  <2>. SUFFICES ASSUME IInv, [Next]_vars PROVE IInv'
    OBVIOUS
  <2>1. TypeOK /\ ResultInv /\ EntryInv /\ RunInv /\ DoneInv /\ MeasuredIsSaved /\ SampleInv /\ AskedInv
    BY DEF IInv
  <2>2. ResultInv'
    BY <2>1, ResultStep
  <2>3. TypeOK'
    BY <2>1, <2>2, TypeStep
  <2>4. EntryInv' /\ RunInv'
    BY <2>1, EntryStep, RunStep
  <2>5. DoneInv' /\ MeasuredIsSaved'
    BY <2>1, DoneStep, SavedStep
  <2>6. SampleInv' /\ AskedInv'
    BY <2>1, SampleStep, AskedStep
  <2>. QED  BY <2>2, <2>3, <2>4, <2>5, <2>6 DEF IInv
<1>. QED  BY <1>1, <1>2, PTL DEF Spec

\* Numbers stay within what was asked for: no workload reports more samples than calls.
THEOREM TypeCorrect == Spec => []TypeOK
BY Inductive, PTL DEF IInv

\* results.json never mixes runs.
THEOREM OneRun == Spec => []FileOfOneRun
BY Inductive, PTL DEF IInv, RunInv

\* The measurement of a target survives a crash in a later one.
THEOREM SavedStays == Spec => []MeasuredIsSaved
BY Inductive, PTL DEF IInv

\* A run that ends has an entry for every target it was to measure.
THEOREM AllReported == Spec => []EveryTargetReported
<1>1. TypeOK /\ DoneInv => EveryTargetReported
  <2>. SUFFICES ASSUME TypeOK, DoneInv, pc = "finished" PROVE EveryTargetReported
    BY DEF EveryTargetReported
  <2>1. ~torn /\ file.run = run /\ file.entries = results /\ todo = {}
    BY DEF DoneInv
  <2>2. \A t \in chosen : Final(results[t])
    BY <2>1 DEF DoneInv, Busy
  <2>. QED  BY <2>1, <2>2 DEF EveryTargetReported, Final
<1>. QED  BY <1>1, Inductive, PTL DEF IInv

\* Published numbers can be recomputed from the raw samples.
THEOREM RawBacks == Spec => []RawBacksResults
<1>1. SampleInv => RawBacksResults
  BY DEF SampleInv, RawBacksResults, Published, Backed, Answers, Measured
<1>. QED  BY <1>1, Inductive, PTL DEF IInv

\* One wrong answer is enough for the report to show it, and none shows nothing.
THEOREM WrongShow == Spec => []WrongAnswersShow
<1>1. SampleInv => WrongAnswersShow
  <2>. SUFFICES ASSUME SampleInv, NEW t \in Targets, NEW v \in Workloads, Published(t)
                PROVE  LET wrong == Answers(t, v, {"wrong"}) > 0
                       IN  /\ wrong <=> /\ LatencyCell(file.entries[t], v).measured
                                       /\ LatencyCell(file.entries[t], v).warned
                           /\ wrong <=> CorrectnessCell(file.entries[t], v) = "cross"
    BY DEF WrongAnswersShow
  <2>. DEFINE p == file.entries[t].workloads[v]
  <2>1. Backed(p, raw[t][v])
    BY DEF SampleInv, Published
  <2>2. Answers(t, v, {"wrong"}) > 0 <=> p.verdict = "MISMATCH"
    BY <2>1 DEF Backed, Answers, Measured
  <2>3. p.verdict = "MISMATCH" => p.n > 0
    BY <2>1 DEF Backed
  <2>4. CorrectnessCell(file.entries[t], v) = "cross" <=> p.verdict = "MISMATCH"
    BY DEF CorrectnessCell
  <2>. QED  BY <2>2, <2>3, <2>4 DEF LatencyCell
<1>. QED  BY <1>1, Inductive, PTL DEF IInv

\* Targets are compared on the same queries in the same order.
THEOREM SameAsked == Spec => []SameQueries
<1>1. ASSUME NEW a \in Seq(Queries), NEW b \in Seq(Queries), Listed(a), Listed(b), Len(a) <= Len(b)
      PROVE  IsPrefix(a, b)
  <2>1. Len(a) \in Nat /\ Len(b) \in Nat
    OBVIOUS
  <2>2. ASSUME NEW i \in 1 .. Len(a) PROVE a[i] = b[i]
    <3>1. i \in 1 .. Len(b)
      BY <1>1, <2>1
    <3>2. PICK v \in Workloads, j \in 0 .. Calls - 1 : i = Position(v, j) /\ a[i] = Query(v, j)
      BY <1>1 DEF Listed
    <3>3. PICK u \in Workloads, l \in 0 .. Calls - 1 : i = Position(u, l) /\ b[i] = Query(u, l)
      BY <1>1, <3>1 DEF Listed
    <3>4. v = u /\ j = l
      <4>1. Position(v, j) = Position(u, l)
        BY <3>2, <3>3
      <4>. QED  BY <4>1, PlaceIsOnes
    <3>. QED  BY <3>2, <3>3, <3>4
  <2>3. SubSeq(a, 1, Len(a)) = SubSeq(b, 1, Len(a))
    BY <1>1, <2>1, <2>2
  <2>. QED  BY <1>1, <2>3 DEF IsPrefix
<1>2. AskedInv => SameQueries
  <2>. SUFFICES ASSUME AskedInv, NEW t \in Targets, NEW u \in Targets
                PROVE  IsPrefix(asked[t], asked[u]) \/ IsPrefix(asked[u], asked[t])
    BY DEF SameQueries
  <2>1. /\ asked[t] \in Seq(Queries) /\ asked[u] \in Seq(Queries)
        /\ Listed(asked[t]) /\ Listed(asked[u])
    BY DEF AskedInv
  <2>2. Len(asked[t]) <= Len(asked[u]) \/ Len(asked[u]) <= Len(asked[t])
    BY <2>1
  <2>. QED  BY <1>1, <2>1, <2>2
<1>. QED  BY <1>2, Inductive, PTL DEF IInv
=============================================================================
