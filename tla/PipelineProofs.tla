--------------------------- MODULE PipelineProofs ---------------------------
(***************************************************************************)
(* The guarantees of the pipeline hold for every raw file, every sampler,  *)
(* every sequence of preparations, loads and deaths of the process.        *)
(***************************************************************************)
EXTENDS Pipeline, FiniteSetTheorems, SequenceTheorems, TLAPS

(* Ids. *)

\* Every spelling of a paper's id is normalised to it: in full, cross-listed, or with
\* leading zeros stripped ("handles both quirks", prepare_dataset.py:54-62).
THEOREM SpellingsJoin ==
  ASSUME NEW id \in Seq(Nat), Len(id) = Width
  PROVE  /\ Normalise(id) = id
         /\ Normalise(<<1, 1>> \o id) = id
         /\ \A k \in 0 .. Width :
              (\A i \in 1 .. k : id[i] = 0) => Normalise(SubSeq(id, k + 1, Width)) = id
<1>. USE SizesAssumption
<1>1. Width \in Nat \ {0}
  OBVIOUS
<1>2. ASSUME NEW s \in Seq(Nat), Len(s) <= Width
      PROVE  Normalise(s) = [i \in 1 .. (Width - Len(s)) |-> 0] \o s
  <2>1. ~CrossListed(s)
    BY <1>1, <1>2 DEF CrossListed
  <2>. QED  BY <2>1 DEF Normalise, Unprefixed
<1>3. Normalise(id) = id
  <2>. DEFINE pad == [i \in 1 .. (Width - Len(id)) |-> 0]
  <2>1. pad = <<>>
    BY <1>1
  <2>2. <<>> \o id = id
    OBVIOUS
  <2>3. Normalise(id) = pad \o id
    BY <1>1, <1>2
  <2>. QED  BY <2>1, <2>2, <2>3
<1>4. Normalise(<<1, 1>> \o id) = id
  <2>. DEFINE x == <<1, 1>> \o id
              pad == [i \in 1 .. (Width - Len(id)) |-> 0]
  <2>1. x \in Seq(Nat) /\ Len(x) = Width + 2 /\ x[1] = 1 /\ x[2] = 1
    BY <1>1
  <2>2. CrossListed(x)
    BY <1>1, <2>1 DEF CrossListed
  <2>3. SubSeq(x, 3, Len(x)) = id
    BY <1>1, <2>1
  <2>4. Unprefixed(x) = id
    BY <2>2, <2>3 DEF Unprefixed
  <2>5. Normalise(x) = pad \o id
    BY <2>4 DEF Normalise
  <2>6. pad = <<>>
    BY <1>1
  <2>7. <<>> \o id = id
    OBVIOUS
  <2>. HIDE DEF x, pad
  <2>. QED  BY <2>5, <2>6, <2>7 DEF x
<1>5. ASSUME NEW k \in 0 .. Width, \A i \in 1 .. k : id[i] = 0
      PROVE  Normalise(SubSeq(id, k + 1, Width)) = id
  <2>. DEFINE s == SubSeq(id, k + 1, Width)
              m == Width - k
              pad == [i \in 1 .. k |-> 0]
  <2>1. m \in 0 .. Width /\ k \in Nat /\ \A i \in 1 .. Width : id[i] \in Nat
    BY <1>1
  <2>2. s \in Seq(Nat) /\ Len(s) = m /\ \A i \in 1 .. m : s[i] = id[k + i]
    <3>1. \A i \in k + 1 .. Width : id[i] \in Nat
      BY <2>1
    <3>2. /\ s \in Seq(Nat)
          /\ Len(s) = (IF k + 1 <= Width THEN Width - (k + 1) + 1 ELSE 0)
          /\ \A i \in 1 .. Width - (k + 1) + 1 : s[i] = id[k + 1 + i - 1]
      BY <1>1, <3>1, SubSeqProperties
    <3>. HIDE DEF s
    <3>. QED  BY <1>1, <3>2
  <2>. HIDE DEF s
  <2>3. pad \in Seq(Nat) /\ Len(pad) = k /\ \A i \in 1 .. k : pad[i] = 0
    <3>1. pad \in [1 .. k -> Nat]
      OBVIOUS
    <3>. QED  BY <2>1, <3>1
  <2>4. Normalise(s) = pad \o s
    <3>1. Normalise(s) = [i \in 1 .. (Width - Len(s)) |-> 0] \o s
      <4>1. Len(s) <= Width
        BY <1>1, <2>1, <2>2
      <4>. QED  BY <1>2, <2>2, <4>1
    <3>2. Width - Len(s) = k
      BY <1>1, <2>1, <2>2
    <3>. QED  BY <3>1, <3>2
  <2>. HIDE DEF pad, m
  <2>5. /\ pad \o s \in Seq(Nat) /\ Len(pad \o s) = k + m
        /\ \A i \in 1 .. k + m : (pad \o s)[i] = IF i <= k THEN pad[i] ELSE s[i - k]
    BY <2>2, <2>3, ConcatProperties
  <2>6. ASSUME NEW i \in 1 .. Width PROVE (pad \o s)[i] = id[i]
    <3>0. k + m = Width
      BY <1>1 DEF m
    <3>1. CASE i <= k
      BY <1>5, <2>1, <2>3, <2>5, <3>0, <3>1
    <3>2. CASE i > k
      <4>1. PICK j \in 1 .. m : j = i - k /\ k + j = i
        BY <1>1, <2>1, <3>0, <3>2
      <4>2. (pad \o s)[i] = s[j]
        BY <2>1, <2>5, <3>0, <3>2, <4>1
      <4>3. s[j] = id[k + j]
        BY <2>2
      <4>. QED  BY <4>1, <4>2, <4>3
    <3>3. i <= k \/ i > k
      BY <1>1, <2>1
    <3>. QED  BY <3>1, <3>2, <3>3
  <2>7. Len(pad \o s) = Len(id) /\ \A i \in 1 .. Len(pad \o s) : (pad \o s)[i] = id[i]
    BY <1>1, <2>5, <2>6 DEF m
  <2>8. pad \o s = id
    BY <2>5, <2>7, SeqEqual
  <2>. QED  BY <2>4, <2>8 DEF s
<1>. QED  BY <1>3, <1>4, <1>5

-----------------------------------------------------------------------------
(* The ground truth and the answers. *)

\* The papers k citations away are the ends of the paths of that length.
LEMMA PathsAreExpansions ==
  ASSUME NEW edges, NEW n, NEW k \in 1 .. 3
  PROVE  CountWithin(Cites(edges), n, k) = Cardinality(PathEnds(Cites(edges), n, k) \ {n})
<1>. DEFINE c == Cites(edges)
            one == CitedBy(c, {n})
            two == CitedBy(c, one)
            three == CitedBy(c, two)
            r2 == Composed(c, c)
            r3 == Composed(r2, c)
            Ends(r) == {p[2] : p \in {q \in r : q[1] = n}}
<1>1. ASSUME NEW r PROVE Ends(Composed(r, c)) = CitedBy(c, Ends(r))
  <2>1. ASSUME NEW x \in Ends(Composed(r, c)) PROVE x \in CitedBy(c, Ends(r))
    <3>1. PICK p \in r \X c : p[1][2] = p[2][1] /\ p[1][1] = n /\ x = p[2][2]
      BY <2>1 DEF Composed
    <3>2. p[1] \in r /\ p[2] \in c
      BY <3>1
    <3>3. p[1][2] \in Ends(r)
      BY <3>1, <3>2
    <3>. QED  BY <3>1, <3>2, <3>3 DEF CitedBy
  <2>2. ASSUME NEW x \in CitedBy(c, Ends(r)) PROVE x \in Ends(Composed(r, c))
    <3>1. PICK e \in c : e[1] \in Ends(r) /\ x = e[2]
      BY <2>2 DEF CitedBy
    <3>2. PICK q \in r : q[1] = n /\ e[1] = q[2]
      BY <3>1
    <3>3. <<q, e>> \in r \X c /\ <<q, e>>[1] = q /\ <<q, e>>[2] = e
      BY <3>1, <3>2
    <3>4. <<q[1], e[2]>> \in Composed(r, c)
      BY <3>2, <3>3 DEF Composed
    <3>5. <<q[1], e[2]>>[1] = n /\ <<q[1], e[2]>>[2] = x
      BY <3>1, <3>2
    <3>. QED  BY <3>4, <3>5
  <2>. QED  BY <2>1, <2>2
<1>2. Ends(c) = one
  BY DEF CitedBy
<1>3. Ends(r2) = two /\ Ends(r3) = three
  BY <1>1, <1>2
<1>4. ASSUME NEW r, NEW s PROVE Ends(r \cup s) = Ends(r) \cup Ends(s)
  OBVIOUS
<1>5. PathEnds(c, n, k) = one \cup (IF k >= 2 THEN two ELSE {}) \cup (IF k >= 3 THEN three ELSE {})
  <2>1. CASE k = 1
    <3>1. PathEnds(c, n, k) = Ends(c \cup {} \cup {})
      BY <2>1 DEF PathEnds
    <3>2. c \cup {} \cup {} = c
      OBVIOUS
    <3>. HIDE DEF Ends, one
    <3>. QED  BY <1>2, <2>1, <3>1, <3>2
  <2>2. CASE k = 2
    <3>1. PathEnds(c, n, k) = Ends(c \cup r2 \cup {})
      BY <2>2 DEF PathEnds
    <3>2. c \cup r2 \cup {} = c \cup r2
      OBVIOUS
    <3>. HIDE DEF Ends, one, two, r2
    <3>. QED  BY <1>2, <1>3, <1>4, <2>2, <3>1, <3>2
  <2>3. CASE k = 3
    <3>1. PathEnds(c, n, k) = Ends(c \cup r2 \cup r3)
      BY <2>3 DEF PathEnds
    <3>. HIDE DEF Ends, one, two, three, r2, r3
    <3>2. Ends(c \cup r2 \cup r3) = Ends(c \cup r2) \cup Ends(r3)
      BY <1>4
    <3>3. Ends(c \cup r2) = Ends(c) \cup Ends(r2)
      BY <1>4
    <3>. QED  BY <1>2, <1>3, <2>3, <3>1, <3>2, <3>3
  <2>. QED  BY <2>1, <2>2, <2>3
<1>6. CountWithin(c, n, k) =
        Cardinality((one \cup (IF k >= 2 THEN two ELSE {}) \cup (IF k >= 3 THEN three ELSE {})) \ {n})
  <2>1. CASE k = 1
    BY <2>1 DEF CountWithin
  <2>2. CASE k = 2
    BY <2>2 DEF CountWithin
  <2>3. CASE k = 3
    BY <2>3 DEF CountWithin
  <2>. QED  BY <2>1, <2>2, <2>3
<1>. QED  BY <1>5, <1>6

\* The ground truth of a dataset is what a database with all of it answers: every
\* workload wants just the answers the adapters give, undated papers included.
LEMMA TruthIsAnswers ==
  ASSUME NEW edges, NEW years, NEW chosen,
         DOMAIN years = Papers(edges), chosen \subseteq Papers(edges),
         \A n \in DOMAIN years : years[n] # Null,
         NEW w \in Workloads
  PROVE  LET truth == Expected(Cites(edges), chosen, years)
         IN  Answers(Database(years, edges), Arguments(chosen, truth))[w] = Wanted(truth)[w]
<1>. DEFINE truth == Expected(Cites(edges), chosen, years)
            full == Database(years, edges)
            args == Arguments(chosen, truth)
<1>. SUFFICES Answers(full, args)[w] = Wanted(truth)[w]
  OBVIOUS
<1>1. full.cites = Cites(edges)
  <2>1. \A e \in Cites(edges) : {e[1], e[2]} \subseteq DOMAIN years
    BY DEF Cites, Papers
  <2>. QED  BY <2>1 DEF Database
<1>2. DOMAIN full.years = DOMAIN years /\ \A n \in DOMAIN years : full.years[n] = Stored(years[n])
  BY DEF Database
<1>3. /\ \A k \in 1 .. 3 : truth.counts[k] = [n \in chosen |-> CountWithin(Cites(edges), n, k)]
      /\ truth.years = [n \in chosen |-> years[n]] /\ truth.histogram = Histogram(years)
  BY DEF Expected
<1>4. /\ args.one_hop = chosen /\ args.two_hop = chosen /\ args.three_hop = chosen
      /\ args.point_lookup = chosen /\ args.filtered_lookup = DOMAIN truth.histogram
      /\ args.aggregation = {"None"}
  BY DEF Arguments, Workloads
<1>5. DOMAIN Histogram(years) = {years[n] : n \in DOMAIN years} \ {""}
  BY DEF Histogram
<1>. HIDE DEF truth, full, args
<1>6. CASE w \in {"one_hop", "two_hop", "three_hop"}
  BY <1>1, <1>3, <1>4, <1>6 DEF Answers, Wanted
<1>7. CASE w = "point_lookup"
  <2>1. ASSUME NEW n \in chosen PROVE PointLookup(full, n) = years[n]
    <3>1. n \in DOMAIN years /\ years[n] # Null
      OBVIOUS
    <3>. QED  BY <1>2, <3>1 DEF PointLookup, Stored, Null
  <2>2. Answers(full, args)[w] = [n \in chosen |-> PointLookup(full, n)]
    BY <1>4, <1>7 DEF Answers
  <2>3. Wanted(truth)[w] = [n \in chosen |-> years[n]]
    BY <1>3, <1>7 DEF Wanted
  <2>. QED  BY <2>1, <2>2, <2>3
<1>8. CASE w = "filtered_lookup"
  <2>1. ASSUME NEW y \in DOMAIN Histogram(years) PROVE FilteredLookup(full, y) = Histogram(years)[y]
    <3>1. y # "" /\ y # Null
      BY <1>5
    <3>2. \A n \in DOMAIN years : full.years[n] = y <=> years[n] = y
      BY <1>2, <3>1 DEF Stored
    <3>3. {n \in DOMAIN full.years : full.years[n] = y} = {n \in DOMAIN years : years[n] = y}
      BY <1>2, <3>2
    <3>4. Histogram(years)[y] = Cardinality({n \in DOMAIN years : years[n] = y})
      BY DEF Histogram
    <3>. QED  BY <3>3, <3>4 DEF FilteredLookup
  <2>2. Answers(full, args)[w] = [y \in DOMAIN Histogram(years) |-> FilteredLookup(full, y)]
    BY <1>3, <1>4, <1>8 DEF Answers
  <2>3. Wanted(truth)[w] = Histogram(years)
    BY <1>3, <1>8 DEF Wanted
  <2>4. Histogram(years) = [y \in DOMAIN Histogram(years) |-> Histogram(years)[y]]
    BY DEF Histogram
  <2>. HIDE DEF Histogram
  <2>. QED  BY <2>1, <2>2, <2>3, <2>4
<1>9. CASE w = "aggregation"
  <2>1. {full.years[n] : n \in DOMAIN full.years} \ {Null} = DOMAIN Histogram(years)
    <3>1. ASSUME NEW n \in DOMAIN years
          PROVE  /\ years[n] # "" => full.years[n] = years[n]
                 /\ years[n] = "" => full.years[n] = Null
                 /\ years[n] # Null
      BY <1>2 DEF Stored
    <3>. QED  BY <1>2, <1>5, <3>1 DEF Null
  <2>2. Aggregation(full) = Cardinality(DOMAIN truth.histogram)
    BY <1>3, <2>1 DEF Aggregation
  <2>. QED  BY <1>4, <1>9, <2>2 DEF Answers, Wanted
<1>. QED  BY <1>6, <1>7, <1>8, <1>9 DEF Workloads

\* A call is answered alike whichever of the others are.
LEMMA PartOfAnswers ==
  ASSUME NEW one, NEW args, NEW part, NEW w \in Workloads, part[w] \subseteq args[w]
  PROVE  /\ DOMAIN Answers(one, part)[w] = part[w]
         /\ DOMAIN Answers(one, args)[w] = args[w]
         /\ \A a \in part[w] : Answers(one, part)[w][a] = Answers(one, args)[w][a]
<1>1. CASE w = "one_hop"
  BY <1>1 DEF Answers
<1>2. CASE w = "two_hop"
  BY <1>2 DEF Answers
<1>3. CASE w = "three_hop"
  BY <1>3 DEF Answers
<1>4. CASE w = "point_lookup"
  BY <1>4 DEF Answers
<1>5. CASE w = "filtered_lookup"
  BY <1>5 DEF Answers
<1>6. CASE w = "aggregation"
  BY <1>6 DEF Answers
<1>. QED  BY <1>1, <1>2, <1>3, <1>4, <1>5, <1>6 DEF Workloads

\* They are asked the same: each workload's answers are of its arguments.
LEMMA AnswersDomain ==
  ASSUME NEW one, NEW other, NEW args, NEW w \in Workloads
  PROVE  DOMAIN Answers(one, args)[w] = DOMAIN Answers(other, args)[w]
BY DEF Answers, Workloads

-----------------------------------------------------------------------------
(* What changes what. *)

prepared == <<raw, data, whole, preparations, pc, request, line, dates, next, cut>>

LEMMA OthersLeaveFiles ==
  Load \/ BenchStep \/ UNCHANGED vars => UNCHANGED prepared
BY DEF Load, BenchStep, BeginBenchmark, ReadExpected, ReadStartsAgain, ReadManifest, Abort, Measure,
       vars, files, prepare, prepared

LEMMA PrepareLeavesBench ==
  PrepareStep \/ Load => UNCHANGED bench
BY DEF Load, PrepareStep, Prepare, ReadDate, DatesRead, OpenFile, Open, FillFile, Die

LEMMA RawStays == [Next]_vars => raw' = raw
BY OthersLeaveFiles
   DEF Next, PrepareStep, Prepare, ReadDate, DatesRead, OpenFile, Open, FillFile, Die, prepared

LEMMA RawShape ==
  ASSUME raw \in Raws
  PROVE  /\ Len(raw.dates) \in Nat /\ DOMAIN raw.dates = 1 .. Len(raw.dates)
         /\ \A i \in 1 .. Len(raw.dates) : raw.dates[i].year \notin {"", Null}
<1>1. raw.dates \in Seq([id : Id, year : STRING])
  BY RawsAssumption
<1>. HIDE DEF Id
<1>2. Len(raw.dates) \in Nat /\ DOMAIN raw.dates = 1 .. Len(raw.dates)
  BY <1>1
<1>. QED  BY <1>2, RawsAssumption

LEMMA TypeInit == Init => TypeOK
<1>. SUFFICES ASSUME Init PROVE TypeOK
  OBVIOUS
<1>1. raw \in Raws
  BY DEF Init
<1>2. Len(raw.dates) \in Nat
  BY <1>1, RawShape
<1>3. 0 \in 0 .. Len(raw.dates) /\ 0 \in 0 .. MaxPreparations /\ 0 \in 0 .. MaxLoads
  BY <1>2, RunsAssumption
<1>4. 1 \in DOMAIN Files
  BY DEF Files
<1>. QED  BY <1>1, <1>3, <1>4 DEF Init, TypeOK

LEMMA TypeStep == TypeOK /\ [Next]_vars => TypeOK'
<1>. SUFFICES ASSUME TypeOK, [Next]_vars PROVE TypeOK'
  OBVIOUS
<1>0. raw \in Raws /\ raw' = raw /\ Len(raw.dates) \in Nat
  BY RawStays, RawShape DEF TypeOK
<1>00. DOMAIN Files = 1 .. 5 /\ Len(Files) = 5 /\ \A i \in 1 .. 5 : Files[i] \in FileNames
  BY DEF Files, FileNames
<1>1. CASE Prepare
  <2>1. preparations' \in 0 .. MaxPreparations
    BY <1>1, RunsAssumption DEF Prepare, TypeOK
  <2>2. line' \in 0 .. Len(raw.dates)
    BY <1>0, <1>1 DEF Prepare
  <2>3. /\ UNCHANGED <<data, whole, loads, stage, since>> /\ request' \in Requests
        /\ pc' = "dates" /\ next' = 1 /\ cut' = FALSE
    BY <1>1 DEF Prepare, load, bench, files
  <2>4. next' \in DOMAIN Files
    BY <1>00, <2>3
  <2>. QED  BY <1>0, <2>1, <2>2, <2>3, <2>4 DEF TypeOK
<1>2. CASE ReadDate
  BY <1>0, <1>2 DEF ReadDate, TypeOK, load, bench, files
<1>3. CASE DatesRead
  BY <1>0, <1>3 DEF DatesRead, TypeOK, load, bench, files
<1>4. CASE OpenFile
  BY <1>0, <1>00, <1>4 DEF OpenFile, Open, TypeOK, load, bench
<1>5. CASE FillFile
  BY <1>0, <1>00, <1>5 DEF FillFile, TypeOK, load, bench
<1>6. CASE Die
  BY <1>0, <1>6 DEF Die, TypeOK, load, bench, files
<1>7. CASE Load
  <2>1. loads' \in 0 .. MaxLoads
    BY <1>7, RunsAssumption DEF Load, TypeOK
  <2>. QED  BY <1>0, <1>7, <2>1 DEF Load, TypeOK, bench, files, prepare
<1>8. CASE BenchStep
  BY <1>0, <1>8, RunsAssumption
     DEF BenchStep, BeginBenchmark, ReadExpected, ReadStartsAgain, ReadManifest, Abort, Measure, TypeOK,
         load, files, prepare
<1>9. CASE UNCHANGED vars
  BY <1>9 DEF vars, files, prepare, load, bench, TypeOK
<1>. QED  BY <1>1, <1>2, <1>3, <1>4, <1>5, <1>6, <1>7, <1>8, <1>9 DEF Next, PrepareStep

\* The variables of the pipeline keep their types.
THEOREM TypeCorrect == Spec => []TypeOK
BY TypeInit, TypeStep, PTL DEF Spec

-----------------------------------------------------------------------------
(* The dates of the papers. *)

\* What read_dates knows after the first so many lines.
Known(d, read) ==
  /\ DOMAIN d = {Normalise(raw.dates[i].id) : i \in 1 .. read}
  /\ \A key \in DOMAIN d : DateOf(key, d[key], read)

\* One more line keeps the precedence: the plain entry of a paper wins wherever it is.
LEMMA AddDateKeeps ==
  ASSUME raw \in Raws, NEW d, NEW read \in Nat, read < Len(raw.dates), Known(d, read)
  PROVE  Known(AddDate(d, raw.dates[read + 1]), read + 1)
<1>. DEFINE entry == raw.dates[read + 1]
            key == Normalise(entry.id)
            d2 == AddDate(d, entry)
            Key(i) == Normalise(raw.dates[i].id)
            Cross(i) == CrossListed(raw.dates[i].id)
<1>1. \A i \in 1 .. read + 1 : i \in 1 .. read \/ i = read + 1
  OBVIOUS
<1>2. \A i \in 1 .. read : i \in 1 .. read + 1
  OBVIOUS
<1>3. read + 1 \in 1 .. read + 1
  OBVIOUS
<1>4. DOMAIN d2 = DOMAIN d \cup {key}
  BY DEF AddDate
<1>5. DOMAIN d2 = {Key(i) : i \in 1 .. read + 1}
  <2>1. DOMAIN d = {Key(i) : i \in 1 .. read}
    BY DEF Known
  <2>. HIDE DEF Key, d2
  <2>2. key = Key(read + 1)
    BY DEF Key
  <2>. QED  BY <1>1, <1>2, <1>3, <1>4, <2>1, <2>2
<1>6. ASSUME NEW x \in DOMAIN d2 PROVE DateOf(x, d2[x], read + 1)
  <2>1. CASE x # key
    <3>1. x \in DOMAIN d /\ d2[x] = d[x]
      BY <1>4, <2>1 DEF AddDate
    <3>2. PICK i \in 1 .. read :
            /\ Key(i) = x /\ raw.dates[i].year = d[x]
            /\ Cross(i) => \A j \in 1 .. read : Key(j) = x => Cross(j)
      BY <3>1 DEF Known, DateOf
    <3>3. Key(read + 1) # x
      BY <2>1
    <3>. HIDE DEF Key, Cross, d2
    <3>4. Cross(i) => \A j \in 1 .. read + 1 : Key(j) = x => Cross(j)
      BY <1>1, <3>2, <3>3
    <3>. QED  BY <1>2, <3>1, <3>2, <3>4 DEF DateOf, Key, Cross
  <2>2. CASE x = key /\ (key \notin DOMAIN d \/ ~CrossListed(entry.id))
    <3>1. d2[x] = entry.year
      BY <2>2 DEF AddDate
    <3>2. Cross(read + 1) => \A j \in 1 .. read : Key(j) # key
      BY <2>2 DEF Known
    <3>. HIDE DEF d2
    <3>3. Cross(read + 1) => \A j \in 1 .. read + 1 : Key(j) = x => Cross(j)
      BY <1>1, <2>2, <3>2
    <3>. QED  BY <1>3, <2>2, <3>1, <3>3 DEF DateOf
  <2>3. CASE x = key /\ key \in DOMAIN d /\ CrossListed(entry.id)
    <3>1. d2 = d
      BY <2>3 DEF AddDate
    <3>2. PICK i \in 1 .. read :
            /\ Key(i) = x /\ raw.dates[i].year = d[x]
            /\ Cross(i) => \A j \in 1 .. read : Key(j) = x => Cross(j)
      BY <2>3 DEF Known, DateOf
    <3>3. Cross(read + 1)
      BY <2>3
    <3>. HIDE DEF Key, Cross, d2
    <3>4. Cross(i) => \A j \in 1 .. read + 1 : Key(j) = x => Cross(j)
      BY <1>1, <3>2, <3>3
    <3>. QED  BY <1>2, <3>1, <3>2, <3>4 DEF DateOf, Key, Cross
  <2>. QED  BY <2>1, <2>2, <2>3
<1>. QED  BY <1>5, <1>6 DEF Known

DatesInv ==
  /\ pc # "idle" => Known(dates, line)
  /\ pc \in {"open", "fill"} => line = Len(raw.dates)

\* It knows the same while nothing is read.
LEMMA KnownStays ==
  ASSUME Known(dates, line), UNCHANGED <<raw, dates, line>>
  PROVE  Known(dates, line)'
<1>1. raw' = raw /\ dates' = dates /\ line' = line
  OBVIOUS
<1>. QED  BY <1>1 DEF Known, DateOf

LEMMA DatesStep == TypeOK /\ DatesInv /\ [Next]_vars => DatesInv'
<1>. SUFFICES ASSUME TypeOK, DatesInv, [Next]_vars PROVE DatesInv'
  OBVIOUS
<1>0. raw \in Raws /\ raw' = raw /\ line \in Nat
  <2>1. raw \in Raws /\ raw' = raw /\ line \in 0 .. Len(raw.dates)
    BY RawStays DEF TypeOK
  <2>2. Len(raw.dates) \in Nat
    BY <2>1, RawShape
  <2>. QED  BY <2>1, <2>2
<1>1. CASE Prepare
  <2>1. pc' = "dates" /\ dates' = <<>> /\ line' = 0
    BY <1>1 DEF Prepare
  <2>2. Known(<<>>, 0)
    BY DEF Known
  <2>. QED  BY <1>0, <2>1, <2>2 DEF DatesInv, Known, DateOf
<1>2. CASE ReadDate
  <2>1. Known(AddDate(dates, raw.dates[line + 1]), line + 1)
    BY <1>0, <1>2, AddDateKeeps DEF ReadDate, DatesInv
  <2>. QED  BY <1>0, <1>2, <2>1 DEF ReadDate, DatesInv, Known, DateOf
<1>3. CASE DatesRead
  BY <1>0, <1>3 DEF DatesRead, DatesInv, Known, DateOf
<1>4. CASE OpenFile \/ FillFile
  <2>1. pc \in {"open", "fill"} /\ UNCHANGED <<raw, dates, line>>
    BY <1>4 DEF OpenFile, Open, FillFile
  <2>2. Known(dates, line)'
    BY <2>1, KnownStays DEF DatesInv
  <2>. QED  BY <2>1, <2>2 DEF DatesInv
<1>6. CASE Die
  BY <1>6 DEF Die, DatesInv
<1>5. CASE Load \/ BenchStep \/ UNCHANGED vars
  BY <1>5, OthersLeaveFiles DEF prepared, DatesInv, Known, DateOf
<1>. QED  BY <1>1, <1>2, <1>3, <1>4, <1>5, <1>6 DEF Next, PrepareStep

\* Whatever the order of the lines, the plain entry of a paper wins over its cross-listings.
THEOREM PlainWins == Spec => []PlainEntryWins
<1>1. Init => DatesInv
  BY DEF Init, DatesInv
<1>2. DatesInv => PlainEntryWins
  BY DEF DatesInv, PlainEntryWins, Known
<1>. QED  BY <1>1, <1>2, DatesStep, TypeCorrect, PTL DEF Spec

-----------------------------------------------------------------------------
(* The files. *)

\* What the preparation under way has written so far.
WritingInv ==
  /\ pc \in {"open", "fill"} => \A i \in 1 .. 4 :
       i < next \/ (i = next /\ pc = "fill") => data[Files[i]] = Prepared(request, dates)[Files[i]]
  /\ pc # "idle" => \A i \in 1 .. 4 : i < next => Files[i] \in whole
  /\ pc = "fill" /\ next = 5 => data["manifest.json"] = OnDisk
  /\ pc = "dates" => next = 1
  /\ pc # "idle" => cut = FALSE /\ preparations > 0

LEMMA FilesFacts ==
  /\ Len(Files) = 5 /\ DOMAIN Files = 1 .. 5 /\ Files[5] = "manifest.json"
  /\ \A i \in 1 .. 4 : Files[i] \in Hashed
  /\ \A i, j \in 1 .. 5 : Files[i] = Files[j] => i = j
  /\ FileNames = {Files[i] : i \in 1 .. 5}
  /\ Hashed = {Files[i] : i \in 1 .. 4}
<1>1. DOMAIN Files = 1 .. 5 /\ Len(Files) = 5 /\ 1 .. 5 = {1, 2, 3, 4, 5} /\ 1 .. 4 = {1, 2, 3, 4}
  BY DEF Files
<1>2. /\ Files[1] = "nodes.csv" /\ Files[2] = "edges.csv" /\ Files[3] = "start_nodes.json"
      /\ Files[4] = "expected.json" /\ Files[5] = "manifest.json"
  BY DEF Files
<1>3. FileNames = {Files[1], Files[2], Files[3], Files[4], Files[5]}
  BY <1>1 DEF FileNames
<1>. QED  BY <1>1, <1>2, <1>3 DEF Hashed

\* What a preparation would write depends on nothing it writes.
LEMMA PreparedStays ==
  ASSUME UNCHANGED <<raw, request, dates>>
  PROVE  Prepared(request, dates)' = Prepared(request, dates)
<1>1. raw' = raw /\ request' = request /\ dates' = dates
  OBVIOUS
<1>. QED  BY <1>1 DEF Prepared

LEMMA WritingStep == TypeOK /\ WritingInv /\ [Next]_vars => WritingInv'
<1>. SUFFICES ASSUME TypeOK, WritingInv, [Next]_vars PROVE WritingInv'
  OBVIOUS
<1>. DEFINE made == Prepared(request, dates)
<1>0. /\ DOMAIN data = FileNames /\ next \in 1 .. 5 /\ preparations \in Nat
      /\ \A i \in 1 .. 4 : Files[i] \in FileNames
  BY FilesFacts, RunsAssumption DEF TypeOK, Hashed
<1>1. CASE Prepare
  <2>1. pc' = "dates" /\ next' = 1 /\ cut' = FALSE /\ preparations' = preparations + 1
    BY <1>1 DEF Prepare
  <2>2. preparations' > 0
    BY <1>0, <2>1
  <2>. QED  BY <2>1, <2>2 DEF WritingInv
<1>2. CASE ReadDate
  BY <1>2 DEF ReadDate, WritingInv, files
<1>3. CASE DatesRead
  BY <1>3 DEF DatesRead, WritingInv, files
<1>4. CASE OpenFile
  <2>1. /\ pc = "open" /\ pc' = "fill" /\ UNCHANGED <<raw, request, dates, next, cut, preparations>>
        /\ data' = [data EXCEPT ![Files[next]] = Content(Files[next])]
        /\ whole' = whole \ {Files[next]}
    BY <1>4 DEF OpenFile, Open
  <2>2. made' = made
    BY <2>1, PreparedStays
  <2>. HIDE DEF made
  <2>3. ASSUME NEW i \in 1 .. 4, i < next PROVE data'[Files[i]] = made[Files[i]] /\ Files[i] \in whole'
    <3>1. Files[i] # Files[next]
      BY <1>0, <2>3, FilesFacts
    <3>. QED  BY <1>0, <2>1, <2>3, <3>1 DEF WritingInv, made
  <2>4. ASSUME next \in 1 .. 4 PROVE data'[Files[next]] = made[Files[next]]
    <3>1. Files[next] # "manifest.json"
      BY <2>4, FilesFacts DEF Hashed
    <3>. QED  BY <1>0, <2>1, <2>4, <3>1 DEF Content, made
  <2>5. ASSUME next = 5 PROVE data'["manifest.json"] = OnDisk'
    <3>1. data' = [data EXCEPT !["manifest.json"] = OnDisk] /\ "manifest.json" \in DOMAIN data
      BY <1>0, <2>1, <2>5, FilesFacts DEF Content, FileNames
    <3>2. \A f \in Hashed : data'[f] = data[f]
      BY <1>0, <3>1 DEF Hashed
    <3>. QED  BY <3>1, <3>2 DEF OnDisk
  <2>6. \A i \in 1 .. 4 : i < next \/ i = next => data'[Files[i]] = made[Files[i]]
    BY <2>3, <2>4
  <2>7. \A i \in 1 .. 4 : i < next => Files[i] \in whole'
    BY <2>3
  <2>8. cut = FALSE /\ preparations > 0
    BY <2>1 DEF WritingInv
  <2>. QED  BY <2>1, <2>2, <2>5, <2>6, <2>7, <2>8 DEF WritingInv, made
<1>5. CASE FillFile
  <2>1. /\ pc = "fill" /\ UNCHANGED <<raw, request, dates, data, cut, preparations>>
        /\ whole' = whole \cup {Files[next]}
        /\ pc' = (IF next = 5 THEN "idle" ELSE "open") /\ next' = (IF next = 5 THEN 1 ELSE next + 1)
    BY <1>5, FilesFacts DEF FillFile
  <2>2. CASE next = 5
    BY <2>1, <2>2 DEF WritingInv
  <2>3. CASE next # 5
    <3>1. made' = made
      BY <2>1, PreparedStays
    <3>. HIDE DEF made
    <3>2. \A i \in 1 .. 4 : i < next + 1 => i < next \/ i = next
      BY <1>0
    <3>3. \A i \in 1 .. 4 : i < next' => data'[Files[i]] = made[Files[i]] /\ Files[i] \in whole'
      BY <2>1, <2>3, <3>2 DEF WritingInv, made
    <3>4. cut = FALSE /\ preparations > 0
      BY <2>1 DEF WritingInv
    <3>. QED  BY <2>1, <2>3, <3>1, <3>3, <3>4 DEF WritingInv, made
  <2>. QED  BY <2>2, <2>3
<1>6. CASE Die
  BY <1>6 DEF Die, WritingInv
<1>7. CASE Load \/ BenchStep \/ UNCHANGED vars
  <2>1. UNCHANGED prepared
    BY <1>7, OthersLeaveFiles
  <2>2. made' = made /\ OnDisk' = OnDisk
    BY <2>1, PreparedStays DEF prepared, OnDisk
  <2>. HIDE DEF made
  <2>. QED  BY <2>1, <2>2 DEF prepared, WritingInv, made
<1>. QED  BY <1>1, <1>2, <1>3, <1>4, <1>5, <1>6, <1>7 DEF Next, PrepareStep

\* A manifest that is complete, or about to be, has the four files of some preparation.
ManifestInv ==
  "manifest.json" \in whole \/ (pc = "fill" /\ next = 5) =>
    \E r, d : r \in Requests /\ Known(d, Len(raw.dates)) /\ data["manifest.json"] = Prepared(r, d)

LEMMA ManifestStep ==
  TypeOK /\ DatesInv /\ WritingInv /\ ManifestInv /\ [Next]_vars => ManifestInv'
<1>. SUFFICES ASSUME TypeOK, DatesInv, WritingInv, [Next]_vars, ManifestInv,
                     ("manifest.json" \in whole \/ (pc = "fill" /\ next = 5))'
              PROVE  \E r, d : r \in Requests /\ Known(d, Len(raw.dates))' /\ (data["manifest.json"] = Prepared(r, d))'
  BY DEF ManifestInv
<1>0. raw' = raw /\ DOMAIN data = FileNames /\ next \in 1 .. 5 /\ request \in Requests
  BY RawStays, FilesFacts DEF TypeOK
<1>1. ASSUME NEW d, Known(d, Len(raw.dates)) PROVE Known(d, Len(raw.dates))'
  BY <1>0, <1>1 DEF Known, DateOf
<1>2. ASSUME NEW r, NEW d PROVE Prepared(r, d)' = Prepared(r, d)
  BY <1>0 DEF Prepared
<1>3. CASE OpenFile /\ next = 5
  <2>1. pc = "open" /\ data' = [data EXCEPT !["manifest.json"] = OnDisk]
    BY <1>3, FilesFacts DEF OpenFile, Open, Content
  <2>2. data'["manifest.json"] = OnDisk
    BY <1>0, <2>1, FilesFacts DEF FileNames
  <2>3. \A i \in 1 .. 4 : data[Files[i]] = Prepared(request, dates)[Files[i]]
    BY <1>3, <2>1 DEF WritingInv
  <2>4. \A f \in Hashed : data[f] = Prepared(request, dates)[f]
    BY <2>3, FilesFacts
  <2>5. Prepared(request, dates) = [f \in Hashed |-> Prepared(request, dates)[f]]
    BY DEF Prepared
  <2>6. OnDisk = Prepared(request, dates)
    BY <2>4, <2>5 DEF OnDisk
  <2>7. Known(dates, Len(raw.dates))
    BY <2>1 DEF DatesInv
  <2>. QED  BY <1>0, <1>1, <1>2, <2>2, <2>6, <2>7
<1>4. CASE ~(OpenFile /\ next = 5)
  <2>1. data'["manifest.json"] = data["manifest.json"] /\ ("manifest.json" \in whole \/ (pc = "fill" /\ next = 5))
    <3>1. CASE Prepare
      BY <3>1 DEF Prepare, files
    <3>2. CASE ReadDate \/ DatesRead \/ Die
      BY <3>2 DEF ReadDate, DatesRead, Die, files
    <3>3. CASE OpenFile
      <4>1. next \in 1 .. 4 /\ Files[next] # "manifest.json"
        BY <1>0, <1>4, <3>3, FilesFacts DEF Hashed
      <4>. QED  BY <1>0, <3>3, <4>1 DEF OpenFile, Open, FileNames
    <3>4. CASE FillFile
      <4>1. Files[next] = "manifest.json" => next = 5
        BY <1>0, FilesFacts
      <4>. QED  BY <1>0, <3>4, <4>1, FilesFacts DEF FillFile
    <3>5. CASE Load \/ BenchStep \/ UNCHANGED vars
      BY <3>5, OthersLeaveFiles DEF prepared
    <3>. QED  BY <3>1, <3>2, <3>3, <3>4, <3>5 DEF Next, PrepareStep
  <2>2. PICK r, d : r \in Requests /\ Known(d, Len(raw.dates)) /\ data["manifest.json"] = Prepared(r, d)
    BY <2>1 DEF ManifestInv
  <2>. QED  BY <1>1, <1>2, <2>1, <2>2
<1>. QED  BY <1>3, <1>4

\* When no preparation runs and the last one was not cut short, the files are whole.
DiskInv ==
  /\ preparations = 0 => pc = "idle" /\ whole = {}
  /\ Settled /\ preparations > 0 => whole = FileNames /\ data["manifest.json"] = OnDisk

LEMMA DiskStep == TypeOK /\ WritingInv /\ DiskInv /\ [Next]_vars => DiskInv'
<1>. SUFFICES ASSUME TypeOK, WritingInv, DiskInv, [Next]_vars PROVE DiskInv'
  OBVIOUS
<1>0. preparations \in Nat /\ next \in 1 .. 5 /\ whole \subseteq FileNames
  BY FilesFacts, RunsAssumption DEF TypeOK
<1>1. CASE Prepare
  <2>1. pc' = "dates" /\ preparations' = preparations + 1
    BY <1>1 DEF Prepare
  <2>. QED  BY <1>0, <2>1 DEF DiskInv, Settled
<1>2. CASE ReadDate \/ DatesRead \/ OpenFile
  <2>1. pc # "idle" /\ pc' # "idle" /\ preparations' = preparations
    BY <1>2 DEF ReadDate, DatesRead, OpenFile, Open
  <2>. QED  BY <2>1 DEF DiskInv, Settled
<1>3. CASE FillFile
  <2>1. /\ pc = "fill" /\ whole' = whole \cup {Files[next]} /\ UNCHANGED <<data, preparations, cut>>
        /\ pc' = "idle" => next = 5
    BY <1>3, FilesFacts DEF FillFile
  <2>2. preparations' > 0
    BY <2>1 DEF WritingInv
  <2>3. ASSUME next = 5 PROVE whole' = FileNames /\ data'["manifest.json"] = OnDisk'
    <3>1. \A i \in 1 .. 4 : Files[i] \in whole
      BY <2>1, <2>3 DEF WritingInv
    <3>2. \A i \in 1 .. 5 : i \in 1 .. 4 \/ i = 5
      OBVIOUS
    <3>3. whole' = FileNames
      BY <1>0, <2>1, <2>3, <3>1, <3>2, FilesFacts
    <3>. QED  BY <2>1, <2>3, <3>3 DEF WritingInv, OnDisk
  <2>. QED  BY <1>0, <2>1, <2>2, <2>3 DEF DiskInv, Settled
<1>4. CASE Die
  <2>1. pc # "idle" /\ cut' = TRUE /\ preparations' = preparations
    BY <1>4 DEF Die
  <2>. QED  BY <2>1 DEF DiskInv, Settled
<1>5. CASE Load \/ BenchStep \/ UNCHANGED vars
  BY <1>5, OthersLeaveFiles DEF prepared, DiskInv, Settled, OnDisk
<1>. QED  BY <1>1, <1>2, <1>3, <1>4, <1>5 DEF Next, PrepareStep

DiskFacts == TypeOK /\ DatesInv /\ WritingInv /\ ManifestInv /\ DiskInv

LEMMA DiskHolds == Spec => []DiskFacts
<1>1. Init => DatesInv /\ WritingInv /\ ManifestInv /\ DiskInv
  BY DEF Init, DatesInv, WritingInv, ManifestInv, DiskInv
<1>. QED  BY <1>1, TypeInit, TypeStep, DatesStep, WritingStep, ManifestStep, DiskStep, PTL
          DEF Spec, DiskFacts

\* The four files of a preparation are one dataset with its ground truth.
LEMMA PreparedIsDataset ==
  ASSUME raw \in Raws, NEW r \in Requests, NEW d, Known(d, Len(raw.dates))
  PROVE  LET p == Prepared(r, d)
             years == p["nodes.csv"]
             edges == p["edges.csv"]
             chosen == DOMAIN p["start_nodes.json"]
         IN  /\ DOMAIN years = Papers(edges) /\ chosen \subseteq Papers(edges)
             /\ p["expected.json"] = Expected(Cites(edges), chosen, years)
             /\ \A n \in DOMAIN years : years[n] # Null
             /\ \A n \in DOMAIN years :
                  IF years[n] = "" THEN \A i \in DOMAIN raw.dates : Normalise(raw.dates[i].id) # n
                  ELSE DateOf(n, years[n], Len(raw.dates))
<1>. DEFINE p == Prepared(r, d)
            edges == Kept(raw.edges, r)
            years == Years(Papers(edges), d)
            chosen == DOMAIN PickStartNodes(edges, r.seed)
<1>1. /\ p["nodes.csv"] = years /\ p["edges.csv"] = edges
      /\ p["start_nodes.json"] = PickStartNodes(edges, r.seed)
      /\ p["expected.json"] = Expected(Cites(edges), chosen, years)
  BY DEF Prepared, Hashed, FileNames, Files
<1>2. chosen \subseteq Papers(edges)
  <2>1. chosen \subseteq Citing(edges)
    <3>. DEFINE citing == Citing(edges)
    <3>1. StartCount >= Cardinality(citing) \/ Draw(r.seed, citing, StartCount) \subseteq citing
      BY DrawAssumption
    <3>2. chosen = IF StartCount >= Cardinality(citing) THEN citing ELSE Draw(r.seed, citing, StartCount)
      BY DEF PickStartNodes
    <3>. HIDE DEF edges, chosen
    <3>. QED  BY <3>1, <3>2
  <2>2. Citing(edges) \subseteq Papers(edges)
    BY DEF Citing, Papers
  <2>. QED  BY <2>1, <2>2
<1>3. DOMAIN years = Papers(edges) /\ \A n \in DOMAIN years : years[n] = IF n \in DOMAIN d THEN d[n] ELSE ""
  BY DEF Years
<1>4. \A n \in DOMAIN d : DateOf(n, d[n], Len(raw.dates)) /\ d[n] # "" /\ d[n] # Null
  BY RawShape DEF Known, DateOf
<1>5. \A n : n \notin DOMAIN d => \A i \in DOMAIN raw.dates : Normalise(raw.dates[i].id) # n
  BY RawShape DEF Known
<1>6. "" # Null
  BY DEF Null
<1>. HIDE DEF p, edges, years, chosen
<1>7. \A n \in DOMAIN years :
        /\ years[n] # Null
        /\ IF years[n] = "" THEN \A i \in DOMAIN raw.dates : Normalise(raw.dates[i].id) # n
           ELSE DateOf(n, years[n], Len(raw.dates))
  BY <1>3, <1>4, <1>5, <1>6
<1>8. DOMAIN p["start_nodes.json"] = chosen
  BY <1>1 DEF chosen
<1>. QED  BY <1>1, <1>2, <1>3, <1>7, <1>8 DEF p

\* What expected_answers computes of a dataset is its ground truth.
LEMMA ExpectedIsTruth ==
  ASSUME NEW truth, NEW chosen, NEW years, NEW edges,
         truth = Expected(Cites(edges), DOMAIN chosen, years)
  PROVE  GroundTruth(truth, chosen, years, edges)
<1>1. /\ truth.years = [n \in DOMAIN chosen |-> years[n]] /\ truth.histogram = Histogram(years)
      /\ \A k \in 1 .. 3 : truth.counts[k] = [n \in DOMAIN chosen |-> CountWithin(Cites(edges), n, k)]
  BY DEF Expected
<1>2. ASSUME NEW n \in DOMAIN chosen, NEW k \in 1 .. 3
      PROVE  truth.counts[k][n] = Cardinality(PathEnds(Cites(edges), n, k) \ {n})
  <2>1. truth.counts[k][n] = CountWithin(Cites(edges), n, k)
    BY <1>1
  <2>. QED  BY <2>1, PathsAreExpansions
<1>3. \A y \in DOMAIN truth.histogram :
        truth.histogram[y] = Cardinality({n \in DOMAIN years : years[n] = y})
  BY <1>1 DEF Histogram
<1>. QED  BY <1>1, <1>2, <1>3 DEF GroundTruth

\* The hash check of the manifest proves what it is for: files that have the hashes of the
\* manifest are one dataset with its own ground truth.
THEOREM ManifestProves == Spec => []ManifestProvesDataset
<1>1. DiskFacts => ManifestProvesDataset
  <2>. SUFFICES ASSUME DiskFacts, FileNames \subseteq whole, data["manifest.json"] = OnDisk
                PROVE  /\ DOMAIN data["nodes.csv"] = Papers(data["edges.csv"])
                       /\ \A n \in DOMAIN data["nodes.csv"] :
                            IF data["nodes.csv"][n] = ""
                            THEN \A i \in DOMAIN raw.dates : Normalise(raw.dates[i].id) # n
                            ELSE DateOf(n, data["nodes.csv"][n], Len(raw.dates))
                       /\ GroundTruth(data["expected.json"], data["start_nodes.json"],
                                      data["nodes.csv"], data["edges.csv"])
    BY DEF ManifestProvesDataset
  <2>. DEFINE years == data["nodes.csv"]
              edges == data["edges.csv"]
              chosen == DOMAIN data["start_nodes.json"]
              truth == data["expected.json"]
  <2>1. "manifest.json" \in whole /\ raw \in Raws
    BY FilesFacts DEF FileNames, DiskFacts, TypeOK
  <2>2. PICK r, d : r \in Requests /\ Known(d, Len(raw.dates)) /\ data["manifest.json"] = Prepared(r, d)
    BY <2>1 DEF DiskFacts, ManifestInv
  <2>3. \A f \in Hashed : Prepared(r, d)[f] = data[f]
    BY <2>2 DEF OnDisk
  <2>4. {"nodes.csv", "edges.csv", "start_nodes.json", "expected.json"} \subseteq Hashed
    BY FilesFacts DEF Files, Hashed, FileNames
  <2>5. /\ DOMAIN years = Papers(edges) /\ truth = Expected(Cites(edges), chosen, years)
        /\ chosen \subseteq Papers(edges)
        /\ \A n \in DOMAIN years :
             IF years[n] = "" THEN \A i \in DOMAIN raw.dates : Normalise(raw.dates[i].id) # n
             ELSE DateOf(n, years[n], Len(raw.dates))
    BY <2>1, <2>2, <2>3, <2>4, PreparedIsDataset
  <2>. HIDE DEF years, edges, chosen, truth
  <2>6. GroundTruth(truth, data["start_nodes.json"], years, edges)
    BY <2>5, ExpectedIsTruth DEF chosen
  <2>. QED  BY <2>5, <2>6 DEF years, edges, truth
<1>. QED  BY <1>1, DiskHolds, PTL

-----------------------------------------------------------------------------
(* The verdicts. *)

\* The four files of a preparation of these raw files.
OfOnePreparation(f) ==
  \E r, d : r \in Requests /\ Known(d, Len(raw.dates)) /\ f = Prepared(r, d)

\* What a measurement has read, if no preparation disturbed it.
BenchInv ==
  /\ stage # "start_nodes.json" => preparations > 0
  /\ since \in Nat /\ since <= preparations
  /\ stage # "start_nodes.json" /\ since = preparations =>
       /\ Settled /\ starts = DOMAIN data["start_nodes.json"]
       /\ stage \in {"mixed", "manifest.json", "measure", "published"} =>
            expected = data["expected.json"]
       /\ stage \in {"manifest.json", "measure", "published"} => pool = starts
       /\ stage \in {"measure", "published"} => hashes = data["manifest.json"]

\* What an answer is of, and what is made of it.
VerdictInv ==
  stage = "published" =>
    /\ \A w \in Workloads :
         /\ DOMAIN answers[w] \subseteq DOMAIN Answers(measured, Arguments(starts, expected))[w]
         /\ \A a \in DOMAIN answers[w] :
              answers[w][a] = Answers(measured, Arguments(starts, expected))[w][a]
    /\ verdicts = [w \in Workloads |->
         IF Mismatched(answers, Wanted(expected), w) THEN "MISMATCH" ELSE "ok"]

\* The hashes are of one preparation, whatever ran meanwhile.
HashInv == stage \in {"measure", "published"} => hashes = NoFile \/ OfOnePreparation(hashes)

LEMMA BenchStepInv == DiskFacts /\ BenchInv /\ [Next]_vars => BenchInv'
<1>. SUFFICES ASSUME DiskFacts, BenchInv, [Next]_vars PROVE BenchInv'
  OBVIOUS
<1>0. /\ preparations \in Nat
      /\ preparations = 0 => pc = "idle" /\ whole = {}
      /\ Settled /\ preparations > 0 => whole = FileNames /\ data["manifest.json"] = OnDisk
  BY RunsAssumption DEF DiskFacts, TypeOK, DiskInv
<1>1. CASE Prepare
  <2>1. preparations' = preparations + 1 /\ UNCHANGED bench
    BY <1>1, PrepareLeavesBench DEF Prepare, PrepareStep
  <2>2. since < preparations' /\ preparations' > 0
    BY <1>0, <2>1 DEF BenchInv
  <2>. QED  BY <1>0, <2>1, <2>2 DEF BenchInv, bench
<1>2. CASE ReadDate \/ DatesRead \/ OpenFile \/ FillFile \/ Die
  <2>1. pc # "idle" /\ preparations' = preparations /\ UNCHANGED bench
    BY <1>2, PrepareLeavesBench
       DEF PrepareStep, ReadDate, DatesRead, OpenFile, Open, FillFile, Die
  <2>2. ~Settled
    BY <2>1 DEF Settled
  <2>. QED  BY <2>1, <2>2 DEF BenchInv, bench
<1>3. CASE Load \/ UNCHANGED vars
  <2>1. UNCHANGED prepared /\ UNCHANGED bench
    BY <1>3, OthersLeaveFiles, PrepareLeavesBench DEF vars
  <2>. QED  BY <2>1 DEF BenchInv, bench, prepared, Settled
<1>4. CASE BenchStep
  <2>1. UNCHANGED prepared
    BY <1>4, OthersLeaveFiles
  <2>2. UNCHANGED <<data, preparations>> /\ Settled' = Settled
    BY <2>1 DEF prepared, Settled
  <2>3. CASE BeginBenchmark
    <3>1. preparations > 0
      BY <1>0, <2>3 DEF BeginBenchmark
    <3>2. /\ stage = "start_nodes.json" /\ stage' = "expected.json"
          /\ starts' = DOMAIN data["start_nodes.json"]
          /\ since' = IF Settled THEN preparations ELSE 0
      BY <2>3 DEF BeginBenchmark
    <3>3. since' \in Nat /\ since' <= preparations /\ (since' = preparations => Settled)
      BY <1>0, <3>1, <3>2
    <3>. QED  BY <2>2, <3>1, <3>2, <3>3 DEF BenchInv
  <2>4. CASE ReadExpected
    <3>1. /\ stage = "expected.json" /\ stage' = "mixed" /\ expected' = data["expected.json"]
          /\ UNCHANGED <<starts, since>>
      BY <2>4 DEF ReadExpected
    <3>. QED  BY <2>2, <3>1 DEF BenchInv
  <2>8. CASE ReadStartsAgain
    <3>1. /\ stage = "mixed" /\ stage' = "manifest.json" /\ pool' = DOMAIN data["start_nodes.json"]
          /\ UNCHANGED <<starts, expected, since>>
      BY <2>8 DEF ReadStartsAgain
    <3>. QED  BY <2>2, <3>1 DEF BenchInv
  <2>5. CASE ReadManifest
    <3>1. /\ stage = "manifest.json" /\ stage' = "measure" /\ hashes' = data["manifest.json"]
          /\ UNCHANGED <<starts, expected, pool, since>>
      BY <2>5 DEF ReadManifest
    <3>. QED  BY <2>2, <3>1 DEF BenchInv
  <2>6. CASE Abort
    <3>1. stage' = "start_nodes.json" /\ since' = 0
      BY <2>6 DEF Abort
    <3>. QED  BY <1>0, <2>2, <3>1 DEF BenchInv
  <2>7. CASE Measure
    <3>1. stage = "measure" /\ stage' = "published" /\ UNCHANGED <<starts, expected, pool, hashes, since>>
      BY <2>7 DEF Measure
    <3>. QED  BY <2>2, <3>1 DEF BenchInv
  <2>. QED  BY <1>4, <2>3, <2>4, <2>5, <2>6, <2>7, <2>8 DEF BenchStep
<1>. QED  BY <1>1, <1>2, <1>3, <1>4 DEF Next, PrepareStep

LEMMA VerdictStep == VerdictInv /\ [Next]_vars => VerdictInv'
<1>. SUFFICES ASSUME VerdictInv, [Next]_vars PROVE VerdictInv'
  OBVIOUS
<1>1. CASE Measure
  <2>. DEFINE asked == Arguments(starts, expected)
  <2>1. PICK lost \in SUBSET Calls(asked) :
          answers' = Answers(db, [w \in Workloads |-> {a \in asked[w] : <<w, a>> \notin lost}])
    BY <1>1 DEF Measure
  <2>. DEFINE part == [w \in Workloads |-> {a \in asked[w] : <<w, a>> \notin lost}]
  <2>2. /\ measured' = db /\ starts' = starts /\ expected' = expected
        /\ verdicts' = [w \in Workloads |->
             IF Mismatched(answers', Wanted(expected), w) THEN "MISMATCH" ELSE "ok"]
    BY <1>1 DEF Measure
  <2>3. Arguments(starts', expected') = asked
    BY <2>2
  <2>4. ASSUME NEW w \in Workloads PROVE part[w] \subseteq asked[w]
    OBVIOUS
  <2>. HIDE DEF asked, part
  <2>5. answers' = Answers(db, part)
    BY <2>1 DEF part
  <2>6. ASSUME NEW w \in Workloads
        PROVE  /\ DOMAIN answers'[w] \subseteq DOMAIN Answers(measured', asked)[w]
               /\ \A a \in DOMAIN answers'[w] : answers'[w][a] = Answers(measured', asked)[w][a]
    <3>1. part[w] \subseteq asked[w]
      BY <2>4
    <3>2. /\ DOMAIN Answers(db, part)[w] = part[w] /\ DOMAIN Answers(db, asked)[w] = asked[w]
          /\ \A a \in part[w] : Answers(db, part)[w][a] = Answers(db, asked)[w][a]
      BY <3>1, PartOfAnswers
    <3>3. Answers(measured', asked) = Answers(db, asked)
      BY <2>2
    <3>. QED  BY <2>5, <3>1, <3>2, <3>3
  <2>. QED  BY <2>2, <2>3, <2>6 DEF VerdictInv
<1>2. CASE BeginBenchmark \/ ReadExpected \/ ReadStartsAgain \/ ReadManifest \/ Abort
  <2>1. stage' # "published"
    BY <1>2 DEF BeginBenchmark, ReadExpected, ReadStartsAgain, ReadManifest, Abort
  <2>. QED  BY <2>1 DEF VerdictInv
<1>3. CASE PrepareStep \/ Load \/ UNCHANGED vars
  BY <1>3, PrepareLeavesBench DEF VerdictInv, bench, vars
<1>. QED  BY <1>1, <1>2, <1>3 DEF Next, BenchStep

LEMMA HashStep == DiskFacts /\ HashInv /\ [Next]_vars => HashInv'
<1>. SUFFICES ASSUME DiskFacts, HashInv, [Next]_vars PROVE HashInv'
  OBVIOUS
<1>1. ASSUME NEW r, NEW d
      PROVE  /\ Known(d, Len(raw.dates)) => Known(d, Len(raw.dates))'
             /\ Prepared(r, d)' = Prepared(r, d)
  <2>1. raw' = raw
    BY RawStays
  <2>. QED  BY <2>1 DEF Known, DateOf, Prepared
<1>2. CASE ReadManifest
  <2>1. hashes' = data["manifest.json"] /\ (data["manifest.json"] = NoFile \/ "manifest.json" \in whole)
    BY <1>2 DEF ReadManifest
  <2>2. CASE data["manifest.json"] = NoFile
    BY <2>1, <2>2 DEF HashInv
  <2>3. CASE "manifest.json" \in whole
    <3>1. PICK r, d : r \in Requests /\ Known(d, Len(raw.dates)) /\ data["manifest.json"] = Prepared(r, d)
      BY <2>3 DEF DiskFacts, ManifestInv
    <3>2. Known(d, Len(raw.dates))' /\ hashes' = Prepared(r, d)'
      BY <1>1, <2>1, <3>1
    <3>. QED  BY <3>1, <3>2 DEF HashInv, OfOnePreparation
  <2>. QED  BY <2>1, <2>2, <2>3
<1>3. CASE UNCHANGED <<hashes>> /\ (stage' \in {"measure", "published"} => stage \in {"measure", "published"})
  <2>. SUFFICES ASSUME stage \in {"measure", "published"}, hashes # NoFile
                PROVE  OfOnePreparation(hashes)'
    BY <1>3 DEF HashInv
  <2>1. PICK r, d : r \in Requests /\ Known(d, Len(raw.dates)) /\ hashes = Prepared(r, d)
    BY DEF HashInv, OfOnePreparation
  <2>2. Known(d, Len(raw.dates))' /\ hashes' = Prepared(r, d)'
    BY <1>1, <1>3, <2>1
  <2>. QED  BY <2>1, <2>2 DEF OfOnePreparation
<1>4. CASE Measure
  BY <1>3, <1>4 DEF Measure
<1>5. CASE BeginBenchmark \/ ReadExpected \/ ReadStartsAgain \/ Abort
  <2>1. stage' \notin {"measure", "published"}
    BY <1>5 DEF BeginBenchmark, ReadExpected, ReadStartsAgain, Abort
  <2>. QED  BY <2>1 DEF HashInv
<1>6. CASE PrepareStep \/ Load \/ UNCHANGED vars
  <2>1. stage' = stage /\ hashes' = hashes
    BY <1>6, PrepareLeavesBench DEF bench, vars
  <2>. QED  BY <1>3, <2>1
<1>. QED  BY <1>2, <1>4, <1>5, <1>6 DEF Next, BenchStep

BenchFacts == DiskFacts /\ BenchInv /\ VerdictInv /\ HashInv

LEMMA BenchHolds == Spec => []BenchFacts
<1>1. Init => BenchInv /\ VerdictInv /\ HashInv
  BY RunsAssumption DEF Init, BenchInv, VerdictInv, HashInv
<1>. QED  BY <1>1, DiskHolds, BenchStepInv, VerdictStep, HashStep, PTL DEF Spec, BenchFacts

\* An undisturbed measurement was checked against a dataset: the hashes it published are of
\* that dataset, and its ground truth is what the full database would answer.
LEMMA UndisturbedFacts ==
  ASSUME BenchFacts, Undisturbed
  PROVE  LET whatItIs == Database(hashes["nodes.csv"], hashes["edges.csv"]) IN
         /\ \A f \in Hashed : hashes[f] = data[f]
         /\ starts = DOMAIN data["start_nodes.json"] /\ expected = data["expected.json"]
         /\ pool = starts
         /\ \A w \in Workloads :
              /\ Answers(whatItIs, Arguments(starts, expected))[w] = Wanted(expected)[w]
              /\ DOMAIN answers[w] \subseteq DOMAIN Answers(measured, Arguments(starts, expected))[w]
              /\ \A a \in DOMAIN answers[w] :
                   answers[w][a] = Answers(measured, Arguments(starts, expected))[w][a]
              /\ verdicts[w] = IF Mismatched(answers, Wanted(expected), w) THEN "MISMATCH" ELSE "ok"
<1>1. /\ stage = "published" /\ Settled /\ preparations > 0
      /\ starts = DOMAIN data["start_nodes.json"] /\ expected = data["expected.json"]
      /\ hashes = data["manifest.json"] /\ pool = starts
  BY DEF Undisturbed, BenchFacts, BenchInv
<1>2. hashes = OnDisk /\ "manifest.json" \in whole /\ raw \in Raws
  BY <1>1 DEF BenchFacts, DiskFacts, DiskInv, FileNames, Files, TypeOK
<1>3. PICK r, d : r \in Requests /\ Known(d, Len(raw.dates)) /\ data["manifest.json"] = Prepared(r, d)
  BY <1>2 DEF BenchFacts, DiskFacts, ManifestInv
<1>4. \A f \in Hashed : hashes[f] = data[f] /\ hashes[f] = Prepared(r, d)[f]
  BY <1>1, <1>2, <1>3 DEF OnDisk
<1>5. {"nodes.csv", "edges.csv", "start_nodes.json", "expected.json"} \subseteq Hashed
  BY FilesFacts DEF Files, Hashed, FileNames
<1>. DEFINE years == hashes["nodes.csv"]
            edges == hashes["edges.csv"]
<1>6. /\ DOMAIN years = Papers(edges) /\ starts \subseteq Papers(edges)
      /\ expected = Expected(Cites(edges), starts, years)
      /\ \A n \in DOMAIN years : years[n] # Null
  BY <1>1, <1>2, <1>3, <1>4, <1>5, PreparedIsDataset
<1>. HIDE DEF years, edges
<1>7. ASSUME NEW w \in Workloads
      PROVE  Answers(Database(years, edges), Arguments(starts, expected))[w] = Wanted(expected)[w]
  BY <1>6, TruthIsAnswers
<1>8. ASSUME NEW w \in Workloads
      PROVE  /\ DOMAIN answers[w] \subseteq DOMAIN Answers(measured, Arguments(starts, expected))[w]
             /\ \A a \in DOMAIN answers[w] :
                  answers[w][a] = Answers(measured, Arguments(starts, expected))[w][a]
             /\ verdicts[w] = IF Mismatched(answers, Wanted(expected), w) THEN "MISMATCH" ELSE "ok"
  BY <1>1 DEF BenchFacts, VerdictInv
<1>. QED  BY <1>1, <1>4, <1>7, <1>8 DEF years, edges

\* The hashes published are always of one dataset with its own ground truth, and of the files
\* the benchmark read if no preparation ran meanwhile.
THEOREM HashesTrue == Spec => []HashesOfGroundTruth
<1>1. BenchFacts => HashesOfGroundTruth
  <2>0. {"nodes.csv", "edges.csv", "start_nodes.json", "expected.json"} \subseteq Hashed
    BY FilesFacts DEF Files, Hashed, FileNames
  <2>1. ASSUME BenchFacts, stage = "published", hashes # NoFile
        PROVE  GroundTruth(hashes["expected.json"], hashes["start_nodes.json"],
                           hashes["nodes.csv"], hashes["edges.csv"])
    <3>1. PICK r, d : r \in Requests /\ Known(d, Len(raw.dates)) /\ hashes = Prepared(r, d)
      BY <2>1 DEF BenchFacts, HashInv, OfOnePreparation
    <3>2. hashes["expected.json"]
            = Expected(Cites(hashes["edges.csv"]), DOMAIN hashes["start_nodes.json"], hashes["nodes.csv"])
      <4>1. raw \in Raws
        BY <2>1 DEF BenchFacts, DiskFacts, TypeOK
      <4>. QED  BY <3>1, <4>1, PreparedIsDataset
    <3>. QED  BY <3>2, ExpectedIsTruth
  <2>2. ASSUME BenchFacts, Undisturbed
        PROVE  /\ DOMAIN hashes["start_nodes.json"] = starts /\ hashes["expected.json"] = expected
               /\ pool = starts
    BY <2>0, <2>2, UndisturbedFacts
  <2>. QED  BY <2>1, <2>2 DEF HashesOfGroundTruth
<1>. QED  BY <1>1, BenchHolds, PTL

\* A database that has all of the dataset, and nothing else, is never found wrong.
THEOREM NeverFalse == Spec => []NoFalseMismatch
<1>1. BenchFacts => NoFalseMismatch
  <2>. SUFFICES ASSUME BenchFacts, Undisturbed,
                       measured = Database(data["nodes.csv"], data["edges.csv"]),
                       NEW w \in Workloads
                PROVE  verdicts[w] = "ok"
    BY DEF NoFalseMismatch
  <2>1. {"nodes.csv", "edges.csv"} \subseteq Hashed
    BY FilesFacts DEF Files, Hashed, FileNames
  <2>2. measured = Database(hashes["nodes.csv"], hashes["edges.csv"])
    BY <2>1, UndisturbedFacts
  <2>3. \A a \in DOMAIN answers[w] : answers[w][a] = Wanted(expected)[w][a]
    BY <2>2, UndisturbedFacts
  <2>4. ~Mismatched(answers, Wanted(expected), w)
    BY <2>3 DEF Mismatched
  <2>. QED  BY <2>4, UndisturbedFacts
<1>. QED  BY <1>1, BenchHolds, PTL

\* Whatever the database was loaded with, an ok verdict says that every answer it gave is
\* that of the dataset of the published hashes; of calls without an answer it says nothing.
THEOREM OkTrue == Spec => []OkIsTrueOfDataset
<1>1. BenchFacts => OkIsTrueOfDataset
  <2>. DEFINE whatItIs == Database(hashes["nodes.csv"], hashes["edges.csv"])
              args == Arguments(starts, expected)
  <2>. SUFFICES ASSUME BenchFacts, Undisturbed, NEW w \in Workloads, verdicts[w] = "ok",
                       NEW a \in DOMAIN answers[w]
                PROVE  answers[w][a] = Answers(whatItIs, args)[w][a]
    BY DEF OkIsTrueOfDataset
  <2>1. /\ Answers(whatItIs, args)[w] = Wanted(expected)[w]
        /\ DOMAIN answers[w] \subseteq DOMAIN Answers(measured, args)[w]
        /\ ~Mismatched(answers, Wanted(expected), w)
    BY UndisturbedFacts
  <2>. HIDE DEF whatItIs, args
  <2>2. a \in DOMAIN Wanted(expected)[w]
    BY <2>1, AnswersDomain
  <2>. QED  BY <2>1, <2>2 DEF Mismatched
<1>. QED  BY <1>1, BenchHolds, PTL
=============================================================================
