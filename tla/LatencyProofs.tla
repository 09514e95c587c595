---------------------------- MODULE LatencyProofs ----------------------------
(***************************************************************************)
(* The percentiles are nearest-rank for any number of samples and any      *)
(* latencies, and nothing that was called is missing from what is          *)
(* published.                                                              *)
(***************************************************************************)
EXTENDS Latency, FiniteSetTheorems, TLAPS

Ordered(s) == \A i, j \in DOMAIN s : i <= j => s[i] <= s[j]

\* A set of positions has at least n members if it has the first n, and at most n if it
\* has no others.
LEMMA Positions ==
  ASSUME NEW m \in Nat, NEW P \in SUBSET (1 .. m), NEW n \in 0 .. m
  PROVE  /\ Cardinality(P) \in 0 .. m
         /\ 1 .. n \subseteq P => Cardinality(P) >= n
         /\ P \subseteq 1 .. n => Cardinality(P) <= n
<1>1. IsFiniteSet(1 .. m) /\ Cardinality(1 .. m) = m
  BY FS_Interval
<1>2. IsFiniteSet(1 .. n) /\ Cardinality(1 .. n) = n
  BY FS_Interval
<1>3. IsFiniteSet(P) /\ Cardinality(P) <= m
  BY <1>1, FS_Subset
<1>4. Cardinality(P) \in Nat
  BY <1>3, FS_CardinalityType
<1>5. ASSUME 1 .. n \subseteq P PROVE Cardinality(P) >= n
  <2>1. Cardinality(1 .. n) <= Cardinality(P)
    BY <1>3, <1>5, FS_Subset
  <2>. QED  BY <1>2, <1>4, <2>1
<1>6. ASSUME P \subseteq 1 .. n PROVE Cardinality(P) <= n
  <2>1. Cardinality(P) <= Cardinality(1 .. n)
    BY <1>2, <1>6, FS_Subset
  <2>. QED  BY <1>2, <1>4, <2>1
<1>. QED  BY <1>3, <1>4, <1>5, <1>6

\* A published percentile is the member at the smallest rank that covers p percent of the
\* samples.
LEMMA PercentileRank ==
  ASSUME NEW s \in Seq(Nat), s # <<>>, NEW p \in Percents
  PROVE  \E r \in 1 .. Len(s) :
           100 * r >= p * Len(s) /\ 100 * (r - 1) < p * Len(s) /\ Percentile(s, p) = s[r]
<1>. DEFINE n == Len(s)
            r == IF p = 100 THEN n ELSE Rank(p, n)
<1>0. p \in 1 .. 100
  BY DEF Percents
<1>1. n \in Nat \ {0}
  OBVIOUS
<1>2. 100 * r >= p * n /\ 100 * (r - 1) < p * n /\ r \in 1 .. n
  <2>. HIDE DEF n
  <2>. DEFINE q == p * n
  <2>1. q \in Nat /\ q >= 1
    BY <1>0, <1>1
  <2>2. CASE p = 100
    BY <1>1, <2>2
  <2>3. CASE p < 100
    <3>1. q <= 100 * n
      BY <1>0, <1>1, <2>3
    <3>2. r = (q + 99) \div 100
      BY <2>3 DEF Rank
    <3>. HIDE DEF q, r
    <3>3. r \in Int /\ 100 * r <= q + 99 /\ q + 99 < 100 * r + 100
      BY <2>1, <3>2
    <3>. QED  BY <1>1, <2>1, <3>1, <3>3 DEF q
  <2>. QED  BY <1>0, <2>2, <2>3
<1>. HIDE DEF n, r
<1>3. Percentile(s, p) = s[r]
  <2>1. CASE p = 100
    BY <2>1 DEF Percentile, r, n
  <2>2. CASE p < 100
    <3>1. r = Rank(p, n)
      BY <2>2 DEF r
    <3>2. Clipped(r, n) = r
      BY <1>1, <1>2 DEF Clipped
    <3>. QED  BY <1>0, <2>2, <3>1, <3>2 DEF Percentile, n
  <2>. QED  BY <1>0, <2>1, <2>2
<1>. QED  BY <1>2, <1>3 DEF n

\* Of an ordered sequence of any length, each percentile that is published is the
\* nearest-rank one.
THEOREM PercentileIsNearestRank ==
  ASSUME NEW s \in Seq(Nat), s # <<>>, Ordered(s), NEW p \in Percents
  PROVE  IsNearestRank(s, p, Percentile(s, p))
<1>. DEFINE n == Len(s)
<1>1. n \in Nat \ {0} /\ DOMAIN s = 1 .. n /\ p \in Nat /\ \A i \in 1 .. n : s[i] \in Nat
  BY DEF Percents
<1>2. PICK r \in 1 .. n : 100 * r >= p * n /\ 100 * (r - 1) < p * n /\ Percentile(s, p) = s[r]
  BY PercentileRank
<1>. HIDE DEF n
<1>3. Percentile(s, p) = s[r]
  BY <1>2
<1>. DEFINE low == {i \in DOMAIN s : s[i] < s[r]}
            upTo == {i \in DOMAIN s : s[i] <= s[r]}
<1>4. Cardinality(upTo) \in Nat /\ Cardinality(upTo) >= r
  <2>1. upTo \in SUBSET (1 .. n) /\ 1 .. r \subseteq upTo
    <3>1. ASSUME NEW i \in 1 .. r PROVE i \in DOMAIN s /\ s[i] <= s[r]
      BY <1>1, <1>2 DEF Ordered
    <3>. QED  BY <1>1, <3>1
  <2>2. r \in 0 .. n /\ r \in Nat
    BY <1>1
  <2>. HIDE DEF upTo
  <2>. QED  BY <1>1, <2>1, <2>2, Positions
<1>5. Cardinality(low) \in Nat /\ Cardinality(low) <= r - 1
  <2>1. low \in SUBSET (1 .. n)
    BY <1>1
  <2>2. low \subseteq 1 .. (r - 1)
    <3>1. ASSUME NEW i \in 1 .. n, s[i] < s[r] PROVE i \in 1 .. (r - 1)
      <4>1. s[i] \in Nat /\ s[r] \in Nat /\ i \in Nat /\ r \in Nat
        BY <1>1, <1>2
      <4>2. r <= i => s[r] <= s[i]
        BY <1>1, <1>2 DEF Ordered
      <4>3. ~(r <= i)
        BY <3>1, <4>1, <4>2
      <4>. QED  BY <4>1, <4>3
    <3>. QED  BY <1>1, <3>1
  <2>3. r - 1 \in 0 .. n
    BY <1>1, <1>2
  <2>. HIDE DEF low
  <2>. QED  BY <1>1, <2>1, <2>2, <2>3, Positions
<1>6. 100 * Cardinality(upTo) >= p * n
  <2>. DEFINE c == Cardinality(upTo)
              q == p * n
  <2>1. c \in Nat /\ q \in Nat /\ c >= r /\ 100 * r >= q /\ r \in Nat
    BY <1>1, <1>2, <1>4
  <2>. HIDE DEF c, q
  <2>2. 100 * c >= q
    BY <2>1
  <2>. QED  BY <2>2 DEF c, q
<1>7. 100 * Cardinality(low) < p * n
  <2>. DEFINE c == Cardinality(low)
              q == p * n
  <2>1. c \in Nat /\ q \in Nat /\ c <= r - 1 /\ 100 * (r - 1) < q /\ r \in Nat
    BY <1>1, <1>2, <1>5
  <2>. HIDE DEF c, q
  <2>2. 100 * c < q
    BY <2>1
  <2>. QED  BY <2>2 DEF c, q
<1>. QED  BY <1>1, <1>2, <1>3, <1>6, <1>7 DEF IsNearestRank, n

\* A higher published percentile is never a smaller value, and all lie between the first and
\* the last sample.
THEOREM PercentileMonotone ==
  ASSUME NEW s \in Seq(Nat), s # <<>>, Ordered(s), NEW p \in Percents, NEW q \in Percents, p <= q
  PROVE  s[1] <= Percentile(s, p) /\ Percentile(s, p) <= Percentile(s, q) /\ Percentile(s, q) <= s[Len(s)]
<1>. DEFINE n == Len(s)
<1>1. n \in Nat \ {0} /\ DOMAIN s = 1 .. n /\ p \in Nat /\ q \in Nat
  BY DEF Percents
<1>2. PICK r \in 1 .. n : 100 * r >= p * n /\ 100 * (r - 1) < p * n /\ Percentile(s, p) = s[r]
  BY PercentileRank
<1>3. PICK u \in 1 .. n : 100 * u >= q * n /\ 100 * (u - 1) < q * n /\ Percentile(s, q) = s[u]
  BY PercentileRank
<1>. HIDE DEF n
<1>4. r <= u
  <2>. DEFINE a == p * n
              b == q * n
  <2>1. a \in Nat /\ b \in Nat /\ a <= b
    BY <1>1
  <2>2. 100 * (r - 1) < a /\ 100 * u >= b
    BY <1>2, <1>3
  <2>. HIDE DEF a, b
  <2>. QED  BY <2>1, <2>2
<1>5. 1 \in 1 .. n /\ n \in 1 .. n /\ 1 <= r /\ u <= n
  BY <1>1
<1>6. s[1] <= s[r] /\ s[r] <= s[u] /\ s[u] <= s[n]
  BY <1>1, <1>4, <1>5 DEF Ordered
<1>. QED  BY <1>2, <1>3, <1>6 DEF n

\* Inserting a sample loses none and adds just the one: each value is there as often as
\* before, and the new one once more.
THEOREM InsertKeeps ==
  ASSUME NEW s \in Seq(Nat), NEW x \in Nat, NEW v \in Nat
  PROVE  Cardinality({i \in DOMAIN Insert(s, x) : Insert(s, x)[i] = v})
           = Cardinality({i \in DOMAIN s : s[i] = v}) + (IF v = x THEN 1 ELSE 0)
<1>. DEFINE n == Len(s)
            below == {i \in DOMAIN s : s[i] <= x}
            k == Cardinality(below)
            t == Insert(s, x)
            Old == {i \in DOMAIN s : s[i] = v}
            New == {i \in DOMAIN t : t[i] = v}
            moved == [i \in Old |-> IF i <= k THEN i ELSE i + 1]
<1>1. n \in Nat /\ DOMAIN s = 1 .. n
  OBVIOUS
<1>2. t = [i \in 1 .. n + 1 |-> IF i <= k THEN s[i] ELSE IF i = k + 1 THEN x ELSE s[i - 1]]
  BY DEF Insert
<1>3. k \in 0 .. n
  <2>1. below \in SUBSET (1 .. n) /\ n \in 0 .. n
    BY <1>1
  <2>. HIDE DEF below
  <2>. QED  BY <1>1, <2>1, Positions
<1>. HIDE DEF n, k, t
<1>4. moved \in Bijection(Old, New \ {k + 1})
  <2>1. ASSUME NEW i \in Old PROVE moved[i] \in New \ {k + 1}
    <3>1. i \in 1 .. n /\ s[i] = v
      BY <1>1
    <3>2. CASE i <= k
      <4>1. moved[i] = i /\ i \in 1 .. n + 1 /\ i # k + 1
        BY <1>1, <1>3, <3>1, <3>2
      <4>2. t[i] = v /\ DOMAIN t = 1 .. n + 1
        BY <1>2, <3>1, <3>2, <4>1
      <4>. QED  BY <4>1, <4>2
    <3>3. CASE ~(i <= k)
      <4>1. moved[i] = i + 1 /\ i + 1 \in 1 .. n + 1 /\ i + 1 # k + 1 /\ ~(i + 1 <= k) /\ (i + 1) - 1 = i
        BY <1>1, <1>3, <3>1, <3>3
      <4>2. t[i + 1] = v /\ DOMAIN t = 1 .. n + 1
        BY <1>2, <3>1, <4>1
      <4>. QED  BY <4>1, <4>2
    <3>. QED  BY <3>2, <3>3
  <2>2. ASSUME NEW i \in Old, NEW j \in Old, moved[i] = moved[j] PROVE i = j
    BY <1>1, <1>3, <2>2
  <2>3. ASSUME NEW j \in New \ {k + 1} PROVE \E i \in Old : moved[i] = j
    <3>1. j \in 1 .. n + 1 /\ t[j] = v /\ j # k + 1
      BY <1>2
    <3>2. CASE j <= k
      <4>1. j \in 1 .. n /\ s[j] = v
        BY <1>1, <1>2, <1>3, <3>1, <3>2
      <4>. QED  BY <1>1, <3>2, <4>1
    <3>3. CASE ~(j <= k)
      <4>1. j - 1 \in 1 .. n /\ ~(j - 1 <= k) /\ (j - 1) + 1 = j
        BY <1>1, <1>3, <3>1, <3>3
      <4>2. s[j - 1] = v
        BY <1>2, <3>1, <3>3
      <4>. QED  BY <1>1, <4>1, <4>2
    <3>. QED  BY <3>2, <3>3
  <2>4. moved \in [Old -> New \ {k + 1}]
    BY <2>1
  <2>. HIDE DEF moved, Old, New
  <2>. QED  BY <2>2, <2>3, <2>4 DEF Bijection, Injection, Surjection, IsInjective
<1>5. IsFiniteSet(Old)
  <2>1. IsFiniteSet(1 .. n)
    BY <1>1, FS_Interval
  <2>. QED  BY <1>1, <2>1, FS_Subset
<1>6. k + 1 \in New <=> v = x
  <2>1. k + 1 \in 1 .. n + 1 /\ ~(k + 1 <= k)
    BY <1>1, <1>3
  <2>. QED  BY <1>2, <2>1
<1>. HIDE DEF Old, New, moved
<1>7. IsFiniteSet(New \ {k + 1}) /\ Cardinality(New \ {k + 1}) = Cardinality(Old)
  BY <1>4, <1>5, FS_Bijection DEF ExistsBijection
<1>8. Cardinality(New) = Cardinality(Old) + (IF v = x THEN 1 ELSE 0)
  <2>1. Cardinality(Old) \in Nat
    BY <1>5, FS_CardinalityType
  <2>2. CASE v = x
    <3>1. (New \ {k + 1}) \cup {k + 1} = New
      BY <1>6, <2>2
    <3>2. Cardinality((New \ {k + 1}) \cup {k + 1}) = Cardinality(New \ {k + 1}) + 1
      BY <1>7, FS_AddElement
    <3>. QED  BY <1>7, <2>2, <3>1, <3>2
  <2>3. CASE v # x
    <3>1. New \ {k + 1} = New
      BY <1>6, <2>3
    <3>2. Cardinality(New) = Cardinality(Old)
      BY <1>7, <3>1
    <3>. QED  BY <2>1, <2>3, <3>2
  <2>. QED  BY <2>2, <2>3
<1>. QED  BY <1>8 DEF New, Old, t

\* A new sample keeps the others in order.
LEMMA InsertOrdered ==
  ASSUME NEW S \in SUBSET Nat, NEW s \in Seq(S), Ordered(s), NEW x \in S
  PROVE  /\ Insert(s, x) \in Seq(S) /\ Len(Insert(s, x)) = Len(s) + 1
         /\ Ordered(Insert(s, x))
<1>. DEFINE n == Len(s)
            below == {i \in DOMAIN s : s[i] <= x}
            k == Cardinality(below)
            t == Insert(s, x)
<1>1. n \in Nat /\ DOMAIN s = 1 .. n /\ \A i \in 1 .. n : s[i] \in S /\ s[i] \in Nat
  <2>1. \A i \in 1 .. Len(s) : s[i] \in S
    OBVIOUS
  <2>2. \A y \in S : y \in Nat
    OBVIOUS
  <2>3. n \in Nat /\ DOMAIN s = 1 .. n
    OBVIOUS
  <2>4. ASSUME NEW i \in 1 .. n PROVE s[i] \in S /\ s[i] \in Nat
    <3>1. s[i] \in S
      BY <2>1
    <3>. QED  BY <2>2, <3>1
  <2>. QED  BY <2>3, <2>4
<1>2. below \in SUBSET (1 .. n)
  BY <1>1
<1>3. t = [i \in 1 .. n + 1 |-> IF i <= k THEN s[i] ELSE IF i = k + 1 THEN x ELSE s[i - 1]]
  BY DEF Insert
<1>4. k \in 0 .. n
  <2>1. n \in 0 .. n
    BY <1>1
  <2>. HIDE DEF below
  <2>. QED  BY <1>1, <1>2, <2>1, Positions
<1>5. ASSUME NEW i \in 1 .. n, i <= k PROVE s[i] <= x
  <2>1. SUFFICES ASSUME s[i] > x PROVE FALSE
    BY <1>1
  <2>2. below \subseteq 1 .. (i - 1)
    <3>1. ASSUME NEW j \in 1 .. n, s[j] <= x PROVE j \in 1 .. (i - 1)
      BY <1>1, <2>1, <3>1 DEF Ordered
    <3>. QED  BY <1>1, <3>1
  <2>3. k <= i - 1
    <3>. HIDE DEF below
    <3>1. i - 1 \in 0 .. n
      BY <1>1
    <3>. QED  BY <1>1, <1>2, <2>2, <3>1, Positions
  <2>. QED  BY <1>4, <1>5, <2>3
<1>6. ASSUME NEW i \in 1 .. n, i > k PROVE x <= s[i]
  <2>1. SUFFICES ASSUME s[i] <= x PROVE FALSE
    BY <1>1
  <2>2. 1 .. i \subseteq below
    BY <1>1, <2>1 DEF Ordered
  <2>3. k >= i
    <3>. HIDE DEF below
    <3>. QED  BY <1>1, <1>2, <2>2, Positions
  <2>. QED  BY <1>4, <1>6, <2>3
<1>. HIDE DEF k, n, t
<1>7. DOMAIN t = 1 .. n + 1 /\ \A i \in 1 .. n + 1 : t[i] \in S
  BY <1>1, <1>3, <1>4
<1>8. t \in Seq(S) /\ Len(t) = n + 1
  BY <1>1, <1>3, <1>7
<1>9. ASSUME NEW i \in 1 .. n + 1, NEW j \in 1 .. n + 1, i <= j PROVE t[i] <= t[j]
  <2>1. CASE j <= k
    BY <1>1, <1>3, <1>4, <1>9, <2>1 DEF Ordered
  <2>2. CASE j = k + 1
    BY <1>1, <1>3, <1>4, <1>5, <1>9, <2>2
  <2>3. CASE j > k + 1 /\ i <= k
    <3>1. t[i] = s[i] /\ t[j] = s[j - 1] /\ i \in DOMAIN s /\ j - 1 \in DOMAIN s /\ i <= j - 1
      BY <1>1, <1>3, <1>4, <2>3
    <3>. QED  BY <3>1 DEF Ordered
  <2>4. CASE j > k + 1 /\ i = k + 1
    BY <1>1, <1>3, <1>4, <1>6, <1>9, <2>4
  <2>5. CASE j > k + 1 /\ i > k + 1
    <3>1. t[i] = s[i - 1] /\ t[j] = s[j - 1] /\ i - 1 \in DOMAIN s /\ j - 1 \in DOMAIN s
      BY <1>1, <1>3, <1>4, <2>5
    <3>2. i - 1 <= j - 1
      BY <1>1, <1>9
    <3>. QED  BY <3>1, <3>2 DEF Ordered
  <2>. QED  BY <1>1, <1>4, <2>1, <2>2, <2>3, <2>4, <2>5
<1>. QED  BY <1>7, <1>8, <1>9 DEF Ordered, t, n

-----------------------------------------------------------------------------

\* What was published once the calls are made.
Outcome ==
  \/ published = [Unpublished EXCEPT !.status = "not_observable"]
  \/ /\ calls = Samples
     /\ published = IF kind = "baseline" /\ latencies = <<>>
                    THEN [Unpublished EXCEPT !.status = "unreachable", !.failures = failures]
                    ELSE Summary(latencies, failures)

\* The invariant: samples in order, every call among them or among the failures, and
\* nothing published before the end.
IInv ==
  /\ TypeOK /\ Ordered(latencies)
  /\ calls = Len(latencies) + failures
  /\ pc # "done" => published = Unpublished
  /\ pc = "done" => Outcome

\* What the invariant says of the two counters.
LEMMA Counters ==
  IInv => /\ calls \in Nat /\ failures \in Nat /\ Len(latencies) \in Nat
          /\ calls = Len(latencies) + failures /\ calls <= Samples
<1>. SUFFICES ASSUME IInv
              PROVE  /\ calls \in Nat /\ failures \in Nat /\ Len(latencies) \in Nat
                     /\ calls = Len(latencies) + failures /\ calls <= Samples
  OBVIOUS
<1>1. calls \in 0 .. Samples /\ failures \in 0 .. Samples /\ latencies \in Seq(Times)
  BY DEF IInv, TypeOK
<1>2. calls = Len(latencies) + failures
  BY DEF IInv
<1>3. Len(latencies) \in Nat
  BY <1>1
<1>. HIDE DEF IInv
<1>. QED  BY SamplesAssumption, <1>1, <1>2, <1>3

LEMMA InitInv == Init => IInv
BY SamplesAssumption DEF Init, IInv, TypeOK, Ordered, Unpublished

LEMMA StepInv == IInv /\ [Next]_vars => IInv'
<1>. SUFFICES ASSUME IInv, [Next]_vars PROVE IInv'
  OBVIOUS
<1>. USE SamplesAssumption, TimesAssumption
<1>0. latencies \in Seq(Times) /\ Len(latencies) \in Nat
  <2>1. latencies \in Seq(Times)
    BY DEF IInv, TypeOK
  <2>. QED  BY <2>1
<1>1. CASE Begin
  BY <1>1 DEF Begin, IInv, TypeOK, Ordered
<1>2. CASE NotResolved
  BY <1>2 DEF NotResolved, IInv, TypeOK, Ordered, Outcome, Unpublished
<1>3. CASE Succeed
  <2>1. PICK t \in Times : latencies' = Insert(latencies, t)
    BY <1>3 DEF Succeed
  <2>2. Insert(latencies, t) \in Seq(Times) /\ Len(Insert(latencies, t)) = Len(latencies) + 1
        /\ Ordered(Insert(latencies, t))
    BY <1>0, InsertOrdered DEF IInv
  <2>3. calls' \in 0 .. Samples /\ calls' = Len(latencies') + failures'
    BY <1>3, <2>1, <2>2, Counters DEF Succeed
  <2>4. TypeOK'
    BY <1>3, <2>1, <2>2, <2>3 DEF Succeed, IInv, TypeOK
  <2>. QED  BY <1>3, <2>1, <2>2, <2>3, <2>4 DEF Succeed, IInv
<1>4. CASE Fail
  <2>1. calls' \in 0 .. Samples /\ failures' \in 0 .. Samples
    BY <1>4, Counters DEF Fail
  <2>2. calls' = Len(latencies') + failures'
    BY <1>4, Counters DEF Fail
  <2>. QED  BY <1>4, <2>1, <2>2 DEF Fail, IInv, TypeOK, Ordered
<1>5. CASE Publish
  <2>1. published'.status \in {"none", "summary", "not_observable", "unreachable"}
    BY <1>5 DEF Publish, Summary, Unpublished
  <2>2. Outcome'
    BY <1>5 DEF Publish, Outcome, IInv
  <2>. QED  BY <1>5, <2>1, <2>2 DEF Publish, IInv, TypeOK, Ordered
<1>6. CASE Done \/ UNCHANGED vars
  BY <1>6 DEF Done, vars, IInv, TypeOK, Ordered, Outcome, Summary, Percentile, Clipped
<1>. QED  BY <1>1, <1>2, <1>3, <1>4, <1>5, <1>6 DEF Next

\* The invariant holds in every reachable state.
THEOREM Inductive == Spec => []IInv
BY InitInv, StepInv, PTL DEF Spec

\* The variables of a measurement keep their types.
THEOREM TypeCorrect == Spec => []TypeOK
<1>1. IInv => TypeOK
  BY DEF IInv
<1>. QED  BY <1>1, Inductive, PTL

\* A summary with samples is the one of the samples there are.
LEMMA PublishedSummary ==
  ASSUME IInv, published.status = "summary"
  PROVE  published = Summary(latencies, failures)
<1>1. pc = "done" /\ Outcome
  BY DEF IInv, TypeOK, Unpublished
<1>2. published.status \notin {"not_observable", "unreachable"}
  OBVIOUS
<1>. QED  BY <1>1, <1>2 DEF Outcome, Unpublished

LEMMA OrderedNumbers == IInv => latencies \in Seq(Nat) /\ Ordered(latencies)
<1>. SUFFICES ASSUME IInv PROVE latencies \in Seq(Nat) /\ Ordered(latencies)
  OBVIOUS
<1>1. latencies \in Seq(Times) /\ Ordered(latencies)
  BY DEF IInv, TypeOK
<1>2. \A t \in Times : t \in Nat
  BY TimesAssumption
<1>. QED  BY <1>1, <1>2

\* Every published percentile of every measurement, of any length, is the nearest-rank
\* one: an observed value, never below p percent of the samples and never above more.
THEOREM PercentilesHold == Spec => []NearestRank
<1>1. IInv => NearestRank
  <2>. SUFFICES ASSUME IInv, published.status = "summary", latencies # <<>>, NEW p \in Percents
                PROVE  IsNearestRank(latencies, p, published.at[p])
    BY DEF NearestRank
  <2>1. published = Summary(latencies, failures)
    BY PublishedSummary
  <2>2. published.at[p] = Percentile(latencies, p)
    BY <2>1 DEF Summary
  <2>3. latencies \in Seq(Nat) /\ Ordered(latencies)
    BY OrderedNumbers
  <2>. QED  BY <2>2, <2>3, PercentileIsNearestRank
<1>. QED  BY <1>1, Inductive, PTL

\* The published distribution is in order: no sample lies outside its least and greatest
\* value, neither does a percentile, and no percentile is below a lower one.
PublishedInOrder ==
  published.status = "summary" /\ latencies # <<>> =>
    /\ \A i \in DOMAIN latencies : published.min <= latencies[i] /\ latencies[i] <= published.max
    /\ \A p \in Percents : published.min <= published.at[p] /\ published.at[p] <= published.max
    /\ \A p, q \in Percents : p <= q => published.at[p] <= published.at[q]

\* So it is for every measurement, of any length.
THEOREM DistributionInOrder == Spec => []PublishedInOrder
<1>1. IInv => PublishedInOrder
  <2>. SUFFICES ASSUME IInv, published.status = "summary", latencies # <<>>
                PROVE  PublishedInOrder
    BY DEF PublishedInOrder
  <2>1. published = Summary(latencies, failures)
    BY PublishedSummary
  <2>2. /\ published.min = latencies[1] /\ published.max = latencies[Len(latencies)]
        /\ \A p \in Percents : published.at[p] = Percentile(latencies, p)
    BY <2>1 DEF Summary
  <2>3. latencies \in Seq(Nat) /\ Ordered(latencies)
    BY OrderedNumbers
  <2>4. ASSUME NEW i \in DOMAIN latencies
        PROVE  published.min <= latencies[i] /\ latencies[i] <= published.max
    <3>1. /\ 1 \in DOMAIN latencies /\ Len(latencies) \in DOMAIN latencies
          /\ 1 <= i /\ i <= Len(latencies)
      BY <2>3
    <3>. QED  BY <2>2, <2>3, <3>1 DEF Ordered
  <2>5. ASSUME NEW p \in Percents, NEW q \in Percents, p <= q
        PROVE  /\ published.min <= published.at[p] /\ published.at[p] <= published.at[q]
               /\ published.at[q] <= published.max
    <3>1. /\ latencies[1] <= Percentile(latencies, p)
          /\ Percentile(latencies, p) <= Percentile(latencies, q)
          /\ Percentile(latencies, q) <= latencies[Len(latencies)]
      BY <2>3, <2>5, PercentileMonotone
    <3>. QED  BY <2>2, <3>1
  <2>6. \A p \in Percents : p <= p
    BY DEF Percents
  <2>. QED  BY <2>4, <2>5, <2>6 DEF PublishedInOrder
<1>. QED  BY <1>1, Inductive, PTL

\* Nothing that was called is missing from what is published.
THEOREM CallsCounted == Spec => []CallsAccountedFor
<1>1. IInv => CallsAccountedFor
  <2>. SUFFICES ASSUME IInv PROVE CallsAccountedFor
    OBVIOUS
  <2>0. latencies \in Seq(Times) /\ failures \in Nat /\ calls = Len(latencies) + failures
    BY Counters DEF IInv, TypeOK
  <2>1. CASE published = Unpublished
    BY <2>1 DEF CallsAccountedFor, Unpublished
  <2>2. CASE published = [Unpublished EXCEPT !.status = "not_observable"]
    BY <2>2 DEF CallsAccountedFor, Unpublished
  <2>3. CASE calls = Samples /\ latencies = <<>>
             /\ published = [Unpublished EXCEPT !.status = "unreachable", !.failures = failures]
    BY <2>0, <2>3 DEF CallsAccountedFor, Unpublished
  <2>4. CASE calls = Samples /\ published = Summary(latencies, failures)
    BY <2>0, <2>4 DEF CallsAccountedFor, Summary, Unpublished
  <2>. QED  BY <2>1, <2>2, <2>3, <2>4 DEF IInv, TypeOK, Outcome
<1>. QED  BY <1>1, Inductive, PTL
=============================================================================
