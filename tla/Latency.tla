------------------------------- MODULE Latency -------------------------------
(***************************************************************************)
(* Measurements and what is published of them: tcp_baseline of             *)
(* scripts/run_benchmark.py and the measured loop of run_workload, both    *)
(* over summarize and percentile of benchmarks/metrics.py.                 *)
(*                                                                         *)
(* Abstracted: a latency is an integer; sorted(samples) is kept sorted as  *)
(* samples come; mean, deviation and rounding are left out.                *)
(***************************************************************************)
EXTENDS Integers, Sequences, FiniteSets

CONSTANTS
  Samples,  \* calls of a measurement (20 probes, --iterations)
  Times,    \* the latencies a call may take
  None      \* no value

ASSUME SamplesAssumption == Samples \in Nat \ {0}
ASSUME TimesAssumption == Times \subseteq Nat

VARIABLES
  pc,        \* "start", "calls" or "done"
  kind,      \* what is measured: the "baseline" of a target or a "workload"
  calls,     \* calls made
  latencies, \* the latencies of those that succeeded, sorted
  failures,  \* how many did not
  published  \* the dictionary that goes into results.json

vars == <<pc, kind, calls, latencies, failures, published>>

Percents == {50, 90, 95, 99}

Unpublished == [status |-> "none", n |-> 0, failures |-> 0,
                min |-> None, max |-> None, at |-> [p \in Percents |-> None]]

-----------------------------------------------------------------------------
(* metrics.py *)

\* sorted(samples), one more sample at a time.
Insert(s, x) ==
  LET k == Cardinality({i \in DOMAIN s : s[i] <= x})
  IN  [i \in 1 .. Len(s) + 1 |-> IF i <= k THEN s[i] ELSE IF i = k + 1 THEN x ELSE s[i - 1]]

\* Mutant: the rank is truncated.
RankDown(p, n) == (p * n) \div 100

\* ceil(p / 100.0 * n) for the percentages above.  The code computes it in floating point; of
\* 0.9, 0.95 and 0.99 the error is too small to move a product that is a whole number, and 0.5
\* has none.  Other percentages differ: 55 percent of 100 samples has rank 56 there.
Rank(p, n) == (p * n + 99) \div 100

Clipped(r, n) == IF r < 1 THEN 1 ELSE IF r > n THEN n ELSE r

\* percentile at one of Percents.
Percentile(s, p) ==
  IF p <= 0 THEN s[1]
  ELSE IF p >= 100 THEN s[Len(s)]
  ELSE s[Clipped(Rank(p, Len(s)), Len(s))]

Summary(s, failed) ==
  IF s = <<>> THEN [Unpublished EXCEPT !.status = "summary", !.failures = failed]
  ELSE [status |-> "summary", n |-> Len(s), failures |-> failed,
        min |-> s[1], max |-> s[Len(s)], at |-> [p \in Percents |-> Percentile(s, p)]]

-----------------------------------------------------------------------------

Init ==
  /\ pc = "start" /\ kind \in {"baseline", "workload"}
  /\ calls = 0 /\ latencies = <<>> /\ failures = 0 /\ published = Unpublished

\* The name of the target's host is resolved once, before the probes.
Begin ==
  /\ pc = "start" /\ pc' = "calls"
  /\ UNCHANGED <<kind, calls, latencies, failures, published>>

NotResolved ==
  /\ pc = "start" /\ kind = "baseline" /\ pc' = "done"
  /\ published' = [Unpublished EXCEPT !.status = "not_observable"]
  /\ UNCHANGED <<kind, calls, latencies, failures>>

Succeed ==
  /\ pc = "calls" /\ calls < Samples /\ calls' = calls + 1
  /\ \E t \in Times : latencies' = Insert(latencies, t)
  /\ UNCHANGED <<pc, kind, failures, published>>

\* Mutant: the time until a call failed is a latency too.
FailTimed ==
  /\ pc = "calls" /\ calls < Samples /\ calls' = calls + 1
  /\ failures' = failures + 1
  /\ \E t \in Times : latencies' = Insert(latencies, t)
  /\ UNCHANGED <<pc, kind, published>>

Fail ==
  /\ pc = "calls" /\ calls < Samples /\ calls' = calls + 1
  /\ failures' = failures + 1
  /\ UNCHANGED <<pc, kind, latencies, published>>

Publish ==
  /\ pc = "calls" /\ calls = Samples /\ pc' = "done"
  /\ published' = IF kind = "baseline" /\ latencies = <<>>
                  THEN [Unpublished EXCEPT !.status = "unreachable", !.failures = failures]
                  ELSE Summary(latencies, failures)
  /\ UNCHANGED <<kind, calls, latencies, failures>>

Done == pc = "done" /\ UNCHANGED vars

Next == Begin \/ NotResolved \/ Succeed \/ Fail \/ Publish \/ Done

Spec == Init /\ [][Next]_vars

-----------------------------------------------------------------------------
(* Properties. *)

\* The variables keep their types.
TypeOK ==
  /\ pc \in {"start", "calls", "done"} /\ kind \in {"baseline", "workload"}
  /\ calls \in 0 .. Samples /\ failures \in 0 .. Samples
  /\ latencies \in Seq(Times)
  /\ published.status \in {"none", "summary", "not_observable", "unreachable"}

\* v was observed, at least p percent of the samples are no larger and fewer than p
\* percent are smaller.
IsNearestRank(s, p, v) ==
  /\ \E i \in DOMAIN s : s[i] = v
  /\ 100 * Cardinality({i \in DOMAIN s : s[i] <= v}) >= p * Len(s)
  /\ 100 * Cardinality({i \in DOMAIN s : s[i] < v}) < p * Len(s)

\* Every published percentile is the nearest-rank one of what was observed ("Nearest-rank
\* always returns an actually-observed value", metrics.py:7-8), down to one sample.
NearestRank ==
  published.status = "summary" /\ latencies # <<>> =>
    \A p \in Percents : IsNearestRank(latencies, p, published.at[p])

\* Calls that failed are left out of the distribution and counted: what is published is
\* of all calls, or says that nothing was observed.
CallsAccountedFor ==
  /\ published.status \in {"summary", "unreachable"} => published.n + published.failures = Samples
  /\ published.status \in {"none", "not_observable"} => published.failures = 0
  /\ published.n = 0 => \A p \in Percents : published.at[p] = None
=============================================================================
