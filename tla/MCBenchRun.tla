---------------------------- MODULE MCBenchRun ----------------------------
(* BenchRun with two targets and two workloads, one of which takes a single *)
(* argument as the aggregation does; phases of one or two calls.            *)
EXTENDS BenchRun

TwoWorkloads == <<2, 1>>
=============================================================================
