-------------------------- MODULE WriteNamespace --------------------------
(***************************************************************************)
(* What the mixed workload promises about its BenchWrite namespace, with   *)
(* nothing of the threads that fill it (run_benchmark.py:128-129 and the   *)
(* contract of GraphAdapter.write_op and cleanup_writes).                  *)
(*                                                                         *)
(* A round is open while clients write.  A write counts as acknowledged    *)
(* only once its row is stored, no acknowledged row disappears while the   *)
(* round is open, and rows are deleted only when it is closed.  A row may  *)
(* be stored at any time: a request that failed at the client may still    *)
(* take effect at the server.                                              *)
(***************************************************************************)
CONSTANT Rows

VARIABLES
  stored,   \* the rows of the namespace
  acked,    \* this round's rows whose writer was told of success
  open      \* whether the round still accepts writes

vars == <<stored, acked, open>>

Init ==
  /\ stored = {}
  /\ acked = {}
  /\ open = TRUE

Store ==
  /\ \E r \in Rows : stored' = stored \cup {r}
  /\ UNCHANGED <<acked, open>>

Acknowledge ==
  /\ open
  /\ \E r \in stored : acked' = acked \cup {r}
  /\ UNCHANGED <<stored, open>>

Close ==
  /\ open
  /\ open' = FALSE
  /\ UNCHANGED <<stored, acked>>

Wipe ==
  /\ ~open
  /\ stored' = {}
  /\ UNCHANGED <<acked, open>>

Reopen ==
  /\ ~open
  /\ open' = TRUE
  /\ acked' = {}
  /\ UNCHANGED stored

Next == Store \/ Acknowledge \/ Close \/ Wipe \/ Reopen

Spec == Init /\ [][Next]_vars
=============================================================================
