--------------------------- MODULE MixedWorkload ---------------------------
(***************************************************************************)
(* The mixed read/write workload: run_mixed of scripts/run_benchmark.py,   *)
(* called by main once for each client count of --concurrency.             *)
(*                                                                         *)
(* The main thread submits one worker per client to a ThreadPoolExecutor,  *)
(* sleeps, sets the stop event, joins the workers and deletes the rows     *)
(* they wrote.  Each worker repeats a cycle of reads followed by writes    *)
(* until it sees the event.  A driver call is two steps of the environment *)
(* (its effect at the server, its answer), so it may fail after its effect *)
(* and, when the client gives up first, before it.                         *)
(*                                                                         *)
(* Abstracted: latencies are the ordinals of the operations that were      *)
(* timed, a node a position of start_nodes, a row the operation that wrote *)
(* it.  time_call catches every driver error, so workers do not raise.     *)
(***************************************************************************)
EXTENDS Integers, FiniteSets, Sequences

CONSTANTS
  Levels,         \* the client counts of --concurrency, in order
  Cycle,          \* operations per read/write cycle (10 in the code)
  ReadsPerCycle,  \* round(read_ratio * 10)
  NumNodes,       \* len(start_nodes)
  MaxOps,         \* bound: operations a worker can fit in one level
  SplitCleanup,   \* TRUE: cleanup counts, then truncates (ArangoDB)
  Interrupts      \* TRUE: an exception may reach the main thread in the pool block

ASSUME LevelsAssumption == Levels \in Seq(Nat \ {0}) /\ Levels # <<>>
ASSUME CycleAssumption == Cycle \in Nat \ {0} /\ ReadsPerCycle \in 0 .. Cycle
ASSUME BoundAssumption == NumNodes \in Nat \ {0} /\ MaxOps \in Nat
ASSUME FlagAssumption == SplitCleanup \in BOOLEAN /\ Interrupts \in BOOLEAN

VARIABLES
  level,      \* main's loop over levels: position in Levels
  main,       \* where the main thread is in run_mixed
  submitted,  \* how many workers the pool was given
  stop,       \* the threading.Event
  pc,         \* where each worker is in its loop
  counter,    \* operations each worker has finished
  cursor,     \* each worker's node_cursor
  reads,      \* operations whose latency is in read_latencies[w]
  writes,     \* operations whose latency is in write_latencies[w]
  errors,     \* errors[w]
  rows,       \* BenchWrite rows at the server
  late,       \* writes that failed at the client and are still running at the server
  counted,    \* the count ArangoDB's cleanup_writes holds before truncating
  cleaned,    \* writes_cleaned_up
  warned      \* whether "write cleanup failed" was logged for this level

workerVars == <<pc, counter, cursor, reads, writes, errors>>
mainVars == <<level, main, submitted, stop, counted, cleaned, warned>>
vars == <<workerVars, mainVars, rows, late>>

Clients == Levels[level]
Workers == UNION {0 .. (Levels[i] - 1) : i \in DOMAIN Levels}
Active == 0 .. (Clients - 1)

MainStates ==
  {"submit", "join", "cleanup", "truncate", "returned", "unwind", "raised", "abandoned"}
Settled == {"cleanup", "truncate", "returned"}
WorkerStates == {"idle", "check", "read", "write", "applied", "done"}
Busy == {"read", "write", "applied"}

Rows == [level : DOMAIN Levels, worker : Workers, op : 0 .. MaxOps]
Row(w) == [level |-> level, worker |-> w, op |-> counter[w]]

\* What the row is stored under, c{clients}-w{index}-{counter}.  Two levels of the same client
\* count share their keys, and no platform is asked to keep them apart.
Key(r) == <<Levels[r.level], r.worker, r.op>>

\* Mutant: the read share of a cycle is one slot too long.
IsReadOffByOne(n) == n % Cycle <= ReadsPerCycle

\* The slots of a cycle that read come first.
IsRead(n) == n % Cycle < ReadsPerCycle

ForAll(v) == [w \in Workers |-> v]
OwnIndex == [w \in Workers |-> w]

Init ==
  /\ level = 1 /\ main = "submit" /\ submitted = 0 /\ stop = FALSE
  /\ pc = ForAll("idle") /\ counter = ForAll(0) /\ cursor = OwnIndex
  /\ reads = ForAll({}) /\ writes = ForAll({}) /\ errors = ForAll(0)
  /\ rows = {} /\ late = {} /\ counted = 0 /\ cleaned = 0 /\ warned = FALSE

-----------------------------------------------------------------------------
(* A worker. *)

\* Mutant: the event is looked at only before the first operation of a cycle.
BeginAnyway(w) ==
  /\ pc[w] = "check" /\ counter[w] < MaxOps /\ (stop => counter[w] % Cycle # 0)
  /\ pc' = [pc EXCEPT ![w] = IF IsRead(counter[w]) THEN "read" ELSE "write"]
  /\ UNCHANGED <<counter, cursor, reads, writes, errors, mainVars, rows, late>>

\* while not stop.is_set(): the branch taken depends on the slot of the cycle.
Begin(w) ==
  /\ pc[w] = "check" /\ ~stop /\ counter[w] < MaxOps
  /\ pc' = [pc EXCEPT ![w] = IF IsRead(counter[w]) THEN "read" ELSE "write"]
  /\ UNCHANGED <<counter, cursor, reads, writes, errors, mainVars, rows, late>>

\* The loop goes on past the bound; what it does there is not modelled.
PastBound(w) ==
  /\ pc[w] = "check" /\ ~stop /\ counter[w] = MaxOps
  /\ UNCHANGED vars

\* Mutant: the event is looked at only between cycles.
LeaveBetweenCycles(w) ==
  /\ pc[w] = "check" /\ stop /\ counter[w] % Cycle = 0
  /\ pc' = [pc EXCEPT ![w] = "done"]
  /\ UNCHANGED <<counter, cursor, reads, writes, errors, mainVars, rows, late>>

Leave(w) ==
  /\ pc[w] = "check" /\ stop
  /\ pc' = [pc EXCEPT ![w] = "done"]
  /\ UNCHANGED <<counter, cursor, reads, writes, errors, mainVars, rows, late>>

\* Mutant: a failed operation leaves no trace.
CountDropsFailure(w, failed) ==
  /\ counter' = [counter EXCEPT ![w] = @ + 1]
  /\ pc' = [pc EXCEPT ![w] = "check"]
  /\ UNCHANGED errors

\* The bookkeeping after the call, common to both branches.
Count(w, failed) ==
  /\ errors' = [errors EXCEPT ![w] = @ + (IF failed THEN 1 ELSE 0)]
  /\ counter' = [counter EXCEPT ![w] = @ + 1]
  /\ pc' = [pc EXCEPT ![w] = "check"]

\* Mutant: the workers' cursors advance by one instead of by the client count.
ReadReturnsNextNode(w) ==
  /\ pc[w] = "read"
  /\ \E ok \in BOOLEAN :
       /\ reads' = IF ok THEN [reads EXCEPT ![w] = @ \cup {counter[w]}] ELSE reads
       /\ Count(w, ~ok)
  /\ cursor' = [cursor EXCEPT ![w] = @ + 1]
  /\ UNCHANGED <<writes, mainVars, rows, late>>

ReadReturns(w) ==
  /\ pc[w] = "read"
  /\ \E ok \in BOOLEAN :
       /\ reads' = IF ok THEN [reads EXCEPT ![w] = @ \cup {counter[w]}] ELSE reads
       /\ Count(w, ~ok)
  /\ cursor' = [cursor EXCEPT ![w] = @ + Clients]
  /\ UNCHANGED <<writes, mainVars, rows, late>>

WriteApplied(w) ==
  /\ pc[w] = "write"
  /\ rows' = rows \cup {Row(w)}
  /\ pc' = [pc EXCEPT ![w] = "applied"]
  /\ UNCHANGED <<counter, cursor, reads, writes, errors, mainVars, late>>

WriteReturns(w) ==
  /\ pc[w] = "applied"
  /\ writes' = [writes EXCEPT ![w] = @ \cup {counter[w]}]
  /\ Count(w, FALSE)
  /\ UNCHANGED <<cursor, reads, mainVars, rows, late>>

\* The call raises.  Its row is already stored, never will be, or is on its way.
WriteFails(w) ==
  /\ pc[w] \in {"write", "applied"}
  /\ \/ late' = late
     \/ pc[w] = "write" /\ late' = late \cup {Row(w)}
  /\ Count(w, TRUE)
  /\ UNCHANGED <<cursor, reads, writes, mainVars, rows>>

\* The server finishes a write whose client has already given up.
LateWrite ==
  /\ \E r \in late : rows' = rows \cup {r} /\ late' = late \ {r}
  /\ UNCHANGED <<workerVars, mainVars>>

-----------------------------------------------------------------------------
(* The main thread. *)

Submit ==
  /\ main = "submit" /\ submitted < Clients
  /\ pc' = [pc EXCEPT ![submitted] = "check"]
  /\ submitted' = submitted + 1
  /\ UNCHANGED <<level, main, stop, counted, cleaned, warned,
                 counter, cursor, reads, writes, errors, rows, late>>

\* Mutant: stop.set() is missing.
TimeUpWithoutSet ==
  /\ main = "submit" /\ submitted = Clients
  /\ main' = "join"
  /\ UNCHANGED <<level, submitted, stop, counted, cleaned, warned, workerVars, rows, late>>

\* time.sleep(duration) ends and the event is set.
TimeUp ==
  /\ main = "submit" /\ submitted = Clients
  /\ stop' = TRUE /\ main' = "join"
  /\ UNCHANGED <<level, submitted, counted, cleaned, warned, workerVars, rows, late>>

\* Mutant: only the first future is waited for.
JoinFirst ==
  /\ main = "join" /\ pc[0] = "done"
  /\ main' = "cleanup"
  /\ UNCHANGED <<level, submitted, stop, counted, cleaned, warned, workerVars, rows, late>>

\* Every future has a result and the pool has shut down.
Join ==
  /\ main = "join" /\ \A w \in Active : pc[w] = "done"
  /\ main' = "cleanup"
  /\ UNCHANGED <<level, submitted, stop, counted, cleaned, warned, workerVars, rows, late>>

\* One query deletes and counts (Bolt, FalkorDB).
CleanupInOne ==
  /\ main = "cleanup" /\ ~SplitCleanup
  /\ main' = "returned"
  /\ rows' = {} /\ cleaned' = Cardinality(rows)
  /\ UNCHANGED <<level, submitted, stop, counted, warned, workerVars, late>>

\* Mutant: the collection is truncated before it is counted.
CountAfterTruncate ==
  /\ main = "cleanup" /\ SplitCleanup
  /\ main' = "truncate"
  /\ rows' = {} /\ counted' = 0
  /\ UNCHANGED <<level, submitted, stop, cleaned, warned, workerVars, late>>

\* Mutant: the count is one short.
CountOneShort ==
  /\ main = "cleanup" /\ SplitCleanup
  /\ main' = "truncate"
  /\ counted' = Cardinality(rows) - 1
  /\ UNCHANGED <<level, submitted, stop, cleaned, warned, workerVars, rows, late>>

\* ArangoDB asks for the count first ...
CountRows ==
  /\ main = "cleanup" /\ SplitCleanup
  /\ main' = "truncate"
  /\ counted' = Cardinality(rows)
  /\ UNCHANGED <<level, submitted, stop, cleaned, warned, workerVars, rows, late>>

\* ... and truncates the collection after it.
Truncate ==
  /\ main = "truncate"
  /\ main' = "returned"
  /\ rows' = {} /\ cleaned' = counted
  /\ UNCHANGED <<level, submitted, stop, counted, warned, workerVars, late>>

\* The exception is logged and swallowed; the deletion may have happened or not.
CleanupFails ==
  /\ main \in {"cleanup", "truncate"}
  /\ main' = "returned" /\ warned' = TRUE
  /\ rows' \in IF main = "cleanup" /\ SplitCleanup THEN {rows} ELSE {rows, {}}
  /\ UNCHANGED <<level, submitted, stop, counted, cleaned, workerVars, late>>

\* Mutant: the latency lists and error counts outlive the call.
NextLevelKeepsLists ==
  /\ main = "returned" /\ level < Len(Levels)
  /\ level' = level + 1 /\ main' = "submit" /\ submitted' = 0 /\ stop' = FALSE
  /\ pc' = ForAll("idle") /\ counter' = ForAll(0) /\ cursor' = OwnIndex
  /\ counted' = 0 /\ cleaned' = 0 /\ warned' = FALSE
  /\ UNCHANGED <<reads, writes, errors, rows, late>>

\* main appends the result and calls run_mixed again with fresh lists.
NextLevel ==
  /\ main = "returned" /\ level < Len(Levels)
  /\ level' = level + 1 /\ main' = "submit" /\ submitted' = 0 /\ stop' = FALSE
  /\ pc' = ForAll("idle") /\ counter' = ForAll(0) /\ cursor' = OwnIndex
  /\ reads' = ForAll({}) /\ writes' = ForAll({}) /\ errors' = ForAll(0)
  /\ counted' = 0 /\ cleaned' = 0 /\ warned' = FALSE
  /\ UNCHANGED <<rows, late>>

\* KeyboardInterrupt, or a thread that cannot be started, inside the with block: the
\* executor's __exit__ waits for the workers before the exception goes on.  A second one
\* ends that wait: main leaves the block and the workers go on without it.
Interrupt ==
  /\ Interrupts
  /\ \/ main \in {"submit", "join"} /\ main' = "unwind"
     \/ main = "unwind" /\ main' = "abandoned"
  /\ UNCHANGED <<level, submitted, stop, counted, cleaned, warned, workerVars, rows, late>>

\* Mutant: the pool is left without waiting for its threads.
RaiseWithoutWaiting ==
  /\ main = "unwind"
  /\ main' = "raised"
  /\ UNCHANGED <<level, submitted, stop, counted, cleaned, warned, workerVars, rows, late>>

Raise ==
  /\ main = "unwind" /\ \A w \in Workers : w < submitted => pc[w] = "done"
  /\ main' = "raised"
  /\ UNCHANGED <<level, submitted, stop, counted, cleaned, warned, workerVars, rows, late>>

Finished == main \in {"raised", "abandoned"} \/ (main = "returned" /\ level = Len(Levels))

Stopped == Finished /\ UNCHANGED vars

-----------------------------------------------------------------------------

WorkerStep(w) ==
  \/ Begin(w) \/ PastBound(w) \/ Leave(w)
  \/ ReadReturns(w) \/ WriteApplied(w) \/ WriteReturns(w) \/ WriteFails(w)

MainStep ==
  \/ Submit \/ TimeUp \/ Join
  \/ CleanupInOne \/ CountRows \/ Truncate \/ CleanupFails
  \/ NextLevel \/ Raise

Next ==
  \/ MainStep
  \/ \E w \in Workers : WorkerStep(w)
  \/ LateWrite
  \/ Interrupt
  \/ Stopped

Spec == Init /\ [][Next]_vars

\* The operating system schedules every thread, sleep returns, and every driver
\* call ends with an answer or an exception.
Fairness == WF_vars(MainStep) /\ \A w \in Workers : WF_vars(WorkerStep(w))

FairSpec == Spec /\ Fairness

-----------------------------------------------------------------------------
(* Properties. *)

Acked == {r \in Rows : r.level = level /\ r.op \in writes[r.worker]}
AllReads == {x \in Workers \X (0 .. MaxOps) : x[2] \in reads[x[1]]}
AllWrites == {x \in Workers \X (0 .. MaxOps) : x[2] \in writes[x[1]]}
Operations == Cardinality(AllReads) + Cardinality(AllWrites)
NoErrors == \A w \in Workers : errors[w] = 0

TypeOK ==
  /\ level \in DOMAIN Levels /\ main \in MainStates /\ submitted \in 0 .. Clients
  /\ stop \in BOOLEAN /\ warned \in BOOLEAN /\ counted \in Nat /\ cleaned \in Nat
  /\ pc \in [Workers -> WorkerStates]
  /\ counter \in [Workers -> 0 .. MaxOps] /\ errors \in [Workers -> 0 .. MaxOps]
  /\ cursor \in [Workers -> Nat]
  /\ reads \in [Workers -> SUBSET (0 .. MaxOps)] /\ writes \in [Workers -> SUBSET (0 .. MaxOps)]
  /\ rows \subseteq Rows /\ late \subseteq Rows

\* No operation is lost or counted twice: every finished operation of a worker has
\* left exactly one latency or one error ("Failures are recorded, never silently
\* dropped", common.py:180), whatever failed and however the calls interleaved.
EveryOperationCounted ==
  \A w \in Workers : Cardinality(reads[w]) + Cardinality(writes[w]) + errors[w] = counter[w]

\* A write that was acknowledged, and so counts in the published writes, is in the
\* namespace until cleanup has finished, and as long as any worker still runs.
AckedWritesStored ==
  main # "returned" \/ (\E w \in Workers : pc[w] \notin {"idle", "done"}) => Acked \subseteq rows

\* Cleanup runs only when no worker of the level is still in its loop, so it cannot
\* race a write it is meant to delete.
CleanupAfterWorkers == main \in Settled => \A w \in Workers : pc[w] \in {"idle", "done"}

\* When cleanup did not fail, every acknowledged write of the level is gone and the
\* published writes_cleaned_up covers the published writes; only rows of failed calls,
\* of this level or an earlier one, can make it larger or stay behind.
CleanupCoversWrites ==
  main = "returned" /\ ~warned =>
    /\ rows \cap Acked = {}
    /\ cleaned >= Cardinality(AllWrites)

\* A write carries a key no row has that was stored, or may still be, in its level, even
\* after a write that failed: only an earlier level of the same client count had it too.
KeysNeverReused ==
  \A w \in Workers : pc[w] = "write" =>
    \A r \in rows \cup late : Key(r) = Key(Row(w)) => r.level < level

\* Workers never read the same start node when the client count divides the list
\* ("Each worker walks its own slice of the start-node list", run_benchmark.py:142).
SlicesDisjoint ==
  NumNodes % Clients = 0 =>
    \A v, w \in Active : v # w => cursor[v] % NumNodes # cursor[w] % NumNodes

\* Without errors the realised reads never fall below the requested ratio and exceed
\* it by less than one cycle's worth for each client: reads come first in a cycle.
RatioWithinOneCycle ==
  main \in Settled /\ NoErrors =>
    LET excess == Cycle * Cardinality(AllReads) - ReadsPerCycle * Operations
    IN  /\ excess >= 0
        /\ excess <= Clients * ReadsPerCycle * (Cycle - ReadsPerCycle)

\* An exception that reaches the main thread before it has set the event (Ctrl-C during the
\* sleep, a thread that cannot be started) gets out of the pool block by itself only if no
\* worker was started.  A second one takes main out and leaves every worker it submitted in
\* its loop, with an event that nothing sets any more.
ExceptionBeforeStop ==
  ~stop => /\ main = "raised" => submitted = 0
           /\ main = "abandoned" => \A w \in Workers : w < submitted => pc[w] \notin {"idle", "done"}

\* How many steps a worker that sees the event has still to take.
StepsLeft(at) ==
  CASE at = "write" -> 3 [] at \in {"read", "applied"} -> 2 [] at = "check" -> 1 [] OTHER -> 0

\* The operations a worker has finished, with the one it is in.
Begun(w) == counter[w] + (IF pc[w] \in Busy THEN 1 ELSE 0)

\* While the event stays set no worker begins an operation, none is given more to do, and
\* each that runs comes nearer to the end of its loop: what is measured after the time is up
\* is at most one operation of each client.
WindsDown ==
  [][stop /\ stop' => \A w \in Workers :
       /\ Begun(w)' <= Begun(w)
       /\ StepsLeft(pc'[w]) <= StepsLeft(pc[w])
       /\ WorkerStep(w) => StepsLeft(pc'[w]) < StepsLeft(pc[w])]_vars

\* Every level ends: the workers see the event and main gets through cleanup.
Termination == <>Finished

\* Once the event is set an exception in the main thread gets out of the pool block, with
\* or without a second one, and every worker comes to the end of its loop.
StoppedPoolUnwinds ==
  (main = "unwind" /\ stop)
    ~> (main \in {"raised", "abandoned"} /\ \A w \in Workers : pc[w] \in {"idle", "done"})

\* The namespace keeps the promise of WriteNamespace.
Promise == INSTANCE WriteNamespace
             WITH stored <- rows, acked <- Acked, open <- main \notin Settled
NamespacePromise == Promise!Spec
=============================================================================
