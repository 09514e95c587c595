------------------------ MODULE MixedWorkloadProofs ------------------------
(***************************************************************************)
(* Proofs about MixedWorkload, for every list of client counts, cycle      *)
(* length, read share and bound.  The inductive invariant IInv has five    *)
(* parts: the types and bounds, where the threads can be relative to each  *)
(* other (ThreadInv), which rows can exist (RowInv), what has been counted *)
(* (CountInv) and what cleanup leaves (CleanInv).  Two further invariants  *)
(* rest on it: where each cursor is in the list of start nodes (CursorInv) *)
(* and how far a worker's reads are ahead of the ratio (RatioInv).         *)
(***************************************************************************)
EXTENDS MixedWorkload, FiniteSetTheorems, WellFoundedInduction, TLAPS

TypeInv ==
  /\ TypeOK
  /\ IsFiniteSet(rows)
  /\ \A w \in Workers : errors[w] <= counter[w] /\ (pc[w] \in Busy => counter[w] < MaxOps)

\* The main thread is past the pool block only with the event set and every worker out
\* of its loop; a worker leaves its loop only with the event set.
ThreadInv ==
  /\ \A w \in Workers : pc[w] = "idle" <=> w >= submitted
  /\ main = "submit" => ~stop
  /\ main \in {"join"} \cup Settled => stop /\ submitted = Clients
  /\ main \in {"raised"} \cup Settled => \A w \in Workers : pc[w] \in {"idle", "done"}
  /\ \A w \in Workers : pc[w] = "done" => stop
  /\ main = "truncate" => SplitCleanup

\* Rows belong to operations that were begun; acknowledged ones are stored, and none of
\* them can be among the writes that the server may still finish.
RowInv ==
  /\ \A w \in Workers : \A n \in reads[w] \cup writes[w] : n < counter[w]
  /\ \A w \in Workers : pc[w] = "applied" => Row(w) \in rows
  /\ \A r \in rows :
       /\ r.level <= level
       /\ r.level = level => \/ r.op < counter[r.worker]
                             \/ r.op = counter[r.worker] /\ pc[r.worker] = "applied"
  /\ \A r \in late :
       /\ r.level <= level
       /\ r.level = level => r.op < counter[r.worker] /\ r.op \notin writes[r.worker]
  /\ main # "returned" => Acked \subseteq rows

\* Every finished operation is in exactly one of the three places that count it.
CountInv ==
  \A w \in Workers :
    /\ IsFiniteSet(reads[w]) /\ IsFiniteSet(writes[w])
    /\ Cardinality(reads[w]) + Cardinality(writes[w]) + errors[w] = counter[w]

\* What cleanup counted covers the acknowledged writes, and what it deleted stays deleted.
CleanInv ==
  /\ warned => main = "returned"
  /\ main = "truncate" => counted >= Cardinality(AllWrites)
  /\ main = "returned" /\ ~warned => /\ rows \cap Acked = {}
                                     /\ cleaned >= Cardinality(AllWrites)

IInv == TypeInv /\ ThreadInv /\ RowInv /\ CountInv /\ CleanInv

-----------------------------------------------------------------------------

\* A level has at least one client, and its clients are among the workers.
LEMMA ClientFacts ==
  ASSUME NEW l \in DOMAIN Levels
  PROVE  /\ l \in Nat /\ DOMAIN Levels = 1 .. Len(Levels) /\ Len(Levels) \in Nat
         /\ Levels[l] \in Nat \ {0}
         /\ 0 .. (Levels[l] - 1) \subseteq Workers
         /\ Workers \subseteq Nat
<1>1. /\ DOMAIN Levels = 1 .. Len(Levels) /\ Len(Levels) \in Nat
      /\ \A i \in DOMAIN Levels : Levels[i] \in Nat \ {0}
  BY LevelsAssumption
<1>2. 0 .. (Levels[l] - 1) \subseteq Workers
  BY DEF Workers
<1>3. Workers \subseteq Nat
  BY <1>1 DEF Workers
<1> QED
  BY <1>1, <1>2, <1>3

\* The count of a finite set of rows is a natural number.
LEMMA RowCount ==
  ASSUME IsFiniteSet(rows)
  PROVE  Cardinality(rows) \in Nat
BY FS_CardinalityType

LEMMA InitInv == Init => IInv
<1> SUFFICES ASSUME Init PROVE IInv
  OBVIOUS
<1>1. 1 \in DOMAIN Levels
  BY LevelsAssumption
<1>2. /\ level \in Nat /\ Clients \in Nat \ {0} /\ Workers \subseteq Nat /\ level \in DOMAIN Levels
  BY <1>1, ClientFacts DEF Init, Clients
<1>3. TypeInv
  <2>1. IsFiniteSet(rows)
    BY FS_EmptySet DEF Init
  <2>2. TypeOK
    <3>1. /\ level \in DOMAIN Levels /\ main \in MainStates /\ submitted \in 0 .. Clients
          /\ stop \in BOOLEAN /\ warned \in BOOLEAN /\ counted \in Nat /\ cleaned \in Nat
      <4>1. level \in DOMAIN Levels /\ submitted \in 0 .. Clients
        BY <1>2 DEF Init
      <4>2. /\ main \in MainStates /\ stop \in BOOLEAN /\ warned \in BOOLEAN
            /\ counted \in Nat /\ cleaned \in Nat
        BY DEF Init, MainStates
      <4> QED
        BY <4>1, <4>2
    <3>2. /\ pc \in [Workers -> WorkerStates] /\ cursor \in [Workers -> Nat]
          /\ counter \in [Workers -> 0 .. MaxOps] /\ errors \in [Workers -> 0 .. MaxOps]
      BY <1>2, BoundAssumption DEF Init, ForAll, OwnIndex, WorkerStates
    <3>3. /\ reads \in [Workers -> SUBSET (0 .. MaxOps)]
          /\ writes \in [Workers -> SUBSET (0 .. MaxOps)]
          /\ rows \subseteq Rows /\ late \subseteq Rows
      BY DEF Init, ForAll
    <3> QED
      BY <3>1, <3>2, <3>3 DEF TypeOK
  <2> QED
    BY <2>1, <2>2 DEF Init, TypeInv, Busy, ForAll
<1>4. ThreadInv
  BY <1>2 DEF Init, ThreadInv, ForAll, Settled
<1>5. RowInv
  BY <1>2 DEF Init, RowInv, ForAll, Acked, Rows
<1>6. CountInv
  BY <1>2, FS_EmptySet DEF Init, CountInv, ForAll
<1>7. CleanInv
  BY DEF Init, CleanInv
<1> QED
  BY <1>3, <1>4, <1>5, <1>6, <1>7 DEF IInv

-----------------------------------------------------------------------------

\* The bookkeeping after a call keeps the counts typed, bounded and ordered.
LEMMA CountTypes ==
  ASSUME TypeInv, NEW w \in Workers, NEW failed \in BOOLEAN, pc[w] \in Busy, Count(w, failed)
  PROVE  /\ counter' \in [Workers -> 0 .. MaxOps] /\ errors' \in [Workers -> 0 .. MaxOps]
         /\ pc' \in [Workers -> WorkerStates]
         /\ \A v \in Workers : errors'[v] <= counter'[v] /\ (pc'[v] \in Busy => counter'[v] < MaxOps)
<1>1. /\ counter[w] + 1 \in 0 .. MaxOps /\ errors[w] + 1 \in 0 .. MaxOps
      /\ errors[w] <= counter[w] /\ counter[w] \in Nat /\ errors[w] \in Nat
  BY BoundAssumption DEF TypeInv, TypeOK
<1>2. counter' \in [Workers -> 0 .. MaxOps] /\ pc' \in [Workers -> WorkerStates]
  BY <1>1 DEF Count, TypeInv, TypeOK, WorkerStates
<1>3. /\ errors' \in [Workers -> 0 .. MaxOps]
      /\ \A v \in Workers : errors'[v] <= counter'[v] /\ (pc'[v] \in Busy => counter'[v] < MaxOps)
  BY <1>1, BoundAssumption DEF Count, TypeInv, TypeOK, Busy
<1> QED
  BY <1>2, <1>3

LEMMA TypeStep == TypeInv /\ [Next]_vars => TypeInv'
<1> SUFFICES ASSUME TypeInv, [Next]_vars PROVE TypeInv'
  OBVIOUS
<1> USE DEF TypeInv, TypeOK
<1>0. /\ level \in Nat /\ Clients \in Nat \ {0} /\ Active \subseteq Workers
      /\ Workers \subseteq Nat /\ DOMAIN Levels = 1 .. Len(Levels) /\ Len(Levels) \in Nat
  BY ClientFacts DEF Clients, Active
<1>1. ASSUME NEW w \in Workers, Begin(w) PROVE TypeInv'
  BY <1>1, BoundAssumption DEF Begin, mainVars, WorkerStates, Clients, Busy
<1>2. ASSUME NEW w \in Workers, Leave(w) PROVE TypeInv'
  BY <1>2, BoundAssumption DEF Leave, mainVars, WorkerStates, Clients, Busy
<1>3. ASSUME NEW w \in Workers, ReadReturns(w) PROVE TypeInv'
  <2>1. counter[w] \in 0 .. MaxOps /\ pc[w] \in Busy
    BY <1>3 DEF ReadReturns, Busy
  <2>2. PICK ok \in BOOLEAN :
          /\ reads' = IF ok THEN [reads EXCEPT ![w] = @ \cup {counter[w]}] ELSE reads
          /\ Count(w, ~ok)
    BY <1>3 DEF ReadReturns
  <2>3. reads' \in [Workers -> SUBSET (0 .. MaxOps)]
    BY <2>1, <2>2
  <2>4. cursor' \in [Workers -> Nat]
    BY <1>0, <1>3 DEF ReadReturns
  <2> QED
    BY <1>3, <2>1, <2>2, <2>3, <2>4, CountTypes DEF ReadReturns, mainVars, Clients
<1>4. ASSUME NEW w \in Workers, WriteApplied(w) PROVE TypeInv'
  <2>1. Row(w) \in Rows
    BY DEF Row, Rows
  <2>2. rows' \subseteq Rows /\ IsFiniteSet(rows')
    BY <1>4, <2>1, FS_AddElement DEF WriteApplied
  <2>3. /\ pc' \in [Workers -> WorkerStates]
        /\ \A v \in Workers : pc'[v] \in Busy => counter[v] < MaxOps
    BY <1>4 DEF WriteApplied, WorkerStates, Busy
  <2> QED
    BY <1>4, <2>2, <2>3 DEF WriteApplied, mainVars, Clients
<1>5. ASSUME NEW w \in Workers, WriteReturns(w) PROVE TypeInv'
  <2>1. counter[w] \in 0 .. MaxOps /\ pc[w] \in Busy
    BY <1>5 DEF WriteReturns, Busy
  <2>2. writes' \in [Workers -> SUBSET (0 .. MaxOps)]
    BY <1>5, <2>1 DEF WriteReturns
  <2> QED
    BY <1>5, <2>1, <2>2, CountTypes DEF WriteReturns, mainVars, Clients
<1>6. ASSUME NEW w \in Workers, WriteFails(w) PROVE TypeInv'
  <2>1. pc[w] \in Busy /\ Row(w) \in Rows
    BY <1>6 DEF WriteFails, Busy, Row, Rows
  <2>2. late' \subseteq Rows
    BY <1>6, <2>1 DEF WriteFails
  <2> QED
    BY <1>6, <2>1, <2>2, CountTypes DEF WriteFails, mainVars, Clients
<1>7. CASE LateWrite
  BY <1>0, <1>7, FS_AddElement DEF LateWrite, workerVars, mainVars, Clients
<1>8. CASE Submit
  <2>1. submitted + 1 \in 0 .. Clients
    BY <1>0, <1>8 DEF Submit
  <2>2. /\ pc' \in [Workers -> WorkerStates]
        /\ \A v \in Workers : pc'[v] \in Busy => counter[v] < MaxOps
    BY <1>8 DEF Submit, WorkerStates, Busy
  <2> QED
    BY <1>8, <2>1, <2>2 DEF Submit, Clients
<1>9. CASE TimeUp \/ Join \/ Interrupt \/ Raise
  BY <1>9 DEF TimeUp, Join, Interrupt, Raise, workerVars, MainStates, Clients
<1>10. CASE CleanupInOne \/ CountRows \/ Truncate \/ CleanupFails
  BY <1>10, RowCount, FS_EmptySet DEF CleanupInOne, CountRows, Truncate, CleanupFails, workerVars, MainStates, Clients
<1>11. CASE NextLevel
  <2>1. level + 1 \in DOMAIN Levels
    BY <1>0, <1>11 DEF NextLevel
  <2>2. Levels[level + 1] \in Nat \ {0}
    BY <2>1, ClientFacts
  <2>3. level' \in DOMAIN Levels /\ submitted' \in 0 .. Clients'
    BY <1>11, <2>1, <2>2 DEF NextLevel, Clients
  <2>4. /\ pc' \in [Workers -> WorkerStates] /\ cursor' \in [Workers -> Nat]
        /\ counter' \in [Workers -> 0 .. MaxOps] /\ errors' \in [Workers -> 0 .. MaxOps]
    BY <1>0, <1>11, BoundAssumption DEF NextLevel, ForAll, OwnIndex, WorkerStates
  <2>5. \A v \in Workers : errors'[v] <= counter'[v] /\ pc'[v] \notin Busy
    BY <1>11 DEF NextLevel, ForAll, Busy
  <2>6. /\ reads' \in [Workers -> SUBSET (0 .. MaxOps)]
        /\ writes' \in [Workers -> SUBSET (0 .. MaxOps)]
    BY <1>11 DEF NextLevel, ForAll
  <2>7. rows' = rows /\ late' = late /\ main' \in MainStates
    BY <1>11 DEF NextLevel, MainStates
  <2>8. stop' \in BOOLEAN /\ warned' \in BOOLEAN /\ counted' \in Nat /\ cleaned' \in Nat
    BY <1>11 DEF NextLevel
  <2> QED
    BY <2>3, <2>4, <2>5, <2>6, <2>7, <2>8
<1>12. CASE UNCHANGED vars
  BY <1>12 DEF vars, workerVars, mainVars, Clients
<1> QED
  BY <1>1, <1>2, <1>3, <1>4, <1>5, <1>6, <1>7, <1>8, <1>9, <1>10, <1>11, <1>12
     DEF Next, MainStep, WorkerStep, PastBound, Stopped

LEMMA ThreadStep == TypeInv /\ ThreadInv /\ [Next]_vars => ThreadInv'
<1> SUFFICES ASSUME TypeInv, ThreadInv, [Next]_vars PROVE ThreadInv'
  OBVIOUS
<1>0. /\ Clients \in Nat \ {0} /\ Active \subseteq Workers /\ Workers \subseteq Nat
      /\ submitted \in Nat /\ pc \in [Workers -> WorkerStates] /\ Active = 0 .. (Clients - 1)
  BY ClientFacts DEF Clients, Active, TypeInv, TypeOK
<1>1. ASSUME NEW w \in Workers, \/ Begin(w) \/ ReadReturns(w) \/ WriteApplied(w)
                                 \/ WriteReturns(w) \/ WriteFails(w)
      PROVE  ThreadInv'
  <2>1. /\ pc[w] \in {"check", "read", "write", "applied"}
        /\ \E p \in {"check", "read", "write", "applied"} : pc' = [pc EXCEPT ![w] = p]
        /\ UNCHANGED mainVars
    BY <1>1 DEF Begin, ReadReturns, WriteApplied, WriteReturns, WriteFails, Count
  <2>2. main \notin {"raised"} \cup Settled
    BY <1>0, <2>1 DEF ThreadInv
  <2> QED
    BY <1>0, <2>1, <2>2 DEF ThreadInv, mainVars, Clients
<1>2. ASSUME NEW w \in Workers, Leave(w) PROVE ThreadInv'
  BY <1>0, <1>2 DEF Leave, ThreadInv, mainVars, Clients
<1>3. CASE LateWrite
  BY <1>3 DEF LateWrite, ThreadInv, workerVars, mainVars, Clients
<1>4. CASE Submit
  <2>1. submitted \in Workers /\ pc[submitted] = "idle"
    BY <1>0, <1>4 DEF Submit, ThreadInv
  <2>2. \A w \in Workers : pc'[w] = "idle" <=> w >= submitted'
    BY <1>0, <1>4, <2>1 DEF Submit, ThreadInv
  <2> QED
    BY <1>0, <1>4, <2>1, <2>2 DEF Submit, ThreadInv, Settled
<1>5. CASE TimeUp
  BY <1>5 DEF TimeUp, ThreadInv, workerVars, Settled, Clients
<1>6. CASE Join
  <2>1. \A w \in Workers : w < Clients => w \in Active
    BY <1>0
  <2> QED
    BY <1>0, <1>6, <2>1 DEF Join, ThreadInv, workerVars, Settled, Clients
<1>7. CASE CleanupInOne \/ CountRows \/ Truncate \/ CleanupFails
  BY <1>7 DEF CleanupInOne, CountRows, Truncate, CleanupFails, ThreadInv, workerVars, Settled, Clients
<1>8. CASE NextLevel
  BY <1>0, <1>8 DEF NextLevel, ForAll, ThreadInv, Settled
<1>9. CASE Interrupt
  BY <1>9 DEF Interrupt, ThreadInv, workerVars, Settled
<1>10. CASE Raise
  BY <1>0, <1>10 DEF Raise, ThreadInv, workerVars, Settled
<1>11. CASE UNCHANGED vars
  BY <1>11 DEF vars, workerVars, mainVars, ThreadInv, Clients
<1> QED
  BY <1>1, <1>2, <1>3, <1>4, <1>5, <1>6, <1>7, <1>8, <1>9, <1>10, <1>11
     DEF Next, MainStep, WorkerStep, PastBound, Stopped

LEMMA RowStep == TypeInv /\ ThreadInv /\ RowInv /\ [Next]_vars => RowInv'
<1> SUFFICES ASSUME TypeInv, ThreadInv, RowInv, [Next]_vars PROVE RowInv'
  OBVIOUS
<1> USE DEF RowInv
<1>0. /\ level \in Nat /\ Workers \subseteq Nat /\ rows \subseteq Rows /\ late \subseteq Rows
      /\ \A w \in Workers : counter[w] \in 0 .. MaxOps /\ counter[w] \in Nat
      /\ \A r \in Rows : r.worker \in Workers /\ r.level \in Nat /\ r.op \in Nat
  BY ClientFacts, BoundAssumption DEF TypeInv, TypeOK, Rows
<1>1. ASSUME NEW w \in Workers, Begin(w) \/ Leave(w) PROVE RowInv'
  <2>1. pc' \in [Workers -> WorkerStates] /\ \A v \in Workers : pc'[v] = "applied" <=> pc[v] = "applied"
    BY <1>1, TypeStep DEF Begin, Leave, TypeInv, TypeOK, Next, WorkerStep
  <2> QED
    BY <1>0, <1>1, <2>1 DEF Begin, Leave, mainVars, Row, Acked
<1>2. ASSUME NEW w \in Workers, ReadReturns(w) PROVE RowInv'
  BY <1>0, <1>2 DEF ReadReturns, Count, mainVars, Row, Acked, TypeInv, TypeOK
<1>3. ASSUME NEW w \in Workers, WriteApplied(w) PROVE RowInv'
  BY <1>0, <1>3 DEF WriteApplied, mainVars, Row, Acked, TypeInv, TypeOK
<1>4. ASSUME NEW w \in Workers, WriteReturns(w) PROVE RowInv'
  BY <1>0, <1>4 DEF WriteReturns, Count, mainVars, Row, Acked, TypeInv, TypeOK, Rows
<1>5. ASSUME NEW w \in Workers, WriteFails(w) PROVE RowInv'
  BY <1>0, <1>5 DEF WriteFails, Count, mainVars, Row, Acked, TypeInv, TypeOK
<1>6. CASE LateWrite
  BY <1>0, <1>6 DEF LateWrite, workerVars, mainVars, Row, Acked
<1>7. CASE Submit
  BY <1>0, <1>7 DEF Submit, ThreadInv, Row, Acked, TypeInv, TypeOK
<1>8. CASE TimeUp \/ Join \/ Interrupt \/ Raise \/ CountRows
  BY <1>8 DEF TimeUp, Join, Interrupt, Raise, CountRows, workerVars, Row, Acked
<1>9. CASE CleanupInOne \/ Truncate \/ CleanupFails
  BY <1>0, <1>9 DEF CleanupInOne, Truncate, CleanupFails, ThreadInv, Settled, workerVars, Row, Acked
<1>10. CASE NextLevel
  BY <1>0, <1>10 DEF NextLevel, ForAll, Row, Acked
<1>11. CASE UNCHANGED vars
  BY <1>11 DEF vars, workerVars, mainVars, Row, Acked
<1> QED
  BY <1>1, <1>2, <1>3, <1>4, <1>5, <1>6, <1>7, <1>8, <1>9, <1>10, <1>11
     DEF Next, MainStep, WorkerStep, PastBound, Stopped

LEMMA CountStep == TypeInv /\ RowInv /\ CountInv /\ [Next]_vars => CountInv'
<1> SUFFICES ASSUME TypeInv, RowInv, CountInv, [Next]_vars PROVE CountInv'
  OBVIOUS
<1> USE DEF CountInv
<1>0. /\ counter \in [Workers -> 0 .. MaxOps] /\ errors \in [Workers -> 0 .. MaxOps]
      /\ reads \in [Workers -> SUBSET (0 .. MaxOps)] /\ writes \in [Workers -> SUBSET (0 .. MaxOps)]
      /\ pc \in [Workers -> WorkerStates]
      /\ \A w \in Workers : counter[w] \notin reads[w] \cup writes[w]
      /\ \A w \in Workers : Cardinality(reads[w]) \in Nat /\ Cardinality(writes[w]) \in Nat
      /\ \A w \in Workers : counter[w] \in Nat /\ errors[w] \in Nat
  BY FS_CardinalityType, BoundAssumption DEF TypeInv, TypeOK, RowInv
<1>1. ASSUME NEW w \in Workers, ReadReturns(w) PROVE CountInv'
  <2>1. PICK ok \in BOOLEAN :
          /\ reads' = IF ok THEN [reads EXCEPT ![w] = @ \cup {counter[w]}] ELSE reads
          /\ errors' = [errors EXCEPT ![w] = @ + (IF ~ok THEN 1 ELSE 0)]
          /\ counter' = [counter EXCEPT ![w] = @ + 1]
          /\ writes' = writes
    BY <1>1 DEF ReadReturns, Count
  <2>2. /\ IsFiniteSet(reads[w] \cup {counter[w]})
        /\ Cardinality(reads[w] \cup {counter[w]}) = Cardinality(reads[w]) + 1
    BY <1>0, FS_AddElement
  <2>3. CASE ok
    BY <1>0, <2>1, <2>2, <2>3
  <2>4. CASE ~ok
    BY <1>0, <2>1, <2>4
  <2> QED
    BY <2>3, <2>4
<1>2. ASSUME NEW w \in Workers, WriteReturns(w) PROVE CountInv'
  <2>1. /\ IsFiniteSet(writes[w] \cup {counter[w]})
        /\ Cardinality(writes[w] \cup {counter[w]}) = Cardinality(writes[w]) + 1
    BY <1>0, FS_AddElement
  <2> QED
    BY <1>0, <1>2, <2>1 DEF WriteReturns, Count
<1>3. ASSUME NEW w \in Workers, WriteFails(w) PROVE CountInv'
  BY <1>0, <1>3 DEF WriteFails, Count
<1>4. CASE NextLevel
  BY <1>4, FS_EmptySet DEF NextLevel, ForAll
<1>5. ASSUME UNCHANGED <<counter, errors, reads, writes>> PROVE CountInv'
  BY <1>5
<1> QED
  BY <1>1, <1>2, <1>3, <1>4, <1>5
     DEF Next, MainStep, WorkerStep, PastBound, Stopped, Begin, Leave, WriteApplied, LateWrite,
         Submit, TimeUp, Join, Interrupt, Raise, CleanupInOne, CountRows, Truncate, CleanupFails,
         vars, workerVars, mainVars

\* Distinct acknowledged writes have distinct rows, so there are no more of them than rows.
LEMMA WritesWithinRows ==
  ASSUME TypeInv, Acked \subseteq rows
  PROVE  Cardinality(AllWrites) <= Cardinality(rows)
<1> DEFINE f == [x \in AllWrites |-> [level |-> level, worker |-> x[1], op |-> x[2]]]
<1>1. \A x \in AllWrites : f[x] \in rows
  BY DEF AllWrites, Acked, Rows, TypeInv, TypeOK
<1>2. \A x, y \in AllWrites : f[x] = f[y] => x = y
  BY DEF AllWrites
<1>3. f \in Injection(AllWrites, rows)
  BY <1>1, <1>2 DEF Injection, IsInjective
<1> QED
  BY <1>3, FS_Injection DEF TypeInv

LEMMA CleanStep == TypeInv /\ ThreadInv /\ RowInv /\ CleanInv /\ [Next]_vars => CleanInv'
<1> SUFFICES ASSUME TypeInv, ThreadInv, RowInv, CleanInv, [Next]_vars PROVE CleanInv'
  OBVIOUS
<1> USE DEF CleanInv
<1>1. ASSUME NEW w \in Workers, WorkerStep(w), ~ UNCHANGED vars PROVE CleanInv'
  <2>1. pc[w] \notin {"idle", "done"} /\ UNCHANGED mainVars
    BY <1>1 DEF WorkerStep, Begin, PastBound, Leave, ReadReturns, WriteApplied, WriteReturns, WriteFails
  <2>2. main \notin Settled
    BY <2>1 DEF ThreadInv
  <2> QED
    BY <2>1, <2>2 DEF mainVars, Settled
<1>2. CASE LateWrite
  <2>1. PICK r \in late : rows' = rows \cup {r} /\ UNCHANGED <<workerVars, mainVars>>
    BY <1>2 DEF LateWrite
  <2>2. r \notin Acked /\ Acked' = Acked /\ AllWrites' = AllWrites
    BY <2>1 DEF RowInv, Acked, AllWrites, workerVars, mainVars
  <2> QED
    BY <2>1, <2>2 DEF mainVars
<1>3. CASE CleanupInOne \/ CountRows
  <2>1. Acked \subseteq rows /\ ~warned
    BY <1>3 DEF RowInv, CleanupInOne, CountRows
  <2>2. Cardinality(AllWrites) <= Cardinality(rows)
    BY <2>1, WritesWithinRows
  <2>3. AllWrites' = AllWrites
    BY <1>3 DEF CleanupInOne, CountRows, AllWrites, workerVars
  <2>4. CASE CleanupInOne
    BY <2>2, <2>3, <2>4 DEF CleanupInOne
  <2>5. CASE CountRows
    BY <2>1, <2>2, <2>3, <2>5 DEF CountRows
  <2> QED
    BY <1>3, <2>4, <2>5
<1>4. CASE Truncate
  BY <1>4 DEF Truncate, AllWrites, workerVars
<1>5. CASE CleanupFails
  BY <1>5 DEF CleanupFails
<1>6. CASE NextLevel
  BY <1>6 DEF NextLevel
<1>7. CASE Submit \/ TimeUp \/ Join \/ Interrupt \/ Raise
  BY <1>7 DEF Submit, TimeUp, Join, Interrupt, Raise
<1>8. CASE UNCHANGED vars
  BY <1>8 DEF vars, workerVars, mainVars, Acked, AllWrites
<1> QED
  BY <1>1, <1>2, <1>3, <1>4, <1>5, <1>6, <1>7, <1>8 DEF Next, MainStep, Stopped

-----------------------------------------------------------------------------

\* The inductive invariant holds in every reachable state.
THEOREM Inductive == Spec => []IInv
<1>1. IInv /\ [Next]_vars => IInv'
  BY TypeStep, ThreadStep, RowStep, CountStep, CleanStep DEF IInv
<1> QED
  BY InitInv, <1>1, PTL DEF Spec

\* Every variable of run_mixed keeps its type, and no worker passes its bound.
THEOREM TypeCorrect == Spec => []TypeOK
<1>1. IInv => TypeOK
  BY DEF IInv, TypeInv
<1> QED
  BY Inductive, <1>1, PTL

\* However the calls interleave and fail, a finished operation leaves exactly one
\* latency or one error (time_call and the worker loop).
THEOREM OperationsCounted == Spec => []EveryOperationCounted
<1>1. IInv => EveryOperationCounted
  BY DEF IInv, CountInv, EveryOperationCounted
<1> QED
  BY Inductive, <1>1, PTL

\* No acknowledged write is deleted before the workers are done and cleanup has run.
THEOREM AckedStored == Spec => []AckedWritesStored
<1>1. IInv => AckedWritesStored
  BY DEF IInv, RowInv, ThreadInv, Settled, AckedWritesStored
<1> QED
  BY Inductive, <1>1, PTL

\* cleanup_writes never runs beside a worker of its level.
THEOREM CleanupLast == Spec => []CleanupAfterWorkers
<1>1. IInv => CleanupAfterWorkers
  BY DEF IInv, ThreadInv, CleanupAfterWorkers
<1> QED
  BY Inductive, <1>1, PTL

\* A cleanup that did not fail removed every acknowledged write and reported at least
\* as many rows as writes were published.
THEOREM CleanupCovers == Spec => []CleanupCoversWrites
<1>1. IInv => CleanupCoversWrites
  BY DEF IInv, CleanInv, CleanupCoversWrites
<1> QED
  BY Inductive, <1>1, PTL

\* A worker about to write carries a key that no row of this level has or may still get,
\* whatever failed before: a row with the same key is left of an earlier level of the same
\* client count.
THEOREM FreshKeys == Spec => []KeysNeverReused
<1>1. IInv => KeysNeverReused
  <2> SUFFICES ASSUME IInv, NEW w \in Workers, pc[w] = "write",
                      NEW r \in rows \cup late, Key(r) = Key(Row(w))
               PROVE  r.level < level
    BY DEF KeysNeverReused
  <2>1. /\ counter[w] \in Nat /\ level \in DOMAIN Levels /\ r \in Rows
    BY BoundAssumption DEF IInv, TypeInv, TypeOK
  <2>2. level \in Nat /\ r.level \in Nat
    BY <2>1, ClientFacts DEF Rows
  <2>3. r.worker = w /\ r.op = counter[w]
    BY DEF Key, Row
  <2>4. r.level <= level /\ r.level # level
    BY <2>1, <2>3 DEF IInv, RowInv
  <2> QED
    BY <2>2, <2>4
<1> QED
  BY Inductive, <1>1, PTL

\* Before stop.set() an exception alone leaves the pool block only if no worker was started;
\* a second one leaves every submitted worker in its loop behind it.
THEOREM BeforeStop == Spec => []ExceptionBeforeStop
<1>1. IInv => ExceptionBeforeStop
  <2> SUFFICES ASSUME IInv, ~stop
               PROVE  /\ main = "raised" => submitted = 0
                      /\ main = "abandoned" =>
                           \A w \in Workers : w < submitted => pc[w] \notin {"idle", "done"}
    BY DEF ExceptionBeforeStop
  <2>0. level \in DOMAIN Levels /\ submitted \in 0 .. Clients /\ ThreadInv
    BY DEF IInv, TypeInv, TypeOK
  <2>1. 0 \in Workers /\ submitted \in Nat /\ Workers \subseteq Nat
    <3>1. /\ Levels[level] \in Nat \ {0} /\ 0 .. (Levels[level] - 1) \subseteq Workers
          /\ Workers \subseteq Nat
      BY <2>0, ClientFacts
    <3> QED
      BY <2>0, <3>1 DEF Clients
  <2>2. ASSUME main = "raised", submitted # 0 PROVE FALSE
    <3>1. pc[0] # "idle" /\ pc[0] \in {"idle", "done"}
      BY <2>0, <2>1, <2>2 DEF ThreadInv
    <3> QED
      BY <2>0, <2>1, <3>1 DEF ThreadInv
  <2>3. ASSUME NEW w \in Workers, w < submitted PROVE pc[w] \notin {"idle", "done"}
    <3>1. pc[w] # "done" /\ (pc[w] = "idle" => w >= submitted)
      BY <2>0 DEF ThreadInv
    <3>2. w \in Nat /\ submitted \in Nat
      BY <2>1
    <3> QED
      BY <2>3, <3>1, <3>2
  <2> QED
    BY <2>2, <2>3
<1> QED
  BY Inductive, <1>1, PTL

-----------------------------------------------------------------------------

\* Each step of the threads is a step of the namespace, or leaves it alone.
LEMMA PromiseStep == IInv /\ [Next]_vars => [Promise!Next]_(Promise!vars)
<1> SUFFICES ASSUME IInv, [Next]_vars PROVE [Promise!Next]_(Promise!vars)
  OBVIOUS
<1> USE DEF Promise!Next, Promise!vars, Settled
<1>0. TypeOK /\ RowInv /\ ThreadInv
  BY DEF IInv, TypeInv
<1>1. ASSUME UNCHANGED <<level, writes, rows, main>> PROVE UNCHANGED Promise!vars
  BY <1>1 DEF Acked
<1>2. ASSUME NEW w \in Workers, WriteApplied(w) PROVE Promise!Store
  <2>1. Row(w) \in Rows
    BY <1>0 DEF TypeOK, Row, Rows
  <2> QED
    BY <1>2, <2>1 DEF WriteApplied, mainVars, Acked, Promise!Store
<1>3. ASSUME NEW w \in Workers, WriteReturns(w) PROVE Promise!Acknowledge
  <2>1. Row(w) \in rows /\ Row(w) \in Rows
    BY <1>0, <1>3 DEF RowInv, TypeOK, WriteReturns
  <2>2. main \notin Settled /\ main' = main /\ rows' = rows /\ level' = level
    BY <1>0, <1>3 DEF ThreadInv, WriteReturns, mainVars
  <2>3. Acked' = Acked \cup {Row(w)}
    BY <1>0, <1>3, <2>1, <2>2 DEF Acked, WriteReturns, Row, Rows, TypeOK
  <2> QED
    BY <2>1, <2>2, <2>3 DEF Promise!Acknowledge
<1>4. CASE LateWrite
  BY <1>0, <1>4 DEF LateWrite, workerVars, mainVars, TypeOK, Acked, Promise!Store
<1>5. CASE Join
  BY <1>5 DEF Join, workerVars, Acked, Promise!Close
<1>6. CASE CleanupInOne \/ Truncate
  BY <1>6 DEF CleanupInOne, Truncate, workerVars, Acked, Promise!Wipe
<1>7. CASE CountRows
  BY <1>7 DEF CountRows, workerVars, Acked
<1>8. CASE CleanupFails
  BY <1>8 DEF CleanupFails, workerVars, Acked, Promise!Wipe
<1>9. CASE NextLevel
  <2>1. Acked' = {}
    BY <1>9 DEF NextLevel, ForAll, Acked, Rows
  <2> QED
    BY <1>9, <2>1 DEF NextLevel, Promise!Reopen
<1>10. CASE TimeUp \/ Interrupt \/ Raise
  BY <1>10 DEF TimeUp, Interrupt, Raise, workerVars, Acked
<1> QED
  BY <1>1, <1>2, <1>3, <1>4, <1>5, <1>6, <1>7, <1>8, <1>9, <1>10
     DEF Next, MainStep, WorkerStep, PastBound, Stopped, Begin, Leave, ReadReturns, WriteFails,
         Submit, vars, workerVars, mainVars

\* The threads of run_mixed keep the promise of WriteNamespace: acknowledged writes are
\* stored and stay until the round is closed, and rows are deleted only then.
THEOREM KeepsPromise == Spec => NamespacePromise
<1>1. Init => Promise!Init
  BY DEF Init, Promise!Init, ForAll, Acked, Rows, Settled
<1> QED
  BY <1>1, PromiseStep, Inductive, PTL DEF Spec, NamespacePromise, Promise!Spec
-----------------------------------------------------------------------------
(* Arithmetic: remainders, and induction over the natural numbers stated    *)
(* with a set, so that it can be cited.                                     *)

LEMMA Induction ==
  ASSUME NEW S \in SUBSET Nat, 0 \in S, \A n \in S : n + 1 \in S
  PROVE  S = Nat
<1> SUFFICES ASSUME Nat \ S # {} PROVE FALSE
  OBVIOUS
<1> DEFINE T == Nat \ S
<1>1. PICK n \in T : \A m \in T : ~(<<m, n>> \in OpToRel(<, Nat))
  <2> HIDE DEF T
  <2>1. T \subseteq Nat /\ T # {}
    BY DEF T
  <2> QED
    BY <2>1, WFMin, NatLessThanWellFounded, Zenon
<1>2. \A m \in T : ~(m < n)
  BY <1>1 DEF OpToRel
<1>3. n \in Nat /\ n # 0 /\ n - 1 \in Nat /\ n - 1 < n
  OBVIOUS
<1>4. n - 1 \in S
  BY <1>2, <1>3
<1> QED
  BY <1>3, <1>4

LEMMA DivMod ==
  ASSUME NEW a \in Nat, NEW c \in Nat \ {0}
  PROVE  a = c * (a \div c) + (a % c) /\ a \div c \in Nat /\ a % c \in 0 .. (c - 1)
OBVIOUS

\* Two remainders that differ by a multiple are equal.
LEMMA SameRemainder ==
  ASSUME NEW c \in Nat \ {0}, NEW d \in Int, NEW r \in 0 .. (c - 1), NEW s \in 0 .. (c - 1), c * d = r - s
  PROVE  r = s
<1>1. CASE d >= 1
  <2>1. c * d >= c
    BY <1>1
  <2> QED
    BY <2>1
<1>2. CASE d <= -1
  <2>1. c * (-d) >= c
    BY <1>2
  <2>2. c * (-d) = s - r
    OBVIOUS
  <2> QED
    BY <2>1, <2>2
<1>3. CASE d = 0
  BY <1>3
<1> QED
  BY <1>1, <1>2, <1>3

LEMMA Remainder ==
  ASSUME NEW c \in Nat \ {0}, NEW q \in Nat, NEW r \in 0 .. (c - 1)
  PROVE  (c * q + r) % c = r
<1> DEFINE a == c * q + r
           p == a \div c
           s == a % c
<1>1. a \in Nat
  <2>1. c * q \in Nat
    OBVIOUS
  <2> QED
    BY <2>1
<1>2. a = c * p + s /\ p \in Nat /\ s \in 0 .. (c - 1)
  <2> HIDE DEF a
  <2> QED
    BY <1>1, DivMod
<1>3. c * (p - q) = r - s
  <2>1. c * p + s = c * q + r
    BY <1>2
  <2> HIDE DEF a, p, s
  <2> QED
    BY <1>2, <2>1
<1>4. p - q \in Int
  BY <1>2
<1>5. r = s
  <2> HIDE DEF a, p, s
  <2> QED
    BY <1>2, <1>3, <1>4, SameRemainder
<1> QED
  BY <1>5

LEMMA NextRemainder ==
  ASSUME NEW a \in Nat, NEW c \in Nat \ {0}
  PROVE  (a + 1) % c = IF a % c = c - 1 THEN 0 ELSE (a % c) + 1
<1>1. a = c * (a \div c) + (a % c) /\ a \div c \in Nat /\ a % c \in 0 .. (c - 1)
  BY DivMod
<1>2. CASE a % c = c - 1
  <2>1. a + 1 = c * ((a \div c) + 1) + 0
    BY <1>1, <1>2
  <2>2. (a \div c) + 1 \in Nat /\ 0 \in 0 .. (c - 1)
    BY <1>1
  <2>3. (c * ((a \div c) + 1) + 0) % c = 0
    BY <2>2, Remainder
  <2> QED
    BY <1>2, <2>1, <2>3
<1>3. CASE a % c # c - 1
  <2>1. a + 1 = c * (a \div c) + ((a % c) + 1)
    BY <1>1
  <2>2. (a % c) + 1 \in 0 .. (c - 1)
    BY <1>1, <1>3
  <2>3. (c * (a \div c) + ((a % c) + 1)) % c = (a % c) + 1
    BY <1>1, <2>2, Remainder
  <2> QED
    BY <1>3, <2>1, <2>3
<1> QED
  BY <1>2, <1>3

-----------------------------------------------------------------------------
(* Which node each worker reads next. *)

\* A worker has moved its cursor by whole steps of the client count.
CursorInv == \A w \in Active : \E turns \in Nat : cursor[w] = Clients * turns + w

LEMMA NoTurns ==
  ASSUME NEW c \in Nat, NEW v \in Nat
  PROVE  c * 0 + v = v
OBVIOUS

LEMMA CursorStep == TypeInv /\ CursorInv /\ [Next]_vars => CursorInv'
<1> SUFFICES ASSUME TypeInv, CursorInv, [Next]_vars PROVE CursorInv'
  OBVIOUS
<1>0. level \in DOMAIN Levels /\ Clients \in Nat \ {0} /\ Active \subseteq Workers /\ Workers \subseteq Nat
  BY ClientFacts DEF Clients, Active, TypeInv, TypeOK
<1>1. ASSUME NEW w \in Workers, ReadReturns(w) PROVE CursorInv'
  <2>1. Clients' = Clients /\ Active' = Active /\ cursor' = [cursor EXCEPT ![w] = @ + Clients]
    BY <1>1 DEF ReadReturns, mainVars, Clients, Active
  <2> SUFFICES ASSUME NEW v \in Active PROVE \E turns \in Nat : cursor'[v] = Clients * turns + v
    BY <2>1 DEF CursorInv
  <2>2. PICK turns \in Nat : cursor[v] = Clients * turns + v
    BY DEF CursorInv
  <2>3. v \in Workers /\ v \in Nat /\ cursor \in [Workers -> Nat]
    BY <1>0 DEF TypeInv, TypeOK
  <2>4. CASE v = w
    <3>1. cursor'[v] = Clients * turns + v + Clients
      BY <2>1, <2>2, <2>3, <2>4
    <3>2. Clients * turns + v + Clients = Clients * (turns + 1) + v
      BY <1>0, <2>3
    <3> QED
      BY <3>1, <3>2
  <2>5. CASE v # w
    BY <2>1, <2>2, <2>3, <2>5
  <2> QED
    BY <2>4, <2>5
<1>2. CASE NextLevel
  <2>1. level + 1 \in DOMAIN Levels /\ level' = level + 1
    BY <1>0, <1>2, ClientFacts DEF NextLevel
  <2>2. Clients' \in Nat /\ Active' \subseteq Workers
    BY <2>1, ClientFacts DEF Clients, Active
  <2> SUFFICES ASSUME NEW v \in Active' PROVE cursor'[v] = Clients' * 0 + v
    BY DEF CursorInv
  <2>3. cursor'[v] = v /\ v \in Nat
    BY <1>0, <1>2, <2>2 DEF NextLevel, OwnIndex
  <2> QED
    BY <2>2, <2>3, NoTurns
<1>3. ASSUME UNCHANGED <<level, cursor>> PROVE CursorInv'
  BY <1>3 DEF CursorInv, Clients, Active
<1> QED
  BY <1>1, <1>2, <1>3
     DEF Next, MainStep, WorkerStep, PastBound, Stopped, Begin, Leave, WriteApplied, WriteReturns,
         WriteFails, LateWrite, Submit, TimeUp, Join, Interrupt, Raise, CleanupInOne, CountRows,
         Truncate, CleanupFails, vars, workerVars, mainVars

\* Cursors that start in different residues of the client count never meet in a list whose
\* length the client count divides.
LEMMA NeverMeet ==
  ASSUME NEW c \in Nat \ {0}, NEW n \in Nat \ {0}, n % c = 0,
         NEW v \in 0 .. (c - 1), NEW w \in 0 .. (c - 1), NEW j \in Nat, NEW k \in Nat,
         (c * j + v) % n = (c * k + w) % n
  PROVE  v = w
<1> DEFINE a == c * j + v
           b == c * k + w
           m == n \div c
<1>1. n = c * m /\ m \in Nat
  BY DivMod
<1>2. a \in Nat /\ b \in Nat
  <2>1. c * j \in Nat /\ c * k \in Nat
    OBVIOUS
  <2> QED
    BY <2>1
<1> DEFINE p == a \div n
           q == b \div n
<1>3. /\ a = n * p + (a % n) /\ b = n * q + (b % n)
      /\ p \in Nat /\ q \in Nat /\ a % n \in Nat /\ b % n \in Nat
  <2> HIDE DEF a, b
  <2> QED
    BY <1>2, DivMod
<1>4. a % n = b % n
  OBVIOUS
<1>5. a - b = n * (p - q)
  <2> HIDE DEF a, b, p, q
  <2> QED
    BY <1>2, <1>3, <1>4
<1>6. n * (p - q) = c * (m * (p - q))
  <2> HIDE DEF m, p, q
  <2> QED
    BY <1>1, <1>3
<1>7. c * (m * (p - q) - j + k) = v - w
  <2>1. c * j + v - (c * k + w) = c * (m * (p - q))
    BY <1>5, <1>6
  <2>2. m * (p - q) \in Int
    <3> HIDE DEF m, p, q
    <3> QED
      BY <1>1, <1>3
  <2> DEFINE x == m * (p - q)
  <2> HIDE DEF x
  <2>3. c * (x - j + k) = c * x - c * j + c * k /\ x \in Int
    BY <2>2 DEF x
  <2> QED
    BY <2>1, <2>3 DEF x
<1>8. m * (p - q) - j + k \in Int
  <2> HIDE DEF m, p, q
  <2> QED
    BY <1>1, <1>3
<1> HIDE DEF m, p, q
<1> QED
  BY <1>7, <1>8, SameRemainder

\* Workers never read the same start node when the client count divides the list.
THEOREM Disjoint == Spec => []SlicesDisjoint
<1>1. Init => CursorInv
  <2> SUFFICES ASSUME Init, NEW w \in Active PROVE cursor[w] = Clients * 0 + w
    BY DEF CursorInv
  <2>1. 1 \in DOMAIN Levels /\ level = 1
    BY LevelsAssumption DEF Init
  <2>2. Clients \in Nat /\ w \in Workers /\ w \in Nat
    BY <2>1, ClientFacts DEF Clients, Active
  <2>3. cursor[w] = w
    BY <2>2 DEF Init, OwnIndex
  <2> QED
    BY <2>2, <2>3, NoTurns
<1>2. IInv /\ CursorInv /\ [Next]_vars => CursorInv'
  BY CursorStep DEF IInv
<1>3. IInv /\ CursorInv => SlicesDisjoint
  <2> SUFFICES ASSUME IInv, CursorInv, NumNodes % Clients = 0, NEW v \in Active, NEW w \in Active,
                      cursor[v] % NumNodes = cursor[w] % NumNodes
               PROVE  v = w
    BY DEF SlicesDisjoint
  <2>1. Clients \in Nat \ {0}
    BY ClientFacts DEF Clients, IInv, TypeInv, TypeOK
  <2>2. PICK j \in Nat : cursor[v] = Clients * j + v
    BY DEF CursorInv
  <2>3. PICK k \in Nat : cursor[w] = Clients * k + w
    BY DEF CursorInv
  <2>4. (Clients * j + v) % NumNodes = (Clients * k + w) % NumNodes
    BY <2>2, <2>3
  <2>5. NumNodes \in Nat \ {0} /\ v \in 0 .. (Clients - 1) /\ w \in 0 .. (Clients - 1)
    BY BoundAssumption DEF Active
  <2>6. NumNodes % Clients = 0
    OBVIOUS
  <2> QED
    BY <2>1, <2>4, <2>5, <2>6, NeverMeet, Zenon
<1> QED
  BY <1>1, <1>2, <1>3, Inductive, PTL DEF Spec
-----------------------------------------------------------------------------
(* How far the reads of a worker are ahead of the requested ratio.          *)

\* Reads in excess of the ratio, scaled by the cycle length, after the operations so far ...
Excess(w) == Cycle * Cardinality(reads[w]) - ReadsPerCycle * counter[w]

\* ... and what it is when the next operation falls into a given slot of the cycle: it
\* climbs over the slots that read and falls back to nothing over those that write.
ExcessAt(slot) ==
  IF slot <= ReadsPerCycle THEN slot * (Cycle - ReadsPerCycle) ELSE (Cycle - slot) * ReadsPerCycle

RatioInv ==
  \A w \in Workers :
    /\ pc[w] = "idle" => counter[w] = 0 /\ reads[w] = {} /\ writes[w] = {}
    /\ pc[w] = "read" => IsRead(counter[w])
    /\ pc[w] \in {"write", "applied"} => ~IsRead(counter[w])
    /\ errors[w] = 0 => Excess(w) = ExcessAt(counter[w] % Cycle)

\* The excess is never negative and at most that of one cycle's reads.
LEMMA ExcessBounds ==
  ASSUME NEW s \in 0 .. (Cycle - 1)
  PROVE  /\ ExcessAt(s) \in Nat
         /\ ExcessAt(s) <= ReadsPerCycle * (Cycle - ReadsPerCycle)
<1> DEFINE p == ReadsPerCycle
           d == Cycle - ReadsPerCycle
<1>0. p \in Nat /\ d \in Nat /\ Cycle \in Nat
  BY CycleAssumption
<1>1. CASE s <= p
  <2>1. ExcessAt(s) = s * d /\ s \in Nat
    BY <1>1 DEF ExcessAt
  <2>2. s * d \in Nat
    <3> HIDE DEF d
    <3> QED
      BY <1>0, <2>1
  <2>3. s * d <= p * d
    <3>1. p * d = s * d + (p - s) * d /\ (p - s) \in Nat
      BY <1>0, <1>1
    <3>2. (p - s) * d \in Nat
      <4> HIDE DEF d, p
      <4> QED
        BY <1>0, <3>1
    <3> QED
      BY <2>2, <3>1, <3>2
  <2> QED
    BY <2>1, <2>2, <2>3
<1>2. CASE s > p
  <2>1. ExcessAt(s) = (Cycle - s) * p /\ Cycle - s \in Nat
    BY <1>0, <1>2 DEF ExcessAt
  <2>2. (Cycle - s) * p \in Nat
    BY <1>0, <2>1
  <2>3. p * d = (Cycle - s) * p + (s - p) * p /\ (s - p) \in Nat
    BY <1>0, <1>2
  <2>4. (s - p) * p \in Nat
    BY <1>0, <2>3
  <2> QED
    BY <2>1, <2>2, <2>3, <2>4
<1> QED
  BY <1>0, <1>1, <1>2

\* A read in a slot that reads raises the excess by what the ratio leaves to writes; a
\* write in a slot that writes lowers it by the ratio, back to nothing at the end.
LEMMA ExcessNext ==
  ASSUME NEW n \in Nat
  PROVE  /\ IsRead(n) => ExcessAt((n + 1) % Cycle) = ExcessAt(n % Cycle) + Cycle - ReadsPerCycle
         /\ ~IsRead(n) => ExcessAt((n + 1) % Cycle) = ExcessAt(n % Cycle) - ReadsPerCycle
<1> DEFINE s == n % Cycle
           t == (n + 1) % Cycle
<1>1. t = IF s = Cycle - 1 THEN 0 ELSE s + 1
  BY CycleAssumption, NextRemainder
<1>2. s \in 0 .. (Cycle - 1) /\ Cycle \in Nat \ {0} /\ ReadsPerCycle \in 0 .. Cycle
  BY CycleAssumption, DivMod
<1>3. IsRead(n) <=> s < ReadsPerCycle
  BY DEF IsRead
<1> HIDE DEF s, t
<1>4. ASSUME s < ReadsPerCycle PROVE ExcessAt(t) = ExcessAt(s) + Cycle - ReadsPerCycle
  <2>1. ExcessAt(s) = s * (Cycle - ReadsPerCycle)
    BY <1>2, <1>4 DEF ExcessAt
  <2>2. CASE s = Cycle - 1
    <3>1. ReadsPerCycle = Cycle /\ t = 0
      BY <1>1, <1>2, <1>4, <2>2
    <3> QED
      BY <1>2, <2>1, <3>1 DEF ExcessAt
  <2>3. CASE s # Cycle - 1
    <3>1. ExcessAt(t) = (s + 1) * (Cycle - ReadsPerCycle)
      BY <1>1, <1>2, <1>4, <2>3 DEF ExcessAt
    <3> QED
      BY <1>2, <2>1, <3>1
  <2> QED
    BY <2>2, <2>3
<1>5. ASSUME ~(s < ReadsPerCycle) PROVE ExcessAt(t) = ExcessAt(s) - ReadsPerCycle
  <2>1. ExcessAt(s) = (Cycle - s) * ReadsPerCycle
    BY <1>2, <1>5 DEF ExcessAt
  <2>2. CASE s = Cycle - 1
    <3>1. ExcessAt(t) = 0
      BY <1>1, <1>2, <2>2 DEF ExcessAt
    <3> QED
      BY <1>2, <2>1, <2>2, <3>1
  <2>3. CASE s # Cycle - 1
    <3>1. ExcessAt(t) = (Cycle - (s + 1)) * ReadsPerCycle
      BY <1>1, <1>2, <1>5, <2>3 DEF ExcessAt
    <3> QED
      BY <1>2, <2>1, <3>1
  <2> QED
    BY <2>2, <2>3
<1> QED
  BY <1>3, <1>4, <1>5 DEF s, t

\* What RatioInv says of one worker, and what it depends on.
RatioOf(w) ==
  /\ pc[w] = "idle" => counter[w] = 0 /\ reads[w] = {} /\ writes[w] = {}
  /\ pc[w] = "read" => IsRead(counter[w])
  /\ pc[w] \in {"write", "applied"} => ~IsRead(counter[w])
  /\ errors[w] = 0 => Excess(w) = ExcessAt(counter[w] % Cycle)

LEMMA RatioKept ==
  ASSUME NEW w \in Workers, RatioOf(w),
         pc'[w] = pc[w], counter'[w] = counter[w], reads'[w] = reads[w], writes'[w] = writes[w],
         errors'[w] = errors[w]
  PROVE  RatioOf(w)'
BY DEF RatioOf, Excess

\* An operation that succeeds moves the worker's excess as its slot says.
LEMMA RatioAfterRead ==
  ASSUME TypeInv, RowInv, CountInv, NEW w \in Workers, RatioOf(w), ReadReturns(w)
  PROVE  RatioOf(w)'
<1>1. /\ counter[w] \in Nat /\ errors[w] \in Nat /\ IsFiniteSet(reads[w])
      /\ counter[w] \notin reads[w] /\ IsRead(counter[w])
  BY DEF TypeInv, TypeOK, RowInv, CountInv, RatioOf, ReadReturns
<1>2. counter'[w] = counter[w] + 1 /\ pc'[w] = "check"
  BY DEF ReadReturns, Count, TypeInv, TypeOK
<1>3. \/ errors'[w] = errors[w] + 1
      \/ errors'[w] = errors[w] /\ reads'[w] = reads[w] \cup {counter[w]}
  BY DEF ReadReturns, Count, TypeInv, TypeOK
<1>4. ASSUME errors'[w] = 0 PROVE Excess(w)' = ExcessAt(counter'[w] % Cycle)
  <2>1. errors[w] = 0 /\ reads'[w] = reads[w] \cup {counter[w]}
    BY <1>1, <1>3, <1>4
  <2>2. Cardinality(reads'[w]) = Cardinality(reads[w]) + 1 /\ Cardinality(reads[w]) \in Nat
    BY <1>1, <2>1, FS_AddElement, FS_CardinalityType
  <2>3. Excess(w) = ExcessAt(counter[w] % Cycle)
    BY <2>1 DEF RatioOf
  <2>4. ExcessAt((counter[w] + 1) % Cycle) = ExcessAt(counter[w] % Cycle) + Cycle - ReadsPerCycle
    BY <1>1, ExcessNext
  <2>5. Excess(w)' = Excess(w) + Cycle - ReadsPerCycle
    <3>1. Excess(w)' = Cycle * (Cardinality(reads[w]) + 1) - ReadsPerCycle * (counter[w] + 1)
      BY <1>2, <2>2 DEF Excess
    <3> QED
      BY <1>1, <2>2, <3>1, CycleAssumption DEF Excess
  <2> QED
    BY <1>2, <2>3, <2>4, <2>5
<1> QED
  BY <1>2, <1>4 DEF RatioOf

LEMMA RatioAfterWrite ==
  ASSUME TypeInv, CountInv, NEW w \in Workers, RatioOf(w), WriteReturns(w) \/ WriteFails(w)
  PROVE  RatioOf(w)'
<1>1. /\ counter[w] \in Nat /\ errors[w] \in Nat /\ IsFiniteSet(reads[w])
      /\ ~IsRead(counter[w])
  <2>1. pc[w] \in {"write", "applied"}
    BY DEF WriteReturns, WriteFails
  <2>2. ~IsRead(counter[w])
    BY <2>1 DEF RatioOf
  <2> QED
    BY <2>2 DEF TypeInv, TypeOK, CountInv
<1>2. counter'[w] = counter[w] + 1 /\ pc'[w] = "check" /\ reads' = reads
  BY DEF WriteReturns, WriteFails, Count, TypeInv, TypeOK
<1>3. errors'[w] = errors[w] + 1 \/ errors'[w] = errors[w]
  BY DEF WriteReturns, WriteFails, Count, TypeInv, TypeOK
<1>4. ASSUME errors'[w] = 0 PROVE Excess(w)' = ExcessAt(counter'[w] % Cycle)
  <2>1. errors[w] = 0
    BY <1>1, <1>3, <1>4
  <2>2. Cardinality(reads[w]) \in Nat
    BY <1>1, FS_CardinalityType
  <2>3. Excess(w) = ExcessAt(counter[w] % Cycle)
    BY <2>1 DEF RatioOf
  <2>4. ExcessAt((counter[w] + 1) % Cycle) = ExcessAt(counter[w] % Cycle) - ReadsPerCycle
    BY <1>1, ExcessNext
  <2>5. Excess(w)' = Excess(w) - ReadsPerCycle
    <3>1. Excess(w)' = Cycle * Cardinality(reads[w]) - ReadsPerCycle * (counter[w] + 1)
      BY <1>2 DEF Excess
    <3> QED
      BY <1>1, <2>2, <3>1, CycleAssumption DEF Excess
  <2> QED
    BY <1>2, <2>3, <2>4, <2>5
<1> QED
  BY <1>2, <1>4 DEF RatioOf

\* A worker that has done nothing has no excess.
LEMMA RatioAtStart ==
  /\ \A w : counter[w] = 0 /\ reads[w] = {} => Excess(w) = ExcessAt(counter[w] % Cycle)
  /\ \A w : counter'[w] = 0 /\ reads'[w] = {} => Excess(w)' = ExcessAt(counter'[w] % Cycle)
<1>1. Cardinality({}) = 0
  BY FS_EmptySet
<1>2. 0 % Cycle = 0 /\ Cycle * 0 - ReadsPerCycle * 0 = 0
  BY CycleAssumption
<1>3. ExcessAt(0) = 0
  BY CycleAssumption DEF ExcessAt
<1> QED
  BY <1>1, <1>2, <1>3 DEF Excess

LEMMA RatioStep == IInv /\ RatioInv /\ [Next]_vars => RatioInv'
<1> SUFFICES ASSUME TypeInv, ThreadInv, RowInv, CountInv, RatioInv, [Next]_vars,
                    NEW w \in Workers
             PROVE  RatioOf(w)'
  BY DEF IInv, RatioInv, RatioOf
<1>0. /\ RatioOf(w)
      /\ pc \in [Workers -> WorkerStates] /\ counter \in [Workers -> 0 .. MaxOps]
      /\ errors \in [Workers -> 0 .. MaxOps] /\ submitted \in 0 .. Clients
      /\ reads \in [Workers -> SUBSET (0 .. MaxOps)] /\ writes \in [Workers -> SUBSET (0 .. MaxOps)]
  BY DEF RatioInv, RatioOf, TypeInv, TypeOK
<1>1. ASSUME NEW v \in Workers, WorkerStep(v) PROVE RatioOf(w)'
  <2>1. CASE v # w
    <3>1. /\ pc'[w] = pc[w] /\ counter'[w] = counter[w] /\ reads'[w] = reads[w]
          /\ writes'[w] = writes[w] /\ errors'[w] = errors[w]
      BY <1>0, <1>1, <2>1 DEF WorkerStep, Begin, PastBound, Leave, ReadReturns, WriteApplied,
         WriteReturns, WriteFails, Count, vars, workerVars
    <3> QED
      BY <1>0, <3>1, RatioKept
  <2>2. CASE v = w /\ ReadReturns(w)
    BY <1>0, <2>2, RatioAfterRead
  <2>3. CASE v = w /\ (WriteReturns(w) \/ WriteFails(w))
    BY <1>0, <2>3, RatioAfterWrite
  <2>4. CASE v = w /\ (Begin(w) \/ Leave(w) \/ WriteApplied(w))
    BY <1>0, <2>4 DEF Begin, Leave, WriteApplied, RatioOf, Excess
  <2>5. CASE PastBound(v)
    BY <1>0, <2>5, RatioKept DEF PastBound, vars, workerVars
  <2> QED
    BY <1>1, <2>1, <2>2, <2>3, <2>4, <2>5 DEF WorkerStep
<1>2. CASE Submit
  BY <1>0, <1>2 DEF Submit, RatioOf, Excess
<1>3. CASE NextLevel
  <2>1. w \in Workers' /\ pc'[w] = "idle" /\ counter'[w] = 0 /\ reads'[w] = {} /\ writes'[w] = {}
    BY <1>3 DEF NextLevel, ForAll
  <2> QED
    BY <2>1, RatioAtStart DEF RatioOf
<1>4. CASE UNCHANGED workerVars
  BY <1>0, <1>4, RatioKept DEF workerVars
<1> QED
  BY <1>1, <1>2, <1>3, <1>4
     DEF Next, MainStep, Stopped, LateWrite, TimeUp, Join, Interrupt, Raise, CleanupInOne,
         CountRows, Truncate, CleanupFails, vars

-----------------------------------------------------------------------------
(* From one worker to all of them.                                          *)

\* The operations of the workers below a bound.
Below(S, k) == {x \in S : x[1] < k}

\* The next worker's operations come on top of those below it.
LEMMA BelowNext ==
  ASSUME NEW done, NEW S, S = {x \in Workers \X (0 .. MaxOps) : x[2] \in done[x[1]]},
         NEW k \in Workers, Workers \subseteq Nat, done[k] \subseteq 0 .. MaxOps,
         IsFiniteSet(done[k]), IsFiniteSet(Below(S, k))
  PROVE  /\ IsFiniteSet(Below(S, k + 1))
         /\ Cardinality(Below(S, k + 1)) = Cardinality(Below(S, k)) + Cardinality(done[k])
<1> DEFINE own == {k} \X done[k]
<1>1. Below(S, k + 1) = Below(S, k) \cup own
  <2>1. ASSUME NEW x \in Below(S, k + 1) PROVE x \in Below(S, k) \cup own
    <3>1. x \in Workers \X (0 .. MaxOps) /\ x[2] \in done[x[1]] /\ x[1] < k + 1 /\ x \in S
      BY <2>1 DEF Below
    <3>2. CASE x[1] = k
      BY <3>1, <3>2
    <3>3. CASE x[1] # k
      <4>1. x[1] \in Nat /\ k \in Nat
        BY <3>1
      <4>2. x[1] < k
        BY <3>1, <3>3, <4>1
      <4> QED
        BY <3>1, <4>2 DEF Below
    <3> QED
      BY <3>2, <3>3
  <2>2. ASSUME NEW x \in Below(S, k) PROVE x \in Below(S, k + 1)
    <3>1. x \in S /\ x[1] \in Nat /\ x[1] < k /\ k \in Nat
      BY <2>2 DEF Below
    <3>2. x[1] < k + 1
      BY <3>1
    <3> QED
      BY <3>1, <3>2 DEF Below
  <2>3. ASSUME NEW x \in own PROVE x \in Below(S, k + 1)
    <3>1. x[1] = k /\ x[2] \in done[k] /\ x \in Workers \X (0 .. MaxOps)
      BY <2>3
    <3>2. x \in S /\ x[1] < k + 1
      BY <3>1
    <3> QED
      BY <3>2 DEF Below
  <2> QED
    BY <2>1, <2>2, <2>3
<1>2. Below(S, k) \cap own = {}
  BY DEF Below
<1>3. IsFiniteSet(own) /\ Cardinality(own) = Cardinality(done[k])
  <2>1. IsFiniteSet({k}) /\ Cardinality({k}) = 1
    BY FS_Singleton
  <2>2. IsFiniteSet(own) /\ Cardinality(own) = Cardinality({k}) * Cardinality(done[k])
    BY <2>1, FS_Product
  <2>3. Cardinality(done[k]) \in Nat
    BY FS_CardinalityType
  <2> HIDE DEF own
  <2> QED
    BY <2>1, <2>2, <2>3
<1> HIDE DEF own
<1>4. /\ IsFiniteSet(Below(S, k) \cup own)
      /\ Cardinality(Below(S, k) \cup own)
           = Cardinality(Below(S, k)) + Cardinality(own) - Cardinality(Below(S, k) \cap own)
  BY <1>3, FS_Union
<1>5. Cardinality(Below(S, k) \cap own) = 0
  BY <1>2, FS_EmptySet
<1>6. Cardinality(Below(S, k)) \in Nat /\ Cardinality(own) \in Nat
  BY <1>3, FS_CardinalityType
<1>7. Cardinality(Below(S, k) \cup own) = Cardinality(Below(S, k)) + Cardinality(own)
  BY <1>4, <1>5, <1>6
<1> QED
  BY <1>1, <1>3, <1>4, <1>7

\* What one error-free worker adds to the excess of the level.
LEMMA WorkerExcess ==
  ASSUME TypeInv, CountInv, RatioInv, NEW w \in Workers, errors[w] = 0
  PROVE  LET r == Cardinality(reads[w])
             n == Cardinality(writes[w])
         IN  /\ r \in Nat /\ n \in Nat
             /\ Cycle * r - ReadsPerCycle * (r + n) \in Nat
             /\ Cycle * r - ReadsPerCycle * (r + n) <= ReadsPerCycle * (Cycle - ReadsPerCycle)
<1> DEFINE r == Cardinality(reads[w])
           n == Cardinality(writes[w])
<1>1. r \in Nat /\ n \in Nat /\ r + n + errors[w] = counter[w]
  BY FS_CardinalityType DEF CountInv
<1>2. r + n = counter[w] /\ counter[w] \in Nat
  BY <1>1
<1>3. Excess(w) = Cycle * r - ReadsPerCycle * (r + n)
  BY <1>2 DEF Excess
<1>4. Excess(w) = ExcessAt(counter[w] % Cycle)
  BY DEF RatioInv
<1>5. counter[w] % Cycle \in 0 .. (Cycle - 1)
  BY <1>2, DivMod, CycleAssumption
<1> QED
  BY <1>1, <1>3, <1>4, <1>5, ExcessBounds

\* The excess of the workers below a bound.
ExcessBelow(k) ==
  LET r == Cardinality(Below(AllReads, k))
      n == Cardinality(Below(AllWrites, k))
  IN  Cycle * r - ReadsPerCycle * (r + n)

LEMMA ExcessSums ==
  ASSUME IInv, RatioInv, NoErrors
  PROVE  /\ ExcessBelow(Clients) \in Nat
         /\ ExcessBelow(Clients) <= Clients * (ReadsPerCycle * (Cycle - ReadsPerCycle))
<1> DEFINE most == ReadsPerCycle * (Cycle - ReadsPerCycle)
           S == {k \in Nat : k <= Clients =>
                   /\ IsFiniteSet(Below(AllReads, k)) /\ IsFiniteSet(Below(AllWrites, k))
                   /\ ExcessBelow(k) \in Nat /\ ExcessBelow(k) <= k * most}
<1>1. TypeInv /\ CountInv /\ Clients \in Nat /\ Active \subseteq Workers /\ Workers \subseteq Nat
  BY ClientFacts DEF Clients, Active, IInv, TypeInv, TypeOK
<1>2. most \in Nat
  <2>1. Cycle - ReadsPerCycle \in Nat /\ ReadsPerCycle \in Nat
    BY CycleAssumption
  <2> DEFINE d == Cycle - ReadsPerCycle
  <2> HIDE DEF d
  <2>2. ReadsPerCycle * d \in Nat
    BY <2>1 DEF d
  <2> QED
    BY <2>2 DEF d
<1>3. 0 \in S
  <2>1. Below(AllReads, 0) = {} /\ Below(AllWrites, 0) = {}
    <3>1. \A x \in AllReads \cup AllWrites : x[1] \in Nat
      BY <1>1 DEF AllReads, AllWrites
    <3>2. \A x \in AllReads \cup AllWrites : ~(x[1] < 0)
      BY <3>1
    <3> QED
      BY <3>2 DEF Below
  <2>2. IsFiniteSet({}) /\ Cardinality({}) = 0
    BY FS_EmptySet
  <2>3. ExcessBelow(0) = Cycle * 0 - ReadsPerCycle * (0 + 0)
    BY <2>1, <2>2 DEF ExcessBelow
  <2>4. Cycle * 0 - ReadsPerCycle * (0 + 0) = 0
    BY CycleAssumption
  <2>5. 0 * most = 0
    <3> HIDE DEF most
    <3> QED
      BY <1>2
  <2>6. ExcessBelow(0) \in Nat /\ ExcessBelow(0) <= 0 * most
    <3> HIDE DEF most
    <3> QED
      BY <2>3, <2>4, <2>5
  <2> QED
    BY <2>1, <2>2, <2>6
<1>4. ASSUME NEW k \in S PROVE k + 1 \in S
  <2> SUFFICES ASSUME k + 1 <= Clients
               PROVE  /\ IsFiniteSet(Below(AllReads, k + 1)) /\ IsFiniteSet(Below(AllWrites, k + 1))
                      /\ ExcessBelow(k + 1) \in Nat /\ ExcessBelow(k + 1) <= (k + 1) * most
    OBVIOUS
  <2>1. k \in Nat /\ k <= Clients /\ k \in Workers /\ errors[k] = 0
    <3>1. k \in Nat /\ k <= Clients /\ k \in 0 .. (Clients - 1)
      BY <1>1
    <3> QED
      BY <1>1, <3>1 DEF Active, NoErrors
  <2>2. /\ IsFiniteSet(Below(AllReads, k)) /\ IsFiniteSet(Below(AllWrites, k))
        /\ ExcessBelow(k) \in Nat /\ ExcessBelow(k) <= k * most
    BY <2>1
  <2>3. /\ reads[k] \subseteq 0 .. MaxOps /\ writes[k] \subseteq 0 .. MaxOps
        /\ IsFiniteSet(reads[k]) /\ IsFiniteSet(writes[k])
    BY <1>1, <2>1 DEF TypeInv, TypeOK, CountInv
  <2>4. /\ IsFiniteSet(Below(AllReads, k + 1))
        /\ Cardinality(Below(AllReads, k + 1))
             = Cardinality(Below(AllReads, k)) + Cardinality(reads[k])
    BY <1>1, <2>1, <2>2, <2>3, BelowNext DEF AllReads
  <2>5. /\ IsFiniteSet(Below(AllWrites, k + 1))
        /\ Cardinality(Below(AllWrites, k + 1))
             = Cardinality(Below(AllWrites, k)) + Cardinality(writes[k])
    BY <1>1, <2>1, <2>2, <2>3, BelowNext DEF AllWrites
  <2> DEFINE r == Cardinality(Below(AllReads, k))
             n == Cardinality(Below(AllWrites, k))
             a == Cardinality(reads[k])
             b == Cardinality(writes[k])
  <2>6. /\ a \in Nat /\ b \in Nat /\ Cycle * a - ReadsPerCycle * (a + b) \in Nat
        /\ Cycle * a - ReadsPerCycle * (a + b) <= most
    BY <1>1, <2>1, WorkerExcess
  <2>7. r \in Nat /\ n \in Nat /\ ExcessBelow(k) = Cycle * r - ReadsPerCycle * (r + n)
    BY <2>2, FS_CardinalityType DEF ExcessBelow
  <2>8. ExcessBelow(k + 1) = Cycle * (r + a) - ReadsPerCycle * ((r + a) + (n + b))
    BY <2>4, <2>5 DEF ExcessBelow
  <2> HIDE DEF r, n, a, b, most
  <2>9. ExcessBelow(k + 1) = ExcessBelow(k) + (Cycle * a - ReadsPerCycle * (a + b))
    BY <2>6, <2>7, <2>8, CycleAssumption
  <2>10. (k + 1) * most = k * most + most
    BY <1>2, <2>1
  <2>11. k * most \in Nat
    BY <1>2, <2>1
  <2> QED
    BY <1>2, <2>2, <2>4, <2>5, <2>6, <2>9, <2>10, <2>11
<1>5. S = Nat
  <2>1. S \in SUBSET Nat
    OBVIOUS
  <2> HIDE DEF S
  <2> QED
    BY <1>3, <1>4, <2>1, Induction
<1>6. Clients \in S
  BY <1>1, <1>5
<1> HIDE DEF most
<1> QED
  BY <1>1, <1>6 DEF most

\* Without errors the reads are never below the requested ratio and exceed it by less than
\* one cycle's worth for each client, wherever in its cycle each worker saw the event.
THEOREM RatioBound == Spec => []RatioWithinOneCycle
<1>1. Init => RatioInv
  BY RatioAtStart DEF Init, RatioInv, ForAll
<1>2. IInv /\ RatioInv => RatioWithinOneCycle
  <2> SUFFICES ASSUME IInv, RatioInv, main \in Settled, NoErrors
               PROVE  LET excess == Cycle * Cardinality(AllReads) - ReadsPerCycle * Operations
                      IN  /\ excess >= 0
                          /\ excess <= Clients * ReadsPerCycle * (Cycle - ReadsPerCycle)
    BY DEF RatioWithinOneCycle
  <2>1. Clients \in Nat /\ Workers \subseteq Nat /\ submitted = Clients
    BY ClientFacts DEF Clients, IInv, TypeInv, TypeOK, ThreadInv
  <2>2. \A w \in Workers : ~(w < Clients) => reads[w] = {} /\ writes[w] = {}
    BY <2>1 DEF IInv, ThreadInv, RatioInv
  <2>3. Below(AllReads, Clients) = AllReads /\ Below(AllWrites, Clients) = AllWrites
    BY <2>2 DEF Below, AllReads, AllWrites
  <2>4. ExcessBelow(Clients) = Cycle * Cardinality(AllReads) - ReadsPerCycle * Operations
    BY <2>3 DEF ExcessBelow, Operations
  <2>5. Clients * (ReadsPerCycle * (Cycle - ReadsPerCycle))
          = Clients * ReadsPerCycle * (Cycle - ReadsPerCycle)
    BY <2>1, CycleAssumption
  <2> QED
    BY <2>4, <2>5, ExcessSums
<1> QED
  BY <1>1, <1>2, RatioStep, Inductive, PTL DEF Spec

-----------------------------------------------------------------------------
(* Winding down: once the event is set, what is left for a worker to do     *)
(* only shrinks.                                                            *)

\* What a worker does is done to its own entries.
LEMMA OthersKeep ==
  ASSUME TypeOK, NEW v \in Workers, WorkerStep(v), NEW w \in Workers, w # v
  PROVE  pc'[w] = pc[w] /\ counter'[w] = counter[w]
<1>. USE DEF TypeOK
<1>1. CASE Begin(v) \/ PastBound(v) \/ Leave(v)
  BY <1>1 DEF Begin, PastBound, Leave, vars, workerVars
<1>2. CASE ReadReturns(v) \/ WriteReturns(v) \/ WriteFails(v)
  BY <1>2 DEF ReadReturns, WriteReturns, WriteFails, Count
<1>3. CASE WriteApplied(v)
  BY <1>3 DEF WriteApplied
<1>. QED  BY <1>1, <1>2, <1>3 DEF WorkerStep

\* A worker that does something while the event is set comes nearer to its end.
LEMMA WorkerNearer ==
  ASSUME TypeOK, stop, NEW w \in Workers, WorkerStep(w)
  PROVE  Begun(w)' <= Begun(w) /\ StepsLeft(pc'[w]) < StepsLeft(pc[w])
<1>0. /\ pc \in [Workers -> WorkerStates] /\ counter \in [Workers -> 0 .. MaxOps]
      /\ counter[w] \in Nat
  BY BoundAssumption DEF TypeOK
<1>1. CASE Leave(w)
  <2>1. pc[w] = "check" /\ pc'[w] = "done" /\ counter'[w] = counter[w]
    BY <1>0, <1>1 DEF Leave
  <2>. QED  BY <1>0, <2>1 DEF Begun, Busy, StepsLeft
<1>2. CASE ReadReturns(w) \/ WriteReturns(w) \/ WriteFails(w)
  <2>1. pc[w] \in Busy /\ pc'[w] = "check" /\ counter'[w] = counter[w] + 1
    BY <1>0, <1>2 DEF ReadReturns, WriteReturns, WriteFails, Count, Busy
  <2>. QED  BY <1>0, <2>1 DEF Begun, Busy, StepsLeft
<1>3. CASE WriteApplied(w)
  <2>1. pc[w] = "write" /\ pc'[w] = "applied" /\ counter'[w] = counter[w]
    BY <1>0, <1>3 DEF WriteApplied
  <2>. QED  BY <1>0, <2>1 DEF Begun, Busy, StepsLeft
<1>. QED  BY <1>1, <1>2, <1>3 DEF WorkerStep, Begin, PastBound

\* A step of another thread leaves a worker where it is, once the event is set.
LEMMA OthersStep ==
  ASSUME TypeOK, ThreadInv, [Next]_vars, stop, stop', NEW w \in Workers, ~WorkerStep(w)
  PROVE  pc'[w] = pc[w] /\ counter'[w] = counter[w]
<1>1. ASSUME NEW v \in Workers, WorkerStep(v) PROVE pc'[w] = pc[w] /\ counter'[w] = counter[w]
  BY <1>1, OthersKeep
<1>2. ~Submit /\ ~NextLevel
  BY DEF Submit, NextLevel, ThreadInv
<1>3. CASE TimeUp \/ Join \/ CleanupInOne \/ CountRows \/ Truncate \/ CleanupFails \/ Raise
  BY <1>3 DEF TimeUp, Join, CleanupInOne, CountRows, Truncate, CleanupFails, Raise, workerVars
<1>4. CASE LateWrite \/ Interrupt \/ Stopped \/ UNCHANGED vars
  BY <1>4 DEF LateWrite, Interrupt, Stopped, vars, workerVars
<1>. QED  BY <1>1, <1>2, <1>3, <1>4 DEF Next, MainStep

\* A level winds down once its time is up: after the event every worker finishes at most
\* the operation it is in, and leaves its loop after at most three steps.
THEOREM EventEndsLoops == Spec => WindsDown
<1>1. IInv /\ [Next]_vars =>
        [stop /\ stop' => \A w \in Workers :
           /\ Begun(w)' <= Begun(w)
           /\ StepsLeft(pc'[w]) <= StepsLeft(pc[w])
           /\ WorkerStep(w) => StepsLeft(pc'[w]) < StepsLeft(pc[w])]_vars
  <2>. SUFFICES ASSUME IInv, [Next]_vars, stop, stop', NEW w \in Workers
                PROVE  /\ Begun(w)' <= Begun(w)
                       /\ StepsLeft(pc'[w]) <= StepsLeft(pc[w])
                       /\ WorkerStep(w) => StepsLeft(pc'[w]) < StepsLeft(pc[w])
    OBVIOUS
  <2>0. TypeOK /\ ThreadInv
    BY DEF IInv, TypeInv
  <2>1. StepsLeft(pc[w]) \in Nat /\ StepsLeft(pc'[w]) \in Nat
    BY DEF StepsLeft
  <2>2. CASE WorkerStep(w)
    BY <2>0, <2>1, <2>2, WorkerNearer
  <2>3. CASE ~WorkerStep(w)
    <3>1. pc'[w] = pc[w] /\ counter'[w] = counter[w]
      BY <2>0, <2>3, OthersStep
    <3>2. counter[w] \in Nat
      BY <2>0, BoundAssumption DEF TypeOK
    <3>. QED  BY <2>1, <2>3, <3>1, <3>2 DEF Begun
  <2>. QED  BY <2>2, <2>3
<1>. QED  BY <1>1, Inductive, PTL DEF Spec, WindsDown
=============================================================================
