--------------------------- MODULE JobQueueProofs ---------------------------
(***************************************************************************)
(* Theorems about JobQueue, for any queues, jobs, workers, nodes and       *)
(* bounds.  The invariants are proved in layers: first that the tables     *)
(* stay well formed (TableInv), from it that every step changes each row   *)
(* in one of nine ways (RowStep), and then everything else row by row.     *)
(***************************************************************************)
EXTENDS JobQueue, JobTableProofs, FiniteSetTheorems

USE DEF Queued, Pending, Finished

\* dlq_fkey, and the foreign key of the queue table, which the copy of a failed
\* job relies on: the dead-letter queue it names exists.
ForeignKeys ==
  \A j \in Rows(job) : job[j].dead_letter # NULL => queue[job[j].dead_letter] # NULL

TableInv == TypeOK /\ ForeignKeys

\* What one step may do to the row of j.
Uncounted(j) == claims'[j] = claims[j] /\ resumes'[j] = resumes[j]

RowStep(j) ==
  \/ job'[j] = job[j] /\ Uncounted(j)
  \/ /\ job[j] = Unused /\ job'[j] \in JobRow /\ Uncounted(j)
     /\ job'[j].state = "created" /\ job'[j].retry_count = 0
     /\ job'[j].started_on = NULL /\ job'[j].completed_on = NULL
     /\ job'[j].dead_letter # NULL => queue[job'[j].dead_letter] # NULL
  \/ /\ j \in Rows(job)
     /\ \/ /\ job[j].state \in Queued /\ job'[j] = Claimed(job[j], now)
           /\ claims'[j] = claims[j] + 1 /\ resumes'[j] = resumes[j]
        \/ /\ job[j].state = "active" /\ job'[j] = CompletedRow(job[j], now) /\ Uncounted(j)
        \/ /\ job[j].state = "active" /\ Uncounted(j)
           /\ \E delay \in Nat : job'[j] = RetryOrFail(job[j], now, delay)
        \/ /\ job[j].state \in Pending /\ job'[j] = CancelledRow(job[j], now) /\ Uncounted(j)
        \/ /\ job[j].state = "cancelled" /\ job'[j] = ResumedRow(job[j])
           /\ claims'[j] = claims[j] /\ resumes'[j] = resumes[j] + 1
        \/ /\ "retry" \in AdminOps
           /\ job[j].state = "failed" /\ job'[j] = RetriedRow(job[j]) /\ Uncounted(j)
        \/ /\ job'[j] = Deleted /\ Uncounted(j)
           /\ "delete" \in AdminOps \/ Purgeable(job[j], now)

-----------------------------------------------------------------------------
\* The ids Rows picks out hold rows, and no others do.
LEMMA RowsAreRows ==
  ASSUME TypeOK
  PROVE  /\ \A j \in Rows(job) : j \in JobId /\ job[j] \in JobRow
         /\ \A j \in JobId : job[j] \in JobRow => j \in Rows(job)
BY RowIsNoMarker DEF TypeOK, Rows

\* A failing transaction on a set S of active rows retries or fails the jobs of
\* S, inserts dead letters under unused ids, and touches nothing else.
LEMMA FailingRows ==
  ASSUME TableInv, NEW S, \A j \in S : Active(j), NEW table \in FailedTables(S)
  PROVE  /\ table \in [JobId -> JobRow \cup {Unused, Deleted}]
         /\ \A j \in S : \E delay \in Nat : table[j] = RetryOrFail(job[j], now, delay)
         /\ \A j \in JobId \ S : table[j] # job[j] =>
              /\ job[j] = Unused
              /\ \E q \in Queue, i \in S :
                   /\ queue[q] # NULL
                   /\ table[j] = DeadLetterRow(q, queue[q], job[i], now)
<1>1. PICK delay \in Delays(S), source \in CopySources(S) : table = AfterFailing(S, delay, source)
  BY DEF FailedTables
<1>2. \A j \in S : j \in JobId /\ job[j] \in JobRow
  BY RowsAreRows DEF TableInv, Active
<1>3. \A j \in S : delay[j] \in Nat
  BY <1>2, RetryDelaysType DEF Delays
<1>4. PICK N \in SUBSET FreeIds(job) : source \in [N -> Routed(S)]
  BY DEF CopySources, kSubset, Bijection, Injection
<1>5. \A j \in S : table[j] = RetryOrFail(job[j], now, delay[j])
  BY <1>1, <1>2 DEF AfterFailing
<1>6. ASSUME NEW j \in N
      PROVE  /\ j \in JobId /\ job[j] = Unused /\ j \notin S
             /\ \E q \in Queue, i \in S :
                  /\ queue[q] # NULL
                  /\ table[j] = DeadLetterRow(q, queue[q], job[i], now)
  <2>1. j \in JobId /\ job[j] = Unused
    BY <1>4 DEF FreeIds
  <2>2. j \notin S
    BY <1>2, <2>1, RowIsNoMarker
  <2> DEFINE i == source[j]
             q == job[i].dead_letter
  <2>3. i \in S /\ q # NULL
    BY <1>4 DEF Routed
  <2>4. q \in Queue /\ queue[q] # NULL
    <3>1. job[i] \in JobRow /\ i \in Rows(job)
      BY <1>2, <2>3 DEF Active
    <3> QED
      BY <2>3, <3>1 DEF TableInv, ForeignKeys, JobRow
  <2>5. table[j] = DeadLetterRow(q, queue[q], job[i], now)
    BY <1>1, <1>4, <2>1, <2>2 DEF AfterFailing
  <2> QED
    BY <2>1, <2>2, <2>3, <2>4, <2>5
<1>7. \A j \in JobId \ S : j \notin N => table[j] = job[j]
  BY <1>1, <1>4 DEF AfterFailing
<1>8. ASSUME NEW j \in JobId
      PROVE  table[j] \in JobRow \cup {Unused, Deleted}
  <2>1. CASE j \in S
    <3>1. job[j] \in JobRow /\ delay[j] \in Nat /\ now \in Nat
      BY <1>2, <1>3, <2>1 DEF TableInv, TypeOK
    <3>2. RetryOrFail(job[j], now, delay[j]) \in JobRow
      BY <3>1, UpdatedRowTypes
    <3> QED
      BY <1>5, <2>1, <3>2
  <2>2. CASE j \in N
    <3>1. PICK q \in Queue, i \in S :
            queue[q] # NULL /\ table[j] = DeadLetterRow(q, queue[q], job[i], now)
      BY <1>6, <2>2
    <3>2. queue[q] \in QueueRow /\ now \in Nat
      BY <3>1 DEF TableInv, TypeOK
    <3> QED
      BY <1>2, <3>1, <3>2, DeadLetterRowType
  <2>3. CASE j \notin S /\ j \notin N
    BY <1>7, <2>3 DEF TableInv, TypeOK
  <2> QED
    BY <2>1, <2>2, <2>3
<1>9. table \in [JobId -> JobRow \cup {Unused, Deleted}]
  <2>1. table = [j \in JobId |-> table[j]]
    BY <1>1 DEF AfterFailing
  <2> QED
    BY <1>8, <2>1
<1> QED
  BY <1>3, <1>5, <1>6, <1>7, <1>9

\* Every step of Next does to each row one of the things RowStep lists.
LEMMA StepsAreRowSteps ==
  ASSUME TableInv, [Next]_vars
  PROVE  \A j \in JobId : RowStep(j)
<1> SUFFICES ASSUME NEW j \in JobId PROVE RowStep(j)
  OBVIOUS
<1> USE RowsAreRows, ParametersAssumption DEF TableInv
<1> DEFINE typed == job \in [JobId -> JobRow \cup {Unused, Deleted}]
                    /\ claims \in [JobId -> Nat] /\ resumes \in [JobId -> Nat]
<1>typed. typed
  BY DEF TypeOK
<1>1. ASSUME NEW q \in Queue, InsertJobs(q) PROVE RowStep(j)
  <2>0. PICK N \in SUBSET FreeIds(job) : \E spec \in [N -> JobSpecs[q]] :
          /\ \A i \in N : Accepted(q, spec[i])
          /\ job' = [i \in JobId |-> IF i \in N THEN NewRow(q, queue[q], spec[i], now)
                                                ELSE job[i]]
    BY <1>1 DEF InsertJobs
  <2>1. PICK spec \in [N -> JobSpecs[q]] :
          /\ \A i \in N : Accepted(q, spec[i])
          /\ job' = [i \in JobId |-> IF i \in N THEN NewRow(q, queue[q], spec[i], now)
                                                ELSE job[i]]
    BY <2>0
  <2>2. Uncounted(j)
    BY <1>1 DEF InsertJobs, Uncounted
  <2>3. CASE j \in N
    <3>1. queue[q] \in QueueRow /\ now \in Nat /\ spec[j] \in JobSpec
      BY <1>1, <2>3 DEF InsertJobs, TypeOK
    <3>2. NewRow(q, queue[q], spec[j], now) \in JobRow
      BY <3>1, NewRowType
    <3>3. job[j] = Unused /\ job'[j] = NewRow(q, queue[q], spec[j], now)
      BY <2>1, <2>3 DEF FreeIds
    <3>4. /\ job'[j].state = "created" /\ job'[j].retry_count = 0
          /\ job'[j].started_on = NULL /\ job'[j].completed_on = NULL
      BY <3>3 DEF NewRow
    <3>5. job'[j].dead_letter # NULL => queue[job'[j].dead_letter] # NULL
      BY <2>1, <2>3, <3>3 DEF Accepted
    <3> QED
      BY <2>2, <3>2, <3>3, <3>4, <3>5 DEF RowStep
  <2>4. CASE j \notin N
    BY <2>1, <2>2, <2>4 DEF RowStep
  <2> QED
    BY <2>3, <2>4
<1>2. ASSUME NEW w \in Worker, FetchNextJob(w) PROVE RowStep(j)
  <2>1. PICK S \in SUBSET {i \in Rows(job) : Fetchable(job[i], WorkQueue[w], now)} \ {{}} :
          /\ job' = [i \in JobId |-> IF i \in S THEN Claimed(job[i], now) ELSE job[i]]
          /\ claims' = [i \in JobId |-> IF i \in S THEN claims[i] + 1 ELSE claims[i]]
    BY <1>2 DEF FetchNextJob
  <2>2. resumes' = resumes
    BY <1>2 DEF FetchNextJob
  <2> QED
    BY <2>1, <2>2 DEF RowStep, Uncounted, Fetchable
<1>3. ASSUME NEW w \in Worker, Complete(w) PROVE RowStep(j)
  BY <1>3 DEF Complete, Settling, Active, RowStep, Uncounted
<1>4. ASSUME NEW S \in SUBSET {i \in JobId : Active(i)}, NEW table \in FailedTables(S),
             job' = table \/ job' = job, UNCHANGED <<claims, resumes>>
      PROVE  RowStep(j)
  <2>1. Uncounted(j)
    BY <1>4 DEF Uncounted
  <2>2. CASE job' = job
    BY <2>1, <2>2 DEF RowStep
  <2>3. CASE job' = table /\ j \in S
    BY <2>1, <2>3, FailingRows DEF RowStep, Active
  <2>4. CASE job' = table /\ j \notin S /\ job'[j] # job[j]
    <3>1. PICK q \in Queue, i \in S :
            queue[q] # NULL /\ table[j] = DeadLetterRow(q, queue[q], job[i], now)
      BY <2>4, FailingRows
    <3>2. job[j] = Unused
      BY <2>4, FailingRows
    <3>3. queue[q] \in QueueRow /\ now \in Nat /\ job[i] \in JobRow
      BY <3>1 DEF TypeOK, Active
    <3>4. table[j] \in JobRow
      BY <3>1, <3>3, DeadLetterRowType
    <3>5. /\ job'[j].state = "created" /\ job'[j].retry_count = 0
          /\ job'[j].started_on = NULL /\ job'[j].completed_on = NULL
          /\ job'[j].dead_letter = NULL
      BY <2>4, <3>1 DEF DeadLetterRow
    <3> QED
      BY <2>1, <2>4, <3>2, <3>4, <3>5 DEF RowStep
  <2>5. CASE job' = table /\ j \notin S /\ job'[j] = job[j]
    BY <2>1, <2>5 DEF RowStep
  <2> QED
    BY <1>4, <2>2, <2>3, <2>4, <2>5
<1>5. ASSUME NEW w \in Worker, Fail(w) PROVE RowStep(j)
  <2>1. Settling(w) \in SUBSET {i \in JobId : Active(i)}
    BY DEF Settling, Batch
  <2>2. PICK table \in FailedTables(Settling(w)) : job' = table \/ job' = job
    BY <1>5 DEF Fail
  <2> QED
    BY <1>4, <1>5, <2>1, <2>2 DEF Fail
<1>6. ASSUME NEW n \in Node, FailExpired(n) PROVE RowStep(j)
  <2>1. LapsedJobs \in SUBSET {i \in JobId : Active(i)}
    BY DEF LapsedJobs, Lapsed, Active
  <2>2. PICK table \in FailedTables(LapsedJobs) : job' = table \/ job' = job
    BY <1>6 DEF FailExpired
  <2> QED
    BY <1>4, <1>6, <2>1, <2>2 DEF FailExpired
<1>7. ASSUME NEW n \in Node, DeleteOld(n) PROVE RowStep(j)
  BY <1>7 DEF DeleteOld, RowStep, Uncounted
<1>8. ASSUME NEW i \in JobId, Administer(i) PROVE RowStep(j)
  <2>1. CASE CancelJob(i)
    BY <2>1, <1>typed DEF CancelJob, RowStep, Uncounted
  <2>2. CASE ResumeJob(i)
    BY <2>2, <1>typed DEF ResumeJob, RowStep, Uncounted
  <2>3. CASE RetryJob(i)
    BY <2>3, <1>typed DEF RetryJob, RowStep, Uncounted
  <2>4. CASE CompleteJob(i)
    BY <2>4, <1>typed DEF CompleteJob, Active, RowStep, Uncounted
  <2>5. CASE DeleteJob(i)
    BY <2>5, <1>typed DEF DeleteJob, RowStep, Uncounted
  <2> QED
    BY <1>8, <2>1, <2>2, <2>3, <2>4, <2>5 DEF Administer
<1>9. ASSUME UNCHANGED <<job, claims, resumes>> PROVE RowStep(j)
  BY <1>9 DEF RowStep, Uncounted
<1>10. ASSUME Next PROVE RowStep(j)
  <2>1. CASE Produce
    BY <2>1, <1>1, <1>9 DEF Produce, CreateQueue
  <2>2. ASSUME NEW w \in Worker, Work(w) PROVE RowStep(j)
    BY <2>2, <1>2, <1>3, <1>5, <1>9 DEF Work, Abandon
  <2>3. ASSUME NEW n \in Node, Sweep(n) PROVE RowStep(j)
    BY <2>3, <1>6, <1>7, <1>9 DEF Sweep, AbortSweep
  <2>4. CASE Tick
    BY <2>4, <1>9 DEF Tick
  <2> QED
    BY <1>10, <1>8, <2>1, <2>2, <2>3, <2>4 DEF Next
<1> QED
  BY <1>9, <1>10 DEF vars

-----------------------------------------------------------------------------
(* Layer one: the tables stay well formed. *)

\* A step leaves each row a row, and a row it found keeps its dead letter.
LEMMA RowStepType ==
  ASSUME TableInv, NEW j \in JobId, RowStep(j)
  PROVE  /\ job'[j] \in JobRow \cup {Unused, Deleted}
         /\ claims'[j] \in Nat /\ resumes'[j] \in Nat
         /\ job'[j] \in JobRow /\ job[j] # Unused =>
              j \in Rows(job) /\ job'[j].dead_letter = job[j].dead_letter
<1> USE DEF TableInv
<1>1. claims[j] \in Nat /\ resumes[j] \in Nat /\ now \in Nat
  BY DEF TypeOK
<1>2. claims'[j] \in Nat /\ resumes'[j] \in Nat
  BY <1>1 DEF RowStep, Uncounted
<1>3. CASE job[j] \notin JobRow
  <2>1. job[j] \in {Unused, Deleted} /\ j \notin Rows(job)
    BY <1>3, RowsAreRows DEF TypeOK
  <2> QED
    BY <1>2, <1>3, <2>1 DEF RowStep
<1>4. CASE job[j] \in JobRow
  <2>1. j \in Rows(job) /\ job[j] # Unused
    BY <1>4, RowsAreRows, RowIsNoMarker
  <2> DEFINE Keeps(row) == row \in JobRow /\ row.dead_letter = job[j].dead_letter
  <2>2. ASSUME NEW delay \in Nat PROVE Keeps(RetryOrFail(job[j], now, delay))
    <3>1. RetryOrFail(job[j], now, delay) \in JobRow
      BY <1>1, <1>4, UpdatedRowTypes
    <3> QED
      BY <1>4, <3>1 DEF RetryOrFail, JobRow
  <2>3. Keeps(Claimed(job[j], now)) /\ Keeps(CompletedRow(job[j], now))
        /\ Keeps(CancelledRow(job[j], now)) /\ Keeps(ResumedRow(job[j]))
        /\ Keeps(RetriedRow(job[j]))
    <3>1. /\ Claimed(job[j], now) \in JobRow /\ CompletedRow(job[j], now) \in JobRow
          /\ CancelledRow(job[j], now) \in JobRow /\ ResumedRow(job[j]) \in JobRow
          /\ RetriedRow(job[j]) \in JobRow
      BY <1>1, <1>4, UpdatedRowTypes
    <3> QED
      BY <1>4, <3>1 DEF Claimed, CompletedRow, CancelledRow, ResumedRow, RetriedRow, JobRow
  <2>4. Keeps(job'[j]) \/ job'[j] = Deleted
    <3> HIDE DEF Keeps
    <3>1. Keeps(job[j])
      BY <1>4 DEF Keeps
    <3> QED
      BY <2>1, <2>2, <2>3, <3>1 DEF RowStep
  <2> QED
    BY <1>2, <2>1, <2>4, RowIsNoMarker
<1> QED
  BY <1>3, <1>4

\* Every action writes whole tables, over the same ids as before.
LEMMA TablesKeepTheirIds ==
  ASSUME TypeOK, [Next]_vars
  PROVE  /\ job' = [j \in JobId |-> job'[j]]
         /\ claims' = [j \in JobId |-> claims'[j]]
         /\ resumes' = [j \in JobId |-> resumes'[j]]
<1> DEFINE Kept(f) == f = [j \in JobId |-> f[j]]
<1> SUFFICES Kept(job') /\ Kept(claims') /\ Kept(resumes')
  OBVIOUS
<1>0. Kept(job) /\ Kept(claims) /\ Kept(resumes)
  BY DEF TypeOK
<1>1. ASSUME NEW S, NEW table \in FailedTables(S) PROVE Kept(table)
  BY <1>1 DEF FailedTables, AfterFailing
<1>2. CASE \E q \in Queue : InsertJobs(q)
  BY <1>0, <1>2 DEF InsertJobs
<1>3. ASSUME NEW w \in Worker, Work(w) PROVE Kept(job') /\ Kept(claims') /\ Kept(resumes')
  <2>1. CASE FetchNextJob(w)
    BY <1>0, <2>1 DEF FetchNextJob
  <2>2. CASE Complete(w)
    BY <1>0, <2>2 DEF Complete
  <2>3. CASE Fail(w)
    BY <1>0, <1>1, <2>3 DEF Fail
  <2>4. CASE Abandon(w)
    BY <1>0, <2>4 DEF Abandon
  <2> QED
    BY <1>3, <2>1, <2>2, <2>3, <2>4 DEF Work
<1>4. ASSUME NEW n \in Node, Sweep(n) PROVE Kept(job') /\ Kept(claims') /\ Kept(resumes')
  <2>1. CASE FailExpired(n)
    BY <1>0, <1>1, <2>1 DEF FailExpired
  <2>2. CASE DeleteOld(n)
    BY <1>0, <2>2 DEF DeleteOld
  <2>3. CASE AbortSweep(n)
    BY <1>0, <2>3 DEF AbortSweep
  <2> QED
    BY <1>4, <2>1, <2>2, <2>3 DEF Sweep
<1>5. ASSUME NEW j \in JobId, Administer(j)
      PROVE  Kept(job') /\ Kept(claims') /\ Kept(resumes')
  BY <1>0, <1>5 DEF Administer, CancelJob, ResumeJob, RetryJob, CompleteJob, DeleteJob
<1>6. CASE UNCHANGED <<job, claims, resumes>>
  BY <1>0, <1>6
<1> QED
  BY <1>2, <1>3, <1>4, <1>5, <1>6 DEF Next, Produce, CreateQueue, Tick, vars

\* The columns of the model that are no job table keep their types, and a queue
\* once created stays.
LEMMA OtherTypes ==
  ASSUME TypeOK, [Next]_vars
  PROVE  /\ now' \in Nat
         /\ queue' \in [Queue -> QueueRow \cup {NULL}]
         /\ held' \in [Worker -> [JobId -> Nat]]
         /\ sweeping' \in [Node -> {"idle", "delete"}]
         /\ \A q \in Queue : queue[q] # NULL => queue'[q] # NULL
<1> USE DEF TypeOK
<1>1. ASSUME NEW q \in Queue, NEW options \in QueueOptions[q], CreateQueue(q, options)
      PROVE  /\ queue' \in [Queue -> QueueRow \cup {NULL}]
             /\ \A p \in Queue : queue[p] # NULL => queue'[p] # NULL
             /\ UNCHANGED <<now, held, sweeping>>
  BY <1>1, ParametersAssumption DEF CreateQueue
<1>2. ASSUME NEW w \in Worker, Work(w)
      PROVE  held' \in [Worker -> [JobId -> Nat]] /\ UNCHANGED <<now, queue, sweeping>>
  <2>1. CASE FetchNextJob(w)
    BY <2>1 DEF FetchNextJob
  <2>2. CASE Complete(w) \/ Fail(w) \/ Abandon(w)
    BY <2>2 DEF Complete, Fail, Abandon, NoBatch
  <2> QED
    BY <1>2, <2>1, <2>2 DEF Work
<1>3. ASSUME NEW n \in Node, Sweep(n)
      PROVE  sweeping' \in [Node -> {"idle", "delete"}] /\ UNCHANGED <<now, queue, held>>
  BY <1>3 DEF Sweep, FailExpired, DeleteOld, AbortSweep
<1>4. ASSUME NEW j \in JobId, Administer(j) PROVE UNCHANGED <<now, queue, held, sweeping>>
  BY <1>4 DEF Administer, CancelJob, ResumeJob, RetryJob, CompleteJob, DeleteJob
<1>5. ASSUME NEW q \in Queue, InsertJobs(q) PROVE UNCHANGED <<now, queue, held, sweeping>>
  BY <1>5 DEF InsertJobs
<1>6. CASE Tick
  BY <1>6 DEF Tick
<1>7. CASE UNCHANGED vars
  BY <1>7 DEF vars
<1> QED
  <2>1. CASE Produce
    BY <1>1, <1>5, <2>1 DEF Produce
  <2>2. CASE \E w \in Worker : Work(w)
    BY <1>2, <2>2
  <2>3. CASE \E n \in Node : Sweep(n)
    BY <1>3, <2>3
  <2>4. CASE \E j \in JobId : Administer(j)
    BY <1>4, <2>4
  <2> QED
    BY <1>6, <1>7, <2>1, <2>2, <2>3, <2>4 DEF Next

LEMMA TableInvInductive ==
  ASSUME TableInv, [Next]_vars
  PROVE  TableInv'
<1>1. \A j \in JobId : RowStep(j)
  BY StepsAreRowSteps
<1>2. TypeOK'
  <2>1. \A j \in JobId : /\ job'[j] \in JobRow \cup {Unused, Deleted}
                         /\ claims'[j] \in Nat /\ resumes'[j] \in Nat
    BY <1>1, RowStepType
  <2>2. /\ job' \in [JobId -> JobRow \cup {Unused, Deleted}]
        /\ claims' \in [JobId -> Nat] /\ resumes' \in [JobId -> Nat]
    BY <2>1, TablesKeepTheirIds DEF TableInv
  <2> QED
    BY <2>2, OtherTypes DEF TableInv, TypeOK
<1>3. ForeignKeys'
  <2> SUFFICES ASSUME NEW j \in JobId, job'[j] \in JobRow, job'[j].dead_letter # NULL
               PROVE  queue'[job'[j].dead_letter] # NULL
    <3>1. \A j \in Rows(job)' : j \in JobId /\ job'[j] \in JobRow
      BY <1>2 DEF Rows, TypeOK
    <3> QED
      BY <3>1 DEF ForeignKeys
  <2>1. job'[j].dead_letter \in Queue
    BY DEF JobRow
  <2>2. queue[job'[j].dead_letter] # NULL
    <3>1. CASE job[j] = Unused
      BY <1>1, <3>1, RowIsNoMarker DEF RowStep, Rows
    <3>2. CASE job[j] # Unused
      BY <1>1, <3>2, RowStepType DEF TableInv, ForeignKeys
    <3> QED
      BY <3>1, <3>2
  <2> QED
    BY <2>1, <2>2, OtherTypes DEF TableInv
<1> QED
  BY <1>2, <1>3 DEF TableInv

LEMMA TableInvInitially == Init => TableInv
BY DEF Init, TableInv, TypeOK, ForeignKeys, Rows, NoBatch

\* The tables stay well formed and the foreign keys hold, in every reachable state.
THEOREM TablesWellFormed == Spec => []TableInv
<1>1. TableInv /\ [Next]_vars => TableInv'
  BY TableInvInductive
<1> QED
  BY <1>1, TableInvInitially, PTL DEF Spec

\* Type correctness of the model of the job and queue tables.
THEOREM TypeCorrect == Spec => []TypeOK
<1>1. TableInv => TypeOK
  BY DEF TableInv
<1> QED
  BY <1>1, TablesWellFormed, PTL

-----------------------------------------------------------------------------
(* Layer two: deliveries are accounted for, whatever happens to a job. *)

\* AttemptAccounting strengthened to be inductive: a queued job has a delivery
\* left, an active job was claimed, and started_on tells whether one ever was.
RowAccount(row, claimed, resumed) ==
  /\ row.retry_count = IF claimed = 0 THEN 0 ELSE claimed - 1
  /\ row.started_on = NULL <=> claimed = 0
  /\ claimed <= row.retry_limit + 1 + resumed
  /\ row.state \in Queued => claimed <= row.retry_limit + resumed
  /\ row.state = "active" => claimed > 0
  /\ row.state = "failed" => claimed > row.retry_limit

Accounts ==
  \A j \in JobId :
    /\ job[j] = Unused => claims[j] = 0 /\ resumes[j] = 0
    /\ job[j] \in JobRow => RowAccount(job[j], claims[j], resumes[j])

LEMMA AccountOfStep ==
  ASSUME TableInv, NEW j \in JobId, RowStep(j), job[j] \in JobRow, job'[j] \in JobRow,
         RowAccount(job[j], claims[j], resumes[j])
  PROVE  RowAccount(job'[j], claims'[j], resumes'[j])
<1> USE DEF RowAccount
<1>1. /\ claims[j] \in Nat /\ resumes[j] \in Nat /\ now \in Nat
      /\ job[j].retry_limit \in Nat /\ job[j].retry_count \in Nat
  BY DEF TableInv, TypeOK, JobRow
<1>2. job'[j] # Deleted /\ job[j] # Unused
  BY RowIsNoMarker
<1>3. CASE job'[j] = job[j] /\ Uncounted(j)
  BY <1>3 DEF Uncounted
<1>4. CASE /\ job[j].state \in Queued /\ job'[j] = Claimed(job[j], now)
           /\ claims'[j] = claims[j] + 1 /\ resumes'[j] = resumes[j]
  <2>1. /\ job'[j].state = "active" /\ job'[j].started_on = now
        /\ job'[j].retry_limit = job[j].retry_limit
        /\ job'[j].retry_count = IF job[j].started_on # NULL THEN job[j].retry_count + 1
                                                           ELSE job[j].retry_count
    BY <1>4 DEF Claimed, JobRow
  <2>2. now # NULL
    BY <1>1, MarkersAssumption
  <2> QED
    BY <1>1, <1>4, <2>1, <2>2
<1>5. CASE /\ job[j].state = "active" /\ job'[j] = CompletedRow(job[j], now) /\ Uncounted(j)
  <2>1. /\ job'[j].state = "completed" /\ job'[j].started_on = job[j].started_on
        /\ job'[j].retry_limit = job[j].retry_limit
        /\ job'[j].retry_count = job[j].retry_count
    BY <1>5 DEF CompletedRow, JobRow
  <2> QED
    BY <1>1, <1>5, <2>1 DEF Uncounted
<1>6. ASSUME job[j].state = "active", Uncounted(j),
             NEW delay \in Nat, job'[j] = RetryOrFail(job[j], now, delay)
      PROVE  RowAccount(job'[j], claims'[j], resumes'[j])
  <2>1. /\ job'[j].state = IF job[j].retry_count < job[j].retry_limit THEN "retry" ELSE "failed"
        /\ job'[j].started_on = job[j].started_on
        /\ job'[j].retry_limit = job[j].retry_limit
        /\ job'[j].retry_count = job[j].retry_count
    BY <1>6 DEF RetryOrFail, RetriesRemain, JobRow
  <2> QED
    BY <1>1, <1>6, <2>1 DEF Uncounted
<1>7. CASE /\ job[j].state \in Pending /\ job'[j] = CancelledRow(job[j], now) /\ Uncounted(j)
  <2>1. /\ job'[j].state = "cancelled" /\ job'[j].started_on = job[j].started_on
        /\ job'[j].retry_limit = job[j].retry_limit
        /\ job'[j].retry_count = job[j].retry_count
    BY <1>7 DEF CancelledRow, JobRow
  <2> QED
    BY <1>1, <1>7, <2>1 DEF Uncounted
<1>8. CASE /\ job[j].state = "cancelled" /\ job'[j] = ResumedRow(job[j])
           /\ claims'[j] = claims[j] /\ resumes'[j] = resumes[j] + 1
  <2>1. /\ job'[j].state = "created" /\ job'[j].started_on = job[j].started_on
        /\ job'[j].retry_limit = job[j].retry_limit
        /\ job'[j].retry_count = job[j].retry_count
    BY <1>8 DEF ResumedRow, JobRow
  <2> QED
    BY <1>1, <1>8, <2>1
<1>9. CASE /\ job[j].state = "failed" /\ job'[j] = RetriedRow(job[j]) /\ Uncounted(j)
  <2>1. /\ job'[j].state = "retry" /\ job'[j].started_on = job[j].started_on
        /\ job'[j].retry_limit = job[j].retry_limit + 1
        /\ job'[j].retry_count = job[j].retry_count
    BY <1>9 DEF RetriedRow, JobRow
  <2> QED
    BY <1>1, <1>9, <2>1 DEF Uncounted
<1> QED
  BY <1>2, <1>3, <1>4, <1>5, <1>6, <1>7, <1>8, <1>9 DEF RowStep

LEMMA AccountsInductive ==
  ASSUME TableInv, Accounts, [Next]_vars
  PROVE  Accounts'
<1> SUFFICES ASSUME NEW j \in JobId
             PROVE  /\ job'[j] = Unused => claims'[j] = 0 /\ resumes'[j] = 0
                    /\ job'[j] \in JobRow => RowAccount(job'[j], claims'[j], resumes'[j])
  BY DEF Accounts
<1>1. RowStep(j)
  BY StepsAreRowSteps
<1>2. CASE job[j] = Unused
  <2>1. j \notin Rows(job) /\ claims[j] = 0 /\ resumes[j] = 0 /\ Unused \notin JobRow
    BY <1>2, MarkersAssumption DEF Rows, Accounts
  <2>2. claims'[j] = 0 /\ resumes'[j] = 0
    BY <1>1, <1>2, <2>1 DEF RowStep, Uncounted
  <2>3. ASSUME job'[j] \in JobRow PROVE RowAccount(job'[j], 0, 0)
    <3>1. /\ job'[j].state = "created" /\ job'[j].retry_count = 0
          /\ job'[j].started_on = NULL
      BY <1>1, <1>2, <2>1, <2>3 DEF RowStep
    <3>2. job'[j].retry_limit \in Nat
      BY <2>3 DEF JobRow
    <3> QED
      BY <3>1, <3>2 DEF RowAccount
  <2> QED
    BY <2>2, <2>3
<1>3. CASE job[j] = Deleted
  BY <1>1, <1>3, MarkersAssumption DEF RowStep, Rows
<1>4. CASE job[j] \in JobRow
  <2>1. job'[j] # Unused
    <3>1. job'[j] \in JobRow \/ job'[j] = Deleted
      <4>1. job[j] # Unused /\ now \in Nat
        BY <1>4, RowIsNoMarker DEF TableInv, TypeOK
      <4>2. ASSUME NEW delay \in Nat PROVE RetryOrFail(job[j], now, delay) \in JobRow
        BY <1>4, <4>1, UpdatedRowTypes
      <4>3. /\ Claimed(job[j], now) \in JobRow /\ CompletedRow(job[j], now) \in JobRow
            /\ CancelledRow(job[j], now) \in JobRow /\ ResumedRow(job[j]) \in JobRow
            /\ RetriedRow(job[j]) \in JobRow
        BY <1>4, <4>1, UpdatedRowTypes
      <4> QED
        BY <1>1, <1>4, <4>1, <4>2, <4>3 DEF RowStep
    <3> QED
      BY <3>1, MarkersAssumption
  <2> QED
    BY <1>1, <1>4, <2>1, AccountOfStep DEF Accounts
<1> QED
  BY <1>2, <1>3, <1>4 DEF TableInv, TypeOK

\* Any mix of crashes, lapsed leases, cancels, resumes and retries leaves the
\* deliveries of every job accounted for (fetch_next_job, _retry_or_fail_set).
THEOREM AttemptsAccounted == Spec => []AttemptAccounting
<1>1. Init => Accounts
  <2> SUFFICES ASSUME Init PROVE Accounts
    OBVIOUS
  <2> QED
    BY MarkersAssumption DEF Init, Accounts
<1>2. TableInv /\ Accounts /\ [Next]_vars => Accounts'
  BY AccountsInductive
<1>3. TableInv /\ Accounts => AttemptAccounting
  BY RowsAreRows DEF TableInv, Accounts, RowAccount, AttemptAccounting
<1> QED
  BY <1>1, <1>2, <1>3, TablesWellFormed, PTL DEF Spec

-----------------------------------------------------------------------------
(* Action properties. *)

\* No late handler, overlapping sweep or administrative call rewrites a finished job.
THEOREM FinishedJobsStay == Spec => FinishedStays
<1> DEFINE Stays(j) ==
      \/ job'[j] = Deleted
      \/ job[j].state = "cancelled" /\ job'[j].state = "created"
      \/ /\ job[j].state = "failed" /\ job'[j].state = "retry"
         /\ job'[j].retry_limit = job[j].retry_limit + 1
<1>1. ASSUME TableInv, [Next]_vars, NEW j \in Rows(job),
             job[j].state \in Finished, job'[j] # job[j]
      PROVE  Stays(j)
  <2>1. j \in JobId /\ job[j] \in JobRow /\ job[j] # Unused
    BY <1>1, RowsAreRows, RowIsNoMarker DEF TableInv
  <2>2. RowStep(j)
    BY <1>1, <2>1, StepsAreRowSteps
  <2>3. job[j].state \notin Queued /\ job[j].state # "active" /\ job[j].state \notin Pending
    BY <1>1
  <2>4. CASE job[j].state = "cancelled" /\ job'[j] = ResumedRow(job[j])
    BY <2>1, <2>4 DEF ResumedRow, JobRow
  <2>5. CASE job[j].state = "failed" /\ job'[j] = RetriedRow(job[j])
    BY <2>1, <2>5 DEF RetriedRow, JobRow
  <2> QED
    BY <1>1, <2>1, <2>2, <2>3, <2>4, <2>5 DEF RowStep
<1>2. TableInv /\ [Next]_vars =>
        [\A j \in Rows(job) : job[j].state \in Finished /\ job'[j] # job[j] => Stays(j)]_vars
  BY <1>1
<1> QED
  BY <1>2, TablesWellFormed, PTL DEF Spec, FinishedStays

\* Only a finished job has an end, unless retry() is used (it leaves completed_on set).
EndsAreFinal ==
  \A j \in JobId : job[j] \in JobRow /\ job[j].state \in Pending => job[j].completed_on = NULL

LEMMA EndsAreFinalInductive ==
  ASSUME "retry" \notin AdminOps, TableInv, EndsAreFinal, [Next]_vars
  PROVE  EndsAreFinal'
<1> SUFFICES ASSUME NEW j \in JobId, job'[j] \in JobRow, job'[j].state \in Pending
             PROVE  job'[j].completed_on = NULL
  BY DEF EndsAreFinal
<1>1. RowStep(j)
  BY StepsAreRowSteps
<1>2. CASE job[j] \notin JobRow
  <2>1. j \notin Rows(job)
    BY <1>2, RowsAreRows DEF TableInv
  <2> QED
    BY <1>1, <1>2, <2>1 DEF RowStep
<1>3. CASE job[j] \in JobRow
  <2>1. job[j].state \in Pending => job[j].completed_on = NULL
    BY <1>3 DEF EndsAreFinal
  <2>2. /\ job[j] # Unused /\ job'[j] # Deleted
    BY <1>3, RowIsNoMarker
  <2>3. /\ Claimed(job[j], now).completed_on = job[j].completed_on
        /\ CompletedRow(job[j], now).state = "completed"
        /\ CancelledRow(job[j], now).state = "cancelled"
        /\ ResumedRow(job[j]).completed_on = NULL
    BY <1>3 DEF Claimed, CompletedRow, CancelledRow, ResumedRow, JobRow
  <2>4. ASSUME NEW delay \in Nat, job'[j] = RetryOrFail(job[j], now, delay)
        PROVE  job'[j].completed_on = NULL
    BY <1>3, <2>4 DEF RetryOrFail, JobRow
  <2> QED
    BY <1>1, <2>1, <2>2, <2>3, <2>4 DEF RowStep
<1> QED
  BY <1>2, <1>3

\* What disappears was purged or deleted by an administrator.
LEMMA DeletedRows ==
  ASSUME TableInv, NEW j \in JobId, RowStep(j), job[j] \in JobRow, job'[j] = Deleted
  PROVE  "delete" \in AdminOps \/ Purgeable(job[j], now)
<1>1. now \in Nat /\ job[j] # Deleted /\ job[j] # Unused /\ Deleted \notin JobRow
  BY MarkersAssumption, RowIsNoMarker DEF TableInv, TypeOK
<1>2. ASSUME NEW delay \in Nat PROVE RetryOrFail(job[j], now, delay) \in JobRow
  BY <1>1, UpdatedRowTypes
<1>3. /\ Claimed(job[j], now) \in JobRow /\ CompletedRow(job[j], now) \in JobRow
      /\ CancelledRow(job[j], now) \in JobRow /\ ResumedRow(job[j]) \in JobRow
      /\ RetriedRow(job[j]) \in JobRow
  BY <1>1, UpdatedRowTypes
<1> QED
  BY <1>1, <1>2, <1>3 DEF RowStep

\* Unless retry() is used, the purge never takes a job a worker is running, nor
\* any other before its time (delete_old_jobs).
THEOREM PurgeIsSafe ==
  ASSUME "retry" \notin AdminOps, "delete" \notin AdminOps
  PROVE  Spec => PurgeRespectsRetention
<1> DEFINE Due(j) ==
      \/ job[j].state \in Finished /\ PastDeletion(job[j], now)
      \/ job[j].state \in Queued /\ job[j].keep_until < now
<1>1. Init => EndsAreFinal
  BY MarkersAssumption DEF Init, EndsAreFinal
<1>2. TableInv /\ EndsAreFinal /\ [Next]_vars => EndsAreFinal'
  BY EndsAreFinalInductive
<1>3. ASSUME TableInv, EndsAreFinal, [Next]_vars, NEW j \in Rows(job), job'[j] = Deleted
      PROVE  Due(j)
  <2>1. j \in JobId /\ job[j] \in JobRow /\ RowStep(j)
    BY <1>3, RowsAreRows, StepsAreRowSteps DEF TableInv
  <2>2. Purgeable(job[j], now)
    BY <1>3, <2>1, DeletedRows
  <2>3. job[j].state \in Pending \/ job[j].state \in Finished
    BY <2>1 DEF JobRow
  <2>4. job[j].state \in Pending => ~PastDeletion(job[j], now)
    BY <1>3, <2>1 DEF EndsAreFinal, PastDeletion
  <2> QED
    BY <2>2, <2>3, <2>4 DEF Purgeable
<1>4. TableInv /\ EndsAreFinal /\ [Next]_vars =>
        [\A j \in Rows(job) : job'[j] = Deleted => Due(j)]_vars
  BY <1>3
<1> QED
  BY <1>1, <1>2, <1>4, TablesWellFormed, PTL DEF Spec, PurgeRespectsRetention

-----------------------------------------------------------------------------
(* Layer three: the lease as mutual exclusion, when handlers meet it. *)

\* No worker can claim the job again: it is gone, or completed.
OutOfReach(j) == job[j] = Deleted \/ (j \in Rows(job) /\ job[j].state = "completed")

\* What a worker holds, it holds under the current claim and within its lease,
\* unless complete() or delete() took the job, or the purge a retried one.
HeldInLease ==
  \A w \in Worker, j \in JobId : held[w][j] # 0 =>
    /\ held[w][j] = claims[j]
    /\ OutOfReach(j) \/ (Active(j) /\ now <= LeaseOver(j))

LeaseInv == TableInv /\ Accounts /\ HeldInLease /\ NoOverlap

\* A step that hands out nothing, and leaves alone the rows that stay held or puts
\* them out of reach.
LEMMA LettingGo ==
  ASSUME TableInv, HeldInLease, NoOverlap, now' = now,
         held' \in [Worker -> [JobId -> Nat]],
         \A w \in Worker, j \in JobId : held'[w][j] # 0 =>
           /\ held'[w][j] = held[w][j] /\ claims'[j] = claims[j]
           /\ job'[j] = job[j] \/ OutOfReach(j)'
  PROVE  HeldInLease' /\ NoOverlap'
BY DEF HeldInLease, NoOverlap, Active, LeaseOver, OutOfReach, Rows

\* An active row knows when its lease ends.
LEMMA LeaseIsTime ==
  ASSUME TableInv, Accounts, NEW j \in JobId, Active(j)
  PROVE  LeaseOver(j) \in Nat /\ job[j].started_on \in Nat
<1>1. job[j] \in JobRow /\ claims[j] \in Nat
  BY RowsAreRows DEF TableInv, TypeOK, Active
<1>2. job[j].started_on # NULL
  BY <1>1 DEF Accounts, RowAccount, Active
<1> QED
  BY <1>1, <1>2 DEF LeaseOver, JobRow

LEMMA LeaseInvInductive ==
  ASSUME HandlersMeetLease, AdminOps \cap {"cancel", "resume"} = {}, LeaseInv, [Next]_vars
  PROVE  LeaseInv'
<1> USE DEF LeaseInv
<1>1. TableInv' /\ Accounts'
  BY TableInvInductive, AccountsInductive
<1>2. held' \in [Worker -> [JobId -> Nat]] /\ held \in [Worker -> [JobId -> Nat]]
      /\ now \in Nat /\ claims \in [JobId -> Nat]
  BY OtherTypes DEF TableInv, TypeOK
<1>rows. \A j \in JobId : Active(j) => job[j] \in JobRow /\ job[j] # Unused
  BY RowsAreRows, RowIsNoMarker DEF TableInv, Active
<1>held. \A w \in Worker, j \in JobId : held[w][j] # 0 => job[j] # Unused
  BY <1>rows, MarkersAssumption DEF HeldInLease, OutOfReach, Rows
<1>3. ASSUME NEW q \in Queue, InsertJobs(q) PROVE HeldInLease' /\ NoOverlap'
  <2>1. \A j \in JobId : job[j] # Unused => job'[j] = job[j]
    BY <1>3 DEF InsertJobs, FreeIds
  <2> QED
    BY <1>2, <1>3, <1>held, <2>1, LettingGo DEF InsertJobs
<1>4. ASSUME NEW w \in Worker, FetchNextJob(w) PROVE HeldInLease' /\ NoOverlap'
  <2>1. PICK S \in SUBSET {i \in Rows(job) : Fetchable(job[i], WorkQueue[w], now)} :
          /\ job' = [i \in JobId |-> IF i \in S THEN Claimed(job[i], now) ELSE job[i]]
          /\ claims' = [i \in JobId |-> IF i \in S THEN claims[i] + 1 ELSE claims[i]]
          /\ held' = [held EXCEPT ![w] = [i \in JobId |-> IF i \in S THEN claims[i] + 1 ELSE 0]]
    BY <1>4 DEF FetchNextJob
  <2>2. now' = now
    BY <1>4 DEF FetchNextJob
  <2>3. \A v \in Worker, j \in S : held[v][j] = 0
    BY MarkersAssumption DEF HeldInLease, OutOfReach, Fetchable, Active, Rows
  <2>4. ASSUME NEW j \in S
        PROVE  Active(j)' /\ now <= LeaseOver(j)'
    <3>1. j \in JobId /\ job[j] \in JobRow
      BY RowsAreRows DEF TableInv
    <3>2. job'[j] = Claimed(job[j], now)
      BY <2>1, <3>1
    <3>3. Claimed(job[j], now) \in JobRow
      BY <1>2, <3>1, UpdatedRowTypes
    <3>4. /\ job'[j].state = "active" /\ job'[j].started_on = now
          /\ job'[j].expire_seconds \in Nat
      BY <3>1, <3>2 DEF Claimed, JobRow
    <3> QED
      BY <1>2, <3>1, <3>2, <3>3, <3>4, RowIsNoMarker DEF Active, LeaseOver, Rows
  <2>5. ASSUME NEW v \in Worker, NEW j \in JobId, held'[v][j] # 0, j \notin S
        PROVE  /\ v # w /\ held'[v][j] = held[v][j]
               /\ job'[j] = job[j] /\ claims'[j] = claims[j]
    BY <1>2, <2>1, <2>5
  <2>6. ASSUME NEW v \in Worker, NEW j \in JobId, held'[v][j] # 0, j \in S
        PROVE  v = w /\ held'[v][j] = claims'[j]
    BY <1>2, <2>1, <2>3, <2>6
  <2>7. HeldInLease'
    <3> SUFFICES ASSUME NEW v \in Worker, NEW j \in JobId, held'[v][j] # 0
                 PROVE  /\ held'[v][j] = claims'[j]
                        /\ OutOfReach(j)' \/ (Active(j)' /\ now' <= LeaseOver(j)')
      BY DEF HeldInLease
    <3>1. CASE j \in S
      BY <2>2, <2>4, <2>6, <3>1
    <3>2. CASE j \notin S
      BY <2>2, <2>5, <3>2 DEF HeldInLease, OutOfReach, Active, LeaseOver, Rows
    <3> QED
      BY <3>1, <3>2
  <2>8. NoOverlap'
    BY <2>5, <2>6 DEF NoOverlap
  <2> QED
    BY <2>7, <2>8
<1>5. ASSUME NEW w \in Worker, held' = [held EXCEPT ![w] = NoBatch], now' = now,
             claims' = claims, \A j \in JobId : held[w][j] = 0 => job'[j] = job[j] \/ job[j] = Unused
      PROVE  HeldInLease' /\ NoOverlap'
  <2>1. ASSUME NEW v \in Worker, NEW j \in JobId, held'[v][j] # 0
        PROVE  held'[v][j] = held[v][j] /\ job'[j] = job[j] /\ claims'[j] = claims[j]
    <3>1. v # w /\ held'[v][j] = held[v][j]
      BY <1>2, <1>5, <2>1 DEF NoBatch
    <3>2. held[w][j] = 0
      BY <2>1, <3>1 DEF NoOverlap
    <3>3. job[j] # Unused
      BY <1>held, <2>1, <3>1
    <3> QED
      BY <1>5, <3>1, <3>2, <3>3
  <2> QED
    BY <1>2, <1>5, <2>1, LettingGo
<1>6. ASSUME NEW w \in Worker, Complete(w) \/ Fail(w) \/ Abandon(w)
      PROVE  HeldInLease' /\ NoOverlap'
  <2>1. held' = [held EXCEPT ![w] = NoBatch] /\ now' = now /\ claims' = claims
    BY <1>6 DEF Complete, Fail, Abandon
  <2>2. ASSUME NEW j \in JobId, held[w][j] = 0 PROVE job'[j] = job[j] \/ job[j] = Unused
    <3>1. j \notin Settling(w)
      BY <2>2 DEF Settling, Batch
    <3>2. CASE Complete(w)
      BY <3>1, <3>2 DEF Complete
    <3>3. CASE Fail(w)
      <4>1. PICK table \in FailedTables(Settling(w)) : job' = table \/ job' = job
        BY <3>3 DEF Fail
      <4>2. \A i \in Settling(w) : Active(i)
        BY DEF Settling
      <4> QED
        BY <3>1, <4>1, <4>2, FailingRows
    <3>4. CASE Abandon(w)
      BY <3>4 DEF Abandon
    <3> QED
      BY <1>6, <3>2, <3>3, <3>4
  <2> QED
    BY <1>5, <2>1, <2>2
<1>7. ASSUME NEW n \in Node, Sweep(n) PROVE HeldInLease' /\ NoOverlap'
  <2>1. held' = held /\ now' = now /\ claims' = claims
    BY <1>7 DEF Sweep, FailExpired, DeleteOld, AbortSweep
  <2>2. ASSUME NEW w \in Worker, NEW j \in JobId, held[w][j] # 0
        PROVE  job'[j] = job[j] \/ OutOfReach(j)'
    <3>1. CASE FailExpired(n)
      <4>1. PICK table \in FailedTables(LapsedJobs) : job' = table \/ job' = job
        BY <3>1 DEF FailExpired
      <4>2. \A i \in LapsedJobs : Active(i)
        BY DEF LapsedJobs, Lapsed, Active
      <4>3. ~Lapsed(job[j], now) \/ j \notin Rows(job)
        <5>1. CASE OutOfReach(j)
          BY <5>1, MarkersAssumption DEF OutOfReach, Lapsed, Rows
        <5>2. CASE Active(j) /\ now <= LeaseOver(j)
          BY <1>2, <5>2, LeaseIsTime DEF Lapsed, LeaseOver
        <5> QED
          BY <2>2, <5>1, <5>2 DEF HeldInLease
      <4>4. j \notin LapsedJobs
        BY <4>3 DEF LapsedJobs
      <4> QED
        BY <1>held, <2>2, <4>1, <4>2, <4>4, FailingRows
    <3>2. CASE DeleteOld(n)
      BY <3>2 DEF DeleteOld, OutOfReach
    <3>3. CASE AbortSweep(n)
      BY <3>3 DEF AbortSweep
    <3> QED
      BY <1>7, <3>1, <3>2, <3>3 DEF Sweep
  <2> QED
    BY <1>2, <2>1, <2>2, LettingGo
<1>8. ASSUME Tick PROVE HeldInLease' /\ NoOverlap'
  <2>1. /\ now' = now + 1 /\ UNCHANGED <<job, held, claims>>
        /\ \A w \in Worker, j \in JobId : Current(w, j) => now < LeaseOver(j)
    BY <1>8 DEF Tick
  <2>2. NoOverlap'
    BY <2>1 DEF NoOverlap
  <2>3. ASSUME NEW w \in Worker, NEW j \in JobId, held[w][j] # 0
        PROVE  /\ held[w][j] = claims[j]
               /\ OutOfReach(j) \/ (Active(j) /\ now + 1 <= LeaseOver(j))
    <3>1. held[w][j] = claims[j] /\ (OutOfReach(j) \/ (Active(j) /\ now < LeaseOver(j)))
      BY <2>1, <2>3 DEF HeldInLease, Current
    <3> QED
      BY <1>2, <3>1, LeaseIsTime
  <2> QED
    BY <2>1, <2>2, <2>3 DEF HeldInLease, OutOfReach, Active, LeaseOver, Rows
<1>9. ASSUME UNCHANGED <<job, held, claims, now>> PROVE HeldInLease' /\ NoOverlap'
  BY <1>2, <1>9, LettingGo
<1>10. ASSUME NEW i \in JobId, Administer(i) PROVE HeldInLease' /\ NoOverlap'
  <2>1. held' = held /\ now' = now /\ claims' = claims
    BY <1>10 DEF Administer, CancelJob, ResumeJob, RetryJob, CompleteJob, DeleteJob
  <2>2. ASSUME NEW w \in Worker, NEW j \in JobId, held[w][j] # 0
        PROVE  job'[j] = job[j] \/ OutOfReach(j)'
    <3>0. job \in [JobId -> JobRow \cup {Unused, Deleted}]
      BY DEF TableInv, TypeOK
    <3>1. CASE i # j
      BY <1>10, <3>0, <3>1 DEF Administer, CancelJob, ResumeJob, RetryJob, CompleteJob, DeleteJob
    <3>2. CASE i = j /\ RetryJob(i)
      BY <2>2, <3>2, MarkersAssumption DEF RetryJob, HeldInLease, OutOfReach, Active, Rows
    <3>3. CASE i = j /\ CompleteJob(i)
      <4>1. job[j] \in JobRow /\ job'[j] = CompletedRow(job[j], now)
        BY <1>rows, <3>0, <3>3 DEF CompleteJob
      <4>2. CompletedRow(job[j], now) \in JobRow
        BY <1>2, <4>1, UpdatedRowTypes, 0 \in Nat
      <4>3. CompletedRow(job[j], now).state = "completed"
        BY <4>1 DEF CompletedRow, JobRow
      <4> QED
        BY <4>1, <4>2, <4>3, RowIsNoMarker DEF OutOfReach, Rows
    <3>4. CASE i = j /\ DeleteJob(i)
      BY <3>0, <3>4 DEF DeleteJob, OutOfReach
    <3> QED
      BY <1>10, <3>1, <3>2, <3>3, <3>4 DEF Administer, CancelJob, ResumeJob
  <2> QED
    BY <1>2, <2>1, <2>2, LettingGo
<1>11. HeldInLease' /\ NoOverlap'
  <2>1. CASE Produce
    BY <1>3, <1>9, <2>1 DEF Produce, CreateQueue
  <2>2. CASE \E w \in Worker : Work(w)
    BY <1>4, <1>6, <2>2 DEF Work
  <2>3. CASE \E n \in Node : Sweep(n)
    BY <1>7, <2>3
  <2>4. CASE \E j \in JobId : Administer(j)
    BY <1>10, <2>4
  <2> QED
    BY <1>8, <1>9, <2>1, <2>2, <2>3, <2>4 DEF Next, vars
<1> QED
  BY <1>1, <1>11

LEMMA LeaseInvInitially == Init => LeaseInv
<1> SUFFICES ASSUME Init PROVE LeaseInv
  OBVIOUS
<1>1. Accounts
  BY MarkersAssumption DEF Init, Accounts
<1>2. HeldInLease /\ NoOverlap
  BY DEF Init, NoBatch, HeldInLease, NoOverlap
<1> QED
  BY <1>1, <1>2, TableInvInitially DEF LeaseInv

\* If no handler outlives the lease of its jobs and nobody cancels or resumes, no
\* two workers ever run the same job at once, through any crashes, retries and
\* sweeps, and whatever retry(), complete() and delete() do meanwhile.  (A cancelled
\* and resumed job may be claimed while its first handler is still running.)
THEOREM LeaseExcludes ==
  ASSUME HandlersMeetLease, AdminOps \cap {"cancel", "resume"} = {}
  PROVE  Spec => []NoOverlap
<1>1. LeaseInv /\ [Next]_vars => LeaseInv'
  BY LeaseInvInductive
<1>2. LeaseInv => NoOverlap
  BY DEF LeaseInv
<1> QED
  BY <1>1, <1>2, LeaseInvInitially, PTL DEF Spec

\* Under the same conditions every handler that returns leaves all jobs of its batch
\* that are still in the table completed (the docstring of Worker).
THEOREM ReturnsComplete ==
  ASSUME HandlersMeetLease, AdminOps \cap {"cancel", "resume"} = {}
  PROVE  Spec => ReturnCompletes
<1> DEFINE Settles ==
      \A w \in Worker : Complete(w) =>
        \A j \in Batch(w) :
          j \in Rows(job) /\ held[w][j] = claims[j] /\ now <= LeaseOver(j)
            => job'[j].state = "completed"
<1>1. LeaseInv /\ [Next]_vars => LeaseInv'
  BY LeaseInvInductive
<1>2. ASSUME LeaseInv PROVE Settles
  <2> SUFFICES ASSUME NEW w \in Worker, Complete(w), NEW j \in Batch(w), j \in Rows(job)
               PROVE  job'[j].state = "completed"
    OBVIOUS
  <2>1. j \in JobId /\ (Active(j) \/ job[j].state = "completed")
    BY <1>2, MarkersAssumption DEF LeaseInv, HeldInLease, OutOfReach, Batch, Rows
  <2>2. job[j] \in JobRow
    BY <1>2, RowsAreRows DEF LeaseInv, TableInv
  <2>3. job'[j] = IF Active(j) THEN CompletedRow(job[j], now) ELSE job[j]
    BY <2>1 DEF Complete, Settling
  <2> QED
    BY <2>1, <2>2, <2>3 DEF CompletedRow, JobRow
<1>3. LeaseInv /\ [Next]_vars => [Settles]_vars
  BY <1>2
<1> QED
  BY <1>1, <1>3, LeaseInvInitially, PTL DEF Spec, ReturnCompletes

-----------------------------------------------------------------------------
(* The lease as the protection of the claim it was taken with, handlers late or not. *)

\* Unless retry() is used (PurgeActive.cfg), a claim within its lease is ended by
\* nobody but a handler that holds the job or a user: no sweep, no purge and no other
\* claim ends it, however late other handlers are.
THEOREM LeaseProtected ==
  ASSUME "retry" \notin AdminOps
  PROVE  Spec => LeaseProtects
<1> DEFINE Safe ==
      \A w \in Worker, j \in JobId :
        Current(w, j) /\ now <= LeaseOver(j) /\ ~Current(w, j)' => ClaimEndsOnlyBy(w, j)
<1>1. Init => Accounts /\ EndsAreFinal
  BY MarkersAssumption DEF Init, Accounts, EndsAreFinal
<1>2. TableInv /\ Accounts /\ EndsAreFinal /\ [Next]_vars => Accounts' /\ EndsAreFinal'
  BY AccountsInductive, EndsAreFinalInductive
<1>3. ASSUME TableInv, Accounts, EndsAreFinal, Next,
             NEW w \in Worker, NEW j \in JobId, Current(w, j), now <= LeaseOver(j)
      PROVE  Current(w, j)' \/ ClaimEndsOnlyBy(w, j)
  <2>1. /\ job[j] \in JobRow /\ job[j] # Unused /\ job[j].state = "active" /\ j \in Rows(job)
        /\ held[w][j] # 0
    BY <1>3, RowsAreRows, RowIsNoMarker DEF TableInv, Current, Active
  <2>2. /\ held \in [Worker -> [JobId -> Nat]] /\ claims \in [JobId -> Nat] /\ now \in Nat
        /\ LeaseOver(j) \in Nat /\ job \in [JobId -> JobRow \cup {Unused, Deleted}]
    BY <1>3, LeaseIsTime DEF TableInv, TypeOK, Current
  <2>3. job'[j] = job[j] /\ held'[w] = held[w] /\ claims'[j] = claims[j] => Current(w, j)'
    BY <1>3 DEF Current, Active, Rows
  <2>4. ASSUME NEW q \in Queue, InsertJobs(q) PROVE Current(w, j)'
    BY <2>1, <2>2, <2>3, <2>4 DEF InsertJobs, FreeIds
  <2>5. ASSUME NEW v \in Worker, FetchNextJob(v) PROVE Current(w, j)'
    <3>1. v # w
      BY <2>1, <2>5 DEF FetchNextJob, Busy, Batch
    <3>2. PICK S \in SUBSET {i \in Rows(job) : Fetchable(job[i], WorkQueue[v], now)} :
            /\ job' = [i \in JobId |-> IF i \in S THEN Claimed(job[i], now) ELSE job[i]]
            /\ claims' = [i \in JobId |-> IF i \in S THEN claims[i] + 1 ELSE claims[i]]
            /\ held' = [held EXCEPT ![v] = [i \in JobId |-> IF i \in S THEN claims[i] + 1 ELSE 0]]
      BY <2>5 DEF FetchNextJob
    <3>3. j \notin S
      BY <2>1 DEF Fetchable
    <3> QED
      BY <2>2, <2>3, <3>1, <3>2, <3>3
  <2>6. ASSUME NEW v \in Worker, Complete(v) \/ Fail(v) \/ Abandon(v)
        PROVE  Current(w, j)' \/ ClaimEndsOnlyBy(w, j)
    <3>1. held' = [held EXCEPT ![v] = NoBatch] /\ claims' = claims
      BY <2>6 DEF Complete, Fail, Abandon
    <3>2. CASE held[v][j] # 0
      BY <2>2, <3>1, <3>2 DEF ClaimEndsOnlyBy
    <3>3. CASE held[v][j] = 0
      <4>1. v # w /\ j \notin Settling(v)
        BY <2>1, <3>3 DEF Settling, Batch
      <4>2. job'[j] = job[j]
        <5>1. CASE Complete(v)
          BY <4>1, <5>1 DEF Complete
        <5>2. CASE Fail(v)
          <6>1. PICK table \in FailedTables(Settling(v)) : job' = table \/ job' = job
            BY <5>2 DEF Fail
          <6>2. \A i \in Settling(v) : Active(i)
            BY DEF Settling
          <6> QED
            BY <1>3, <2>1, <4>1, <6>1, <6>2, FailingRows
        <5>3. CASE Abandon(v)
          BY <5>3 DEF Abandon
        <5> QED
          BY <2>6, <5>1, <5>2, <5>3
      <4> QED
        BY <2>2, <2>3, <3>1, <4>1, <4>2
    <3> QED
      BY <3>2, <3>3
  <2>7. ASSUME NEW n \in Node, Sweep(n) PROVE Current(w, j)'
    <3>1. held' = held /\ claims' = claims
      BY <2>7 DEF Sweep, FailExpired, DeleteOld, AbortSweep
    <3>2. CASE FailExpired(n)
      <4>1. PICK table \in FailedTables(LapsedJobs) : job' = table \/ job' = job
        BY <3>2 DEF FailExpired
      <4>2. \A i \in LapsedJobs : Active(i)
        BY DEF LapsedJobs, Lapsed, Active
      <4>3. j \notin LapsedJobs
        BY <1>3, <2>2 DEF LapsedJobs, Lapsed, LeaseOver
      <4> QED
        BY <1>3, <2>1, <2>3, <3>1, <4>1, <4>2, <4>3, FailingRows
    <3>3. CASE DeleteOld(n)
      <4>1. ~Purgeable(job[j], now)
        BY <1>3, <2>1 DEF Purgeable, PastDeletion, EndsAreFinal
      <4> QED
        BY <2>3, <3>1, <3>3, <4>1 DEF DeleteOld
    <3>4. CASE AbortSweep(n)
      BY <2>3, <3>1, <3>4 DEF AbortSweep
    <3> QED
      BY <2>7, <3>2, <3>3, <3>4 DEF Sweep
  <2>8. ASSUME NEW i \in JobId, Administer(i) PROVE ClaimEndsOnlyBy(w, j)
    BY <2>8 DEF Administer, CancelJob, ResumeJob, RetryJob, CompleteJob, DeleteJob,
                ClaimEndsOnlyBy
  <2>9. CASE Produce
    BY <2>3, <2>4, <2>9 DEF Produce, CreateQueue
  <2>10. CASE Tick
    BY <2>3, <2>10 DEF Tick
  <2> QED
    BY <1>3, <2>5, <2>6, <2>7, <2>8, <2>9, <2>10 DEF Next, Work
<1>4. TableInv /\ Accounts /\ EndsAreFinal /\ [Next]_vars => [Safe]_vars
  BY <1>3
<1> QED
  BY <1>1, <1>2, <1>4, TablesWellFormed, PTL DEF Spec, LeaseProtects

-----------------------------------------------------------------------------
(* Dead letters. *)

\* A failing transaction on S: what it exhausts is what it copies, and each copy
\* comes from one job of its own.
LEMMA CopiesMatch ==
  ASSUME IsFiniteSet(JobId), TableInv, NEW S, \A j \in S : Active(j),
         job' \in FailedTables(S), NEW q \in Queue, NEW d \in Payload
  PROVE  Cardinality(Arrived(q, d)) = Cardinality(Exhausted(q, d))
<1> USE DEF TableInv
<1>1. PICK delay \in Delays(S), source \in CopySources(S) : job' = AfterFailing(S, delay, source)
  BY DEF FailedTables
<1>2. PICK N \in SUBSET FreeIds(job) : source \in Bijection(N, Routed(S))
  BY DEF CopySources, kSubset
<1>3. /\ source \in [N -> Routed(S)] /\ DOMAIN source = N
      /\ \A i, j \in N : source[i] = source[j] => i = j
      /\ \A k \in Routed(S) : \E j \in N : source[j] = k
  BY <1>2 DEF Bijection, Injection, Surjection, IsInjective
<1>4. \A j \in S : j \in JobId /\ j \in Rows(job) /\ job[j] \in JobRow /\ job[j].state = "active"
  BY RowsAreRows DEF Active
<1>5. \A j \in N : j \in JobId /\ job[j] = Unused /\ j \notin S
  BY <1>2, <1>4, RowIsNoMarker DEF FreeIds
<1>6. /\ \A j \in S : job'[j] = RetryOrFail(job[j], now, delay[j])
      /\ \A j \in N : LET dead == job[source[j]]
                      IN  job'[j] = DeadLetterRow(dead.dead_letter, queue[dead.dead_letter], dead, now)
      /\ \A j \in JobId : j \notin S /\ j \notin N => job'[j] = job[j]
  BY <1>1, <1>3, <1>4, <1>5 DEF AfterFailing
<1>7. \A j \in S : job'[j] \in JobRow
  <2> SUFFICES ASSUME NEW j \in S PROVE job'[j] \in JobRow
    OBVIOUS
  <2>1. \A i \in S : \E r \in Nat : job'[i] = RetryOrFail(job[i], now, r)
    BY FailingRows
  <2>2. PICK r \in Nat : job'[j] = RetryOrFail(job[j], now, r)
    BY <2>1
  <2>3. job[j] \in JobRow /\ now \in Nat
    BY <1>4 DEF TypeOK
  <2>4. RetryOrFail(job[j], now, r) \in JobRow
    BY <2>3, UpdatedRowTypes
  <2> QED
    BY <2>2, <2>4
<1>8. \A j \in N : /\ job'[j] \in JobRow
                   /\ job'[j].name = job[source[j]].dead_letter
                   /\ job'[j].data = job[source[j]].data
  <2> SUFFICES ASSUME NEW j \in N
               PROVE  /\ job'[j] \in JobRow
                      /\ job'[j].name = job[source[j]].dead_letter
                      /\ job'[j].data = job[source[j]].data
    OBVIOUS
  <2> DEFINE dead == job[source[j]]
             p == dead.dead_letter
  <2>1. source[j] \in S /\ source[j] \in Rows(job) /\ dead \in JobRow /\ p # NULL
    BY <1>3, <1>4 DEF Routed
  <2>2. p \in Queue /\ queue[p] \in QueueRow
    BY <2>1 DEF ForeignKeys, TypeOK, JobRow
  <2>3. job'[j] = DeadLetterRow(p, queue[p], dead, now)
    BY <1>6
  <2>4. now \in Nat
    BY DEF TypeOK
  <2>5. DeadLetterRow(p, queue[p], dead, now) \in JobRow
    BY <2>1, <2>2, <2>4, DeadLetterRowType
  <2>6. /\ DeadLetterRow(p, queue[p], dead, now).name = p
        /\ DeadLetterRow(p, queue[p], dead, now).data = dead.data
    BY DEF DeadLetterRow
  <2> QED
    BY <2>3, <2>5, <2>6
\* What the step exhausts.
<1>9. \A j \in S : job'[j].state = "failed" <=> ~RetriesRemain(job[j])
  BY <1>4, <1>6 DEF RetryOrFail, JobRow
<1>10. \A j \in JobId : j \in Exhausted(q, d) <=>
         j \in Routed(S) /\ job[j].dead_letter = q /\ job[j].data = d
  <2>1. q # NULL
    BY MarkersAssumption
  <2>2. \A j \in JobId : Active(j) /\ job'[j].state = "failed" => j \in S
    BY <1>5, <1>6 DEF Active, Rows
  <2>3. \A j \in S : j \in Rows(job') /\ Active(j)
    BY <1>4, <1>7, RowIsNoMarker DEF Rows, Active
  <2> QED
    BY <1>9, <2>1, <2>2, <2>3 DEF Exhausted, Routed
\* What arrives.
<1>11. \A j \in JobId : j \in Arrived(q, d) <=>
         j \in N /\ job[source[j]].dead_letter = q /\ job[source[j]].data = d
  <2>1. \A j \in N : j \in Rows(job') /\ j \in FreeIds(job)
    BY <1>5, <1>8, RowIsNoMarker DEF Rows, FreeIds
  <2>2. \A j \in FreeIds(job) : j \in Rows(job') => j \in N
    BY <1>4, <1>6, RowIsNoMarker DEF Rows, FreeIds
  <2> QED
    BY <1>8, <2>1, <2>2 DEF Arrived
<1> DEFINE A == Arrived(q, d)
           E == Exhausted(q, d)
           f == [j \in A |-> source[j]]
<1>12. A \subseteq JobId /\ E \subseteq JobId /\ A \subseteq N /\ E \subseteq Routed(S)
  BY <1>10, <1>11 DEF Arrived, Exhausted, FreeIds
<1>13. f \in Bijection(A, E)
  <2>1. \A j \in A : source[j] \in E
    BY <1>3, <1>4, <1>10, <1>11, <1>12 DEF Routed
  <2>2. \A k \in E : \E j \in A : source[j] = k
    <3> SUFFICES ASSUME NEW k \in E PROVE \E j \in A : source[j] = k
      OBVIOUS
    <3>1. PICK j \in N : source[j] = k
      BY <1>3, <1>12
    <3>2. j \in A
      BY <1>5, <1>10, <1>11, <1>12, <3>1
    <3> QED
      BY <3>1, <3>2
  <2>3. \A i, j \in A : f[i] = f[j] => i = j
    BY <1>3, <1>12
  <2>4. f \in [A -> E]
    BY <2>1
  <2> HIDE DEF A, E
  <2>5. \A k \in E : \E j \in A : f[j] = k
    BY <2>2
  <2> HIDE DEF f
  <2> QED
    BY <2>3, <2>4, <2>5 DEF Bijection, Injection, Surjection, IsInjective
<1>14. IsFiniteSet(A)
  BY <1>12, FS_Subset
<1> HIDE DEF A, E, f
<1>15. Cardinality(E) = Cardinality(A)
  BY <1>13, <1>14, FS_Bijection DEF ExistsBijection
<1> QED
  BY <1>15 DEF A, E

\* Only a failing transaction takes an active job to retry or failed.
LEMMA FailingStepFails ==
  ASSUME TableInv, [Next]_vars, FailingStep
  PROVE  \E S : (\A j \in S : Active(j)) /\ job' \in FailedTables(S)
<1> USE DEF TableInv
<1>1. PICK j \in Rows(job') : Active(j) /\ job'[j].state \in {"retry", "failed"}
  BY DEF FailingStep
<1>2. /\ j \in JobId /\ job[j] \in JobRow /\ job[j].state = "active"
      /\ job[j] # Unused /\ job'[j] # job[j] /\ job'[j] # Deleted
  BY <1>1, RowsAreRows, RowIsNoMarker DEF Active, Rows
<1>3. \A q \in Queue : ~InsertJobs(q)
  BY <1>1, <1>2 DEF InsertJobs, FreeIds
<1>4. ASSUME NEW w \in Worker, FetchNextJob(w) PROVE FALSE
  <2>1. \A i \in Rows(job) : Fetchable(job[i], WorkQueue[w], now) => i # j
    BY <1>2 DEF Fetchable
  <2> QED
    BY <1>2, <1>4, <2>1 DEF FetchNextJob
<1>5. CompletedRow(job[j], now).state = "completed" /\ CancelledRow(job[j], now).state = "cancelled"
  BY <1>2 DEF CompletedRow, CancelledRow, JobRow
<1>6. ASSUME NEW w \in Worker, Complete(w) PROVE FALSE
  BY <1>1, <1>2, <1>5, <1>6 DEF Complete
<1>7. ASSUME NEW n \in Node, DeleteOld(n) PROVE FALSE
  BY <1>2, <1>7 DEF DeleteOld
<1>8. ASSUME NEW i \in JobId, Administer(i) PROVE FALSE
  <2>1. job \in [JobId -> JobRow \cup {Unused, Deleted}]
    BY DEF TypeOK
  <2>2. job'[j] \in {job[j], Deleted, CancelledRow(job[j], now), CompletedRow(job[j], now)}
    BY <1>2, <1>8, <2>1 DEF Administer, CancelJob, ResumeJob, RetryJob, CompleteJob, DeleteJob
  <2> QED
    BY <1>1, <1>2, <1>5, <2>2
<1>9. ASSUME NEW S, NEW table \in FailedTables(S), \A i \in S : Active(i), job' = table \/ job' = job
      PROVE  job' \in FailedTables(S)
  BY <1>2, <1>9
<1>10. ASSUME NEW w \in Worker, Fail(w)
       PROVE  (\A i \in Settling(w) : Active(i)) /\ job' \in FailedTables(Settling(w))
  BY <1>9, <1>10 DEF Fail, Settling
<1>11. ASSUME NEW n \in Node, FailExpired(n)
       PROVE  (\A i \in LapsedJobs : Active(i)) /\ job' \in FailedTables(LapsedJobs)
  <2>1. \A i \in LapsedJobs : Active(i)
    BY DEF LapsedJobs, Lapsed, Active
  <2> QED
    BY <1>9, <1>11, <2>1 DEF FailExpired
<1>12. \/ \E w \in Worker : Fail(w)
       \/ \E n \in Node : FailExpired(n)
  BY <1>2, <1>3, <1>4, <1>6, <1>7, <1>8
  DEF Next, vars, Produce, CreateQueue, Work, Abandon, Sweep, AbortSweep, Tick
<1> QED
  BY <1>10, <1>11, <1>12

\* Of the jobs a failing transaction gives up, each is copied once, whoever
\* settles and whatever else is in the batch (_route).
THEOREM RoutingIsExact ==
  ASSUME IsFiniteSet(JobId)
  PROVE  Spec => RoutedExactlyOnce
<1> DEFINE Routes == FailingStep => \A q \in Queue, d \in Payload :
                       Cardinality(Arrived(q, d)) = Cardinality(Exhausted(q, d))
<1>1. ASSUME TableInv, [Next]_vars, FailingStep, NEW q \in Queue, NEW d \in Payload
      PROVE  Cardinality(Arrived(q, d)) = Cardinality(Exhausted(q, d))
  BY <1>1, FailingStepFails, CopiesMatch
<1>2. TableInv /\ [Next]_vars => [Routes]_vars
  BY <1>1
<1> QED
  BY <1>2, TablesWellFormed, PTL DEF Spec, RoutedExactlyOnce

-----------------------------------------------------------------------------
(* Queue policies. *)

\* A step that only ends or deletes jobs frees index entries and takes none: no
\* index can refuse it.
LEMMA EndingKeepsIndexes ==
  ASSUME TypeOK, UniqueIndexes(job),
         \A j \in JobId : \/ job'[j] \in {job[j], Deleted}
                          \/ /\ j \in Rows(job) /\ job[j].state \in Pending
                             /\ job'[j] \in {CompletedRow(job[j], now), CancelledRow(job[j], now)}
  PROVE  UniqueIndexes(job')
<1>1. ASSUME NEW j \in Rows(job')
      PROVE  j \in Rows(job) /\ IndexEntries(job'[j]) \subseteq IndexEntries(job[j])
  <2>1. j \in JobId /\ job'[j] # Unused /\ job'[j] # Deleted
    BY DEF Rows
  <2>2. CASE job'[j] = job[j]
    BY <2>1, <2>2 DEF Rows
  <2>3. CASE /\ j \in Rows(job) /\ job[j].state \in Pending
             /\ job'[j] \in {CompletedRow(job[j], now), CancelledRow(job[j], now)}
    <3>1. job[j] \in JobRow
      BY <2>3, RowsAreRows
    <3>2. /\ job'[j].state \in {"completed", "cancelled"}
          /\ job'[j].name = job[j].name /\ job'[j].policy = job[j].policy
          /\ job'[j].singleton_key = job[j].singleton_key
          /\ job'[j].singleton_on = job[j].singleton_on
      <4>1. \A row \in JobRow, st \in {"completed", "cancelled"} :
              LET ended == [row EXCEPT !.state = st, !.completed_on = now]
              IN  /\ ended.state = st /\ ended.name = row.name /\ ended.policy = row.policy
                  /\ ended.singleton_key = row.singleton_key
                  /\ ended.singleton_on = row.singleton_on
        BY DEF JobRow
      <4>2. \E st \in {"completed", "cancelled"} :
              job'[j] = [job[j] EXCEPT !.state = st, !.completed_on = now]
        BY <2>3 DEF CompletedRow, CancelledRow
      <4> QED
        BY <3>1, <4>1, <4>2
    <3>3. job[j].state # "cancelled"
      BY <2>3
    <3>4. IndexEntries(job'[j]) \subseteq
            IF job'[j].singleton_on # NULL
              THEN {<<"i4", job'[j].name, job'[j].singleton_on, job'[j].singleton_key>>} ELSE {}
      BY <3>2 DEF IndexEntries, IndexedPending
    <3>5. job[j].singleton_on # NULL =>
            <<"i4", job[j].name, job[j].singleton_on, job[j].singleton_key>> \in IndexEntries(job[j])
      BY <3>3 DEF IndexEntries
    <3> QED
      BY <2>3, <3>2, <3>4, <3>5
  <2> QED
    BY <2>1, <2>2, <2>3
<1>2. ASSUME NEW i \in Rows(job'), NEW j \in Rows(job'), i # j
      PROVE  IndexEntries(job'[i]) \cap IndexEntries(job'[j]) = {}
  <2>1. IndexEntries(job[i]) \cap IndexEntries(job[j]) = {}
    BY <1>1, <1>2 DEF UniqueIndexes
  <2> QED
    BY <1>1, <2>1
<1> QED
  BY <1>2 DEF UniqueIndexes

\* The statements that could take an entry are refused when they would take one
\* twice; the others take none.
LEMMA IndexesKept ==
  ASSUME TypeOK, UniqueIndexes(job), [Next]_vars
  PROVE  UniqueIndexes(job')
<1>0. job \in [JobId -> JobRow \cup {Unused, Deleted}]
  BY DEF TypeOK
<1>1. CASE job' = job
  BY <1>1
<1>2. ASSUME NEW q \in Queue, InsertJobs(q) PROVE UniqueIndexes(job')
  BY <1>2 DEF InsertJobs
<1>3. ASSUME NEW w \in Worker, Work(w) PROVE UniqueIndexes(job')
  <2>1. CASE FetchNextJob(w)
    BY <2>1 DEF FetchNextJob
  <2>2. CASE Complete(w)
    <3>1. \A j \in JobId : job'[j] = IF j \in Settling(w) THEN CompletedRow(job[j], now) ELSE job[j]
      BY <2>2 DEF Complete
    <3>2. \A j \in Settling(w) : j \in Rows(job) /\ job[j].state \in Pending
      BY DEF Settling, Active
    <3> QED
      BY <3>1, <3>2, EndingKeepsIndexes
  <2>3. CASE Fail(w)
    BY <2>3 DEF Fail
  <2>4. CASE Abandon(w)
    BY <1>1, <2>4 DEF Abandon
  <2> QED
    BY <1>3, <2>1, <2>2, <2>3, <2>4 DEF Work
<1>4. ASSUME NEW n \in Node, Sweep(n) PROVE UniqueIndexes(job')
  <2>1. CASE FailExpired(n)
    BY <2>1 DEF FailExpired
  <2>2. CASE DeleteOld(n)
    <3>1. \A j \in JobId : job'[j] \in {job[j], Deleted}
      BY <2>2 DEF DeleteOld
    <3> QED
      BY <3>1, EndingKeepsIndexes
  <2>3. CASE AbortSweep(n)
    BY <1>1, <2>3 DEF AbortSweep
  <2> QED
    BY <1>4, <2>1, <2>2, <2>3 DEF Sweep
<1>5. ASSUME NEW j \in JobId, Administer(j) PROVE UniqueIndexes(job')
  <2>1. CASE ResumeJob(j) \/ RetryJob(j)
    BY <2>1 DEF ResumeJob, RetryJob
  <2>2. CASE CancelJob(j)
    <3>1. \A i \in JobId : job'[i] = IF i = j THEN CancelledRow(job[j], now) ELSE job[i]
      BY <1>0, <2>2 DEF CancelJob
    <3>2. j \in Rows(job) /\ job[j].state \in Pending
      BY <2>2 DEF CancelJob
    <3> QED
      BY <3>1, <3>2, EndingKeepsIndexes
  <2>3. CASE CompleteJob(j)
    <3>1. \A i \in JobId : job'[i] = IF i = j THEN CompletedRow(job[j], now) ELSE job[i]
      BY <1>0, <2>3 DEF CompleteJob
    <3>2. j \in Rows(job) /\ job[j].state \in Pending
      BY <2>3 DEF CompleteJob, Active
    <3> QED
      BY <3>1, <3>2, EndingKeepsIndexes
  <2>4. CASE DeleteJob(j)
    <3>1. \A i \in JobId : job'[i] \in {job[i], Deleted}
      BY <1>0, <2>4 DEF DeleteJob
    <3> QED
      BY <3>1, EndingKeepsIndexes
  <2> QED
    BY <1>5, <2>1, <2>2, <2>3, <2>4 DEF Administer
<1>6. CASE \/ \E q \in Queue : \E options \in QueueOptions[q] : CreateQueue(q, options)
           \/ Tick \/ UNCHANGED vars
  BY <1>1, <1>6 DEF CreateQueue, Tick, vars
<1> QED
  BY <1>2, <1>3, <1>4, <1>5, <1>6 DEF Next, Produce

\* Two jobs that a policy keeps apart share an entry of its index.
LEMMA ApartByIndexes ==
  ASSUME UniqueIndexes(job)
  PROVE  PolicyKept
<1> SUFFICES ASSUME NEW i \in Rows(job), NEW j \in Rows(job), i # j,
                    job[i].name = job[j].name, job[i].policy = job[j].policy,
                    job[i].singleton_key = job[j].singleton_key,
                    KeptApart(job[i].policy, job[i].state, job[j].state)
             PROVE  FALSE
  BY DEF PolicyKept
<1> DEFINE name == job[i].name
           key == job[i].singleton_key
<1>1. IndexEntries(job[i]) \cap IndexEntries(job[j]) = {}
  BY DEF UniqueIndexes
<1>2. CASE job[i].policy = "short" /\ job[i].state = "created" /\ job[j].state = "created"
  <2>1. <<"i1", name, key>> \in IndexEntries(job[i]) /\ <<"i1", name, key>> \in IndexEntries(job[j])
    BY <1>2 DEF IndexEntries
  <2> QED
    BY <1>1, <2>1
<1>3. CASE job[i].policy = "singleton" /\ job[i].state = "active" /\ job[j].state = "active"
  <2>1. <<"i2", name, key>> \in IndexEntries(job[i]) /\ <<"i2", name, key>> \in IndexEntries(job[j])
    BY <1>3 DEF IndexEntries
  <2> QED
    BY <1>1, <2>1
<1>4. CASE job[i].policy = "key_strict_fifo" /\ job[i].state = "active" /\ job[j].state = "active"
  <2>1. <<"i8", name, key>> \in IndexEntries(job[i]) /\ <<"i8", name, key>> \in IndexEntries(job[j])
    BY <1>4 DEF IndexEntries
  <2> QED
    BY <1>1, <2>1
<1>5. CASE job[i].policy = "stately" /\ job[i].state \in Pending /\ job[j].state = job[i].state
  <2> DEFINE entry == <<"i3", name, job[i].state, key>>
  <2>1. entry \in IndexEntries(job[i]) /\ entry \in IndexEntries(job[j])
    BY <1>5 DEF IndexEntries, IndexedPending
  <2> QED
    BY <1>1, <2>1
<1>6. CASE job[i].policy = "exclusive" /\ job[i].state \in Pending /\ job[j].state \in Pending
  <2>1. <<"i6", name, key>> \in IndexEntries(job[i]) /\ <<"i6", name, key>> \in IndexEntries(job[j])
    BY <1>6 DEF IndexEntries, IndexedPending
  <2> QED
    BY <1>1, <2>1
<1> QED
  BY <1>2, <1>3, <1>4, <1>5, <1>6 DEF KeptApart

\* Whoever puts jobs back, in whatever order with new ones, a queue never holds two
\* jobs of one key that its policy keeps apart (the docstring of QueuePolicy): each
\* statement that could is refused by an index, the rest cannot.
THEOREM PoliciesHold == Spec => []PolicyKept
<1> DEFINE Indexed == UniqueIndexes(job)
<1>1. Init => Indexed
  BY DEF Init, UniqueIndexes, Rows
<1>2. TypeOK /\ Indexed /\ [Next]_vars => Indexed'
  BY IndexesKept
<1>3. Indexed => PolicyKept
  BY ApartByIndexes
<1> HIDE DEF Indexed
<1> QED
  BY TypeCorrect, <1>1, <1>2, <1>3, PTL DEF Spec
=============================================================================
