----------------------- MODULE JobQueueLifecycleProofs -----------------------
(***************************************************************************)
(* JobQueue implements JobLifecycle, for any constants: every step of the  *)
(* tables is a step of the life cycle under the mapping of                 *)
(* JobQueueLifecycle, or leaves it unchanged.                              *)
(***************************************************************************)
EXTENDS JobQueueLifecycle, JobQueueProofs

USE DEF Queued, Pending, Finished

\* The mapping, row by row.
LEMMA MappedRow ==
  ASSUME TypeOK, NEW j \in JobId
  PROVE  /\ job[j] = Unused => Phases[j] = "absent" /\ Tries[j] = 0
         /\ job[j] = Deleted => Phases[j] = "gone" /\ Tries[j] = 0
         /\ job[j] \in JobRow =>
              /\ Phases[j] = IF job[j].state \in Queued THEN "queued" ELSE job[j].state
              /\ Tries[j] = job[j].retry_limit + 1 - claims[j]
              /\ Tries[j] \in Int
<1>1. /\ Phases[j] = PhaseOf(job[j])
      /\ Tries[j] = IF j \in Rows(job) THEN job[j].retry_limit + 1 - claims[j] ELSE 0
  BY DEF Phases, Tries
<1>2. CASE job[j] = Unused \/ job[j] = Deleted
  <2>1. j \notin Rows(job) /\ job[j] \notin JobRow /\ Unused # Deleted
    BY <1>2, RowIsNoMarker, MarkersAssumption DEF Rows
  <2> QED
    BY <1>1, <1>2, <2>1 DEF PhaseOf
<1>3. CASE job[j] \in JobRow
  <2>1. j \in Rows(job) /\ job[j] # Unused /\ job[j] # Deleted
    BY <1>3, RowIsNoMarker DEF Rows
  <2>2. job[j].retry_limit \in Nat /\ claims[j] \in Nat
    BY <1>3 DEF JobRow, TypeOK
  <2> QED
    BY <1>1, <2>1, <2>2 DEF PhaseOf
<1> QED
  BY <1>2, <1>3

\* A row left alone stays where it is.
LEMMA SamePlace ==
  ASSUME NEW j \in JobId, job'[j] = job[j], claims'[j] = claims[j]
  PROVE  Phases'[j] = Phases[j] /\ Tries'[j] = Tries[j]
BY DEF Phases, PhaseOf, Tries, Rows

\* The mapped variables are functions on the ids.
LEMMA MappedFunctions ==
  /\ Phases = [j \in JobId |-> Phases[j]] /\ Phases' = [j \in JobId |-> Phases'[j]]
  /\ Tries = [j \in JobId |-> Tries[j]] /\ Tries' = [j \in JobId |-> Tries'[j]]
BY DEF Phases, Tries

\* A failing transaction fails or re-queues its jobs, and each failed one leaves
\* at most one dead letter: it implements GiveUp.
LEMMA FailingGivesUp ==
  ASSUME TableInv, TableInv', Accounts, NEW S \in SUBSET JobId, \A j \in S : Active(j),
         NEW table \in FailedTables(S), job' = table, UNCHANGED <<claims, resumes>>
  PROVE  \E Letters \in SUBSET JobId : Lifecycle!GiveUp(S, Letters)
<1>1. PICK delay \in Delays(S), source \in CopySources(S) : table = AfterFailing(S, delay, source)
  BY DEF FailedTables
<1>2. PICK N \in SUBSET FreeIds(job) : source \in Bijection(N, Routed(S))
  BY DEF CopySources, kSubset
<1>3. source \in [N -> Routed(S)] /\ IsInjective(source) /\ N \subseteq JobId
  BY <1>2 DEF Bijection, Injection, FreeIds
<1> DEFINE failed == {j \in S : Tries[j] <= 0}
<1>4. ASSUME NEW j \in S
      PROVE  /\ Phases[j] = "active" /\ Tries'[j] = Tries[j]
             /\ Tries[j] <= 0 <=> ~RetriesRemain(job[j])
             /\ Phases'[j] = IF RetriesRemain(job[j]) THEN "queued" ELSE "failed"
             /\ j \notin N
  <2>1. /\ j \in JobId /\ job[j] \in JobRow /\ job[j].state = "active"
        /\ job[j].retry_limit \in Nat /\ claims[j] \in Nat
    BY RowsAreRows DEF TableInv, TypeOK, Active, JobRow
  <2>2. claims[j] > 0 /\ job[j].retry_count = claims[j] - 1
    BY <2>1 DEF Accounts, RowAccount
  <2>3. job'[j] = RetryOrFail(job[j], now, delay[j])
    BY <1>1, <2>1 DEF AfterFailing
  <2>4. /\ job'[j].retry_limit = job[j].retry_limit
        /\ job'[j].state = IF RetriesRemain(job[j]) THEN "retry" ELSE "failed"
    BY <2>1, <2>3 DEF RetryOrFail, JobRow
  <2>5. job'[j] \in JobRow
    <3>1. now \in Nat /\ delay[j] \in Nat
      BY <2>1, RetryDelaysType DEF TableInv, TypeOK, Delays
    <3> QED
      BY <2>1, <2>3, <3>1, UpdatedRowTypes
  <2>6. /\ Phases'[j] = IF job'[j].state \in Queued THEN "queued" ELSE job'[j].state
        /\ Tries'[j] = job'[j].retry_limit + 1 - claims'[j]
    <3>1. j \in Rows(job)' /\ job'[j] # Unused /\ job'[j] # Deleted
      BY <2>1, <2>5, RowIsNoMarker DEF Rows
    <3> QED
      BY <2>1, <3>1 DEF Phases, PhaseOf, Tries
  <2>7. Phases[j] = "active" /\ Tries[j] = job[j].retry_limit + 1 - claims[j]
    BY <2>1, MappedRow DEF TableInv
  <2>8. j \notin N
    BY <1>2, <2>1, RowIsNoMarker DEF FreeIds
  <2> QED
    BY <2>1, <2>2, <2>4, <2>6, <2>7, <2>8 DEF RetriesRemain
<1>5. ASSUME NEW j \in N
      PROVE  Phases[j] = "absent" /\ Phases'[j] = "queued" /\ Tries'[j] \in Int /\ Tries'[j] > 0
  <2>1. j \in JobId /\ job[j] = Unused /\ j \notin S
    BY <1>2, <1>4 DEF FreeIds
  <2>2. PICK q \in Queue, i \in S :
          queue[q] # NULL /\ table[j] = DeadLetterRow(q, queue[q], job[i], now)
    <3>1. source[j] \in S /\ job[source[j]].dead_letter # NULL
      BY <1>3 DEF Routed
    <3>2. job[source[j]] \in JobRow /\ source[j] \in Rows(job)
      BY <3>1, RowsAreRows DEF TableInv, Active
    <3>3. /\ job[source[j]].dead_letter \in Queue
          /\ queue[job[source[j]].dead_letter] # NULL
      BY <3>1, <3>2 DEF TableInv, ForeignKeys, JobRow
    <3>4. table[j] = DeadLetterRow(job[source[j]].dead_letter,
                                   queue[job[source[j]].dead_letter], job[source[j]], now)
      BY <1>1, <1>3, <2>1 DEF AfterFailing
    <3> QED
      BY <3>1, <3>3, <3>4
  <2>3. /\ queue[q] \in QueueRow /\ job[i] \in JobRow /\ now \in Nat
    BY <2>2, RowsAreRows DEF TableInv, TypeOK, Active
  <2>4. job'[j] \in JobRow /\ job'[j].state = "created" /\ job'[j].retry_limit \in Nat
    <3>1. DeadLetterRow(q, queue[q], job[i], now) \in JobRow
      BY <2>3, DeadLetterRowType
    <3>2. DeadLetterRow(q, queue[q], job[i], now).state = "created"
      BY DEF DeadLetterRow
    <3> QED
      BY <2>2, <3>1, <3>2 DEF JobRow
  <2>5. Phases[j] = "absent" /\ claims'[j] = 0
    BY <2>1, MappedRow DEF TableInv, Accounts
  <2>6. j \in Rows(job)' /\ job'[j] # Unused /\ job'[j] # Deleted
    BY <2>1, <2>4, RowIsNoMarker DEF Rows
  <2> QED
    BY <2>1, <2>4, <2>5, <2>6 DEF Phases, PhaseOf, Tries
<1>6. ASSUME NEW j \in JobId, j \notin S, j \notin N
      PROVE  Phases'[j] = Phases[j] /\ Tries'[j] = Tries[j]
  <2>1. job'[j] = job[j]
    BY <1>1, <1>3, <1>6 DEF AfterFailing
  <2> QED
    BY <2>1, SamePlace
<1>7. source \in [N -> failed]
  BY <1>3, <1>4 DEF Routed
<1>8. Tries' \in [JobId -> Int] /\ \A j \in JobId : IF j \in N THEN Tries'[j] > 0
                                                            ELSE Tries'[j] = Tries[j]
  <2>1. \A j \in JobId : Tries'[j] \in Int
    <3>1. \A j \in JobId : Tries[j] \in Int
      BY MappedRow DEF TableInv, TypeOK
    <3> QED
      BY <1>4, <1>5, <1>6, <3>1
  <2> QED
    BY <1>4, <1>5, <1>6, <2>1, MappedFunctions
<1>9. Phases' = [j \in JobId |-> CASE j \in failed -> "failed"
                                   [] j \in (S \ failed) \cup N -> "queued"
                                   [] OTHER -> Phases[j]]
  <2>1. ASSUME NEW j \in JobId
        PROVE  Phases'[j] = CASE j \in failed -> "failed"
                              [] j \in (S \ failed) \cup N -> "queued"
                              [] OTHER -> Phases[j]
    <3>1. CASE j \in failed
      BY <1>4, <3>1
    <3>2. CASE j \in (S \ failed) \cup N
      <4>1. j \notin failed /\ Phases'[j] = "queued"
        BY <1>4, <1>5, <3>2
      <4> HIDE DEF failed
      <4> QED
        BY <3>2, <4>1
    <3>3. CASE j \notin S /\ j \notin N
      BY <1>6, <3>3
    <3> QED
      BY <3>1, <3>2, <3>3
  <2> HIDE DEF failed
  <2> QED
    BY <2>1, MappedFunctions
<1>10. Lifecycle!GiveUp(S, N)
  <2>1. \E s \in [N -> failed] : Lifecycle!IsInjective(s)
    BY <1>3, <1>7 DEF IsInjective, Lifecycle!IsInjective
  <2>2. Lifecycle!In(S, "active") /\ Lifecycle!In(N, "absent")
    BY <1>4, <1>5 DEF Lifecycle!In
  <2>3. Lifecycle!Endow(N)
    BY <1>8 DEF Lifecycle!Endow
  <2> QED
    BY <1>9, <2>1, <2>2, <2>3 DEF Lifecycle!GiveUp
<1> QED
  BY <1>3, <1>10

\* A step that moves every job of S to one phase, and nothing else.
LEMMA Moving ==
  ASSUME NEW S \in SUBSET JobId, NEW ph, \A j \in S : Phases'[j] = ph,
         \A j \in JobId \ S : Phases'[j] = Phases[j]
  PROVE  Lifecycle!Move(S, ph)
BY MappedFunctions DEF Lifecycle!Move

\* What a single row's place becomes when its new row is known.
LEMMA NewPlace ==
  ASSUME NEW j \in JobId, NEW row \in JobRow, job'[j] = row
  PROVE  /\ Phases'[j] = IF row.state \in Queued THEN "queued" ELSE row.state
         /\ Tries'[j] = row.retry_limit + 1 - claims'[j]
<1>1. j \in Rows(job)' /\ row # Unused /\ row # Deleted
  BY RowIsNoMarker DEF Rows
<1> QED
  BY <1>1 DEF Phases, PhaseOf, Tries

LEMMA InsertArrives ==
  ASSUME TableInv, TableInv', Accounts, NEW q \in Queue, InsertJobs(q)
  PROVE  \E S \in SUBSET JobId : Lifecycle!Arrive(S)
<1>1. PICK N \in SUBSET FreeIds(job) : \E spec \in [N -> JobSpecs[q]] :
        job' = [i \in JobId |-> IF i \in N THEN NewRow(q, queue[q], spec[i], now) ELSE job[i]]
  BY DEF InsertJobs
<1>2. PICK spec \in [N -> JobSpecs[q]] :
        job' = [i \in JobId |-> IF i \in N THEN NewRow(q, queue[q], spec[i], now) ELSE job[i]]
  BY <1>1
<1>3. UNCHANGED <<claims, resumes>> /\ N \in SUBSET JobId
  BY DEF InsertJobs, FreeIds
<1>4. ASSUME NEW j \in N
      PROVE  Phases[j] = "absent" /\ Phases'[j] = "queued" /\ Tries'[j] \in Int /\ Tries'[j] > 0
  <2>1. j \in JobId /\ job[j] = Unused /\ claims[j] = 0
    BY DEF FreeIds, Accounts
  <2> DEFINE row == NewRow(q, queue[q], spec[j], now)
  <2>2. row \in JobRow
    <3>1. queue[q] \in QueueRow /\ now \in Nat /\ spec[j] \in JobSpec
      BY ParametersAssumption DEF InsertJobs, TableInv, TypeOK
    <3> QED
      BY <3>1, NewRowType
  <2>3. row.state = "created" /\ row.retry_limit \in Nat
    BY <2>2 DEF NewRow, JobRow
  <2>4. job'[j] = row
    BY <1>2, <2>1
  <2> HIDE DEF row
  <2> QED
    BY <1>3, <2>1, <2>2, <2>3, <2>4, NewPlace, MappedRow DEF TableInv
<1>5. \A j \in JobId \ N : Phases'[j] = Phases[j] /\ Tries'[j] = Tries[j]
  BY <1>2, <1>3, SamePlace
<1>6. Lifecycle!Endow(N)
  <2>1. \A j \in JobId : Tries[j] \in Int
    BY MappedRow DEF TableInv, TypeOK
  <2> QED
    BY <1>4, <1>5, <2>1, MappedFunctions DEF Lifecycle!Endow
<1> QED
  BY <1>3, <1>4, <1>5, <1>6, Moving DEF Lifecycle!Arrive, Lifecycle!In

LEMMA FetchDelivers ==
  ASSUME TableInv, TableInv', Accounts, NEW w \in Worker, FetchNextJob(w)
  PROVE  \E S \in SUBSET JobId : Lifecycle!Deliver(S)
<1>1. PICK S \in SUBSET {i \in Rows(job) : Fetchable(job[i], WorkQueue[w], now)} :
        /\ job' = [i \in JobId |-> IF i \in S THEN Claimed(job[i], now) ELSE job[i]]
        /\ claims' = [i \in JobId |-> IF i \in S THEN claims[i] + 1 ELSE claims[i]]
  BY DEF FetchNextJob
<1>2. UNCHANGED resumes
  BY DEF FetchNextJob
<1>3. S \in SUBSET JobId
  BY DEF Rows
<1>4. ASSUME NEW j \in S
      PROVE  /\ Phases[j] = "queued" /\ Phases'[j] = "active"
             /\ Tries[j] + resumes[j] > 0 /\ Tries'[j] = Tries[j] - 1
  <2>1. /\ j \in JobId /\ job[j] \in JobRow /\ job[j].state \in Queued
        /\ job[j].retry_limit \in Nat /\ claims[j] \in Nat /\ resumes[j] \in Nat /\ now \in Nat
    BY RowsAreRows DEF TableInv, TypeOK, Fetchable, JobRow
  <2>2. claims[j] <= job[j].retry_limit + resumes[j]
    BY <2>1 DEF Accounts, RowAccount
  <2>3. /\ Claimed(job[j], now) \in JobRow /\ Claimed(job[j], now).state = "active"
        /\ Claimed(job[j], now).retry_limit = job[j].retry_limit
    <3>1. Claimed(job[j], now) \in JobRow
      BY <2>1, UpdatedRowTypes
    <3> QED
      BY <2>1, <3>1 DEF Claimed, JobRow
  <2>4. job'[j] = Claimed(job[j], now) /\ claims'[j] = claims[j] + 1
    BY <1>1, <2>1
  <2>5. Phases'[j] = "active" /\ Tries'[j] = job[j].retry_limit + 1 - claims'[j]
    BY <2>1, <2>3, <2>4, NewPlace
  <2>6. Phases[j] = "queued" /\ Tries[j] = job[j].retry_limit + 1 - claims[j]
    BY <2>1, MappedRow DEF TableInv
  <2> QED
    BY <2>1, <2>2, <2>4, <2>5, <2>6
<1>5. \A j \in JobId \ S : Phases'[j] = Phases[j] /\ Tries'[j] = Tries[j]
  BY <1>1, SamePlace
<1>6. Tries' = [j \in JobId |-> IF j \in S THEN Tries[j] - 1 ELSE Tries[j]]
  BY <1>4, <1>5, MappedFunctions
<1>7. Lifecycle!Move(S, "active")
  BY <1>3, <1>4, <1>5, Moving
<1> QED
  BY <1>2, <1>3, <1>4, <1>6, <1>7 DEF Lifecycle!Deliver, Lifecycle!In

\* Completing a set of active jobs, a batch or a single one.
LEMMA CompletingFinishes ==
  ASSUME TableInv, TableInv', NEW S \in SUBSET JobId, \A j \in S : Active(j),
         job' = [j \in JobId |-> IF j \in S THEN CompletedRow(job[j], now) ELSE job[j]],
         UNCHANGED <<claims, resumes>>
  PROVE  Lifecycle!Finish(S)
<1>1. ASSUME NEW j \in S
      PROVE  Phases[j] = "active" /\ Phases'[j] = "completed" /\ Tries'[j] = Tries[j]
  <2>1. job[j] \in JobRow /\ job[j].state = "active" /\ now \in Nat
    BY RowsAreRows DEF TableInv, TypeOK, Active
  <2>2. /\ CompletedRow(job[j], now) \in JobRow
        /\ CompletedRow(job[j], now).state = "completed"
        /\ CompletedRow(job[j], now).retry_limit = job[j].retry_limit
    <3>1. CompletedRow(job[j], now) \in JobRow
      BY <2>1, UpdatedRowTypes
    <3> QED
      BY <2>1, <3>1 DEF CompletedRow, JobRow
  <2> QED
    BY <2>1, <2>2, NewPlace, MappedRow DEF TableInv
<1>2. \A j \in JobId \ S : Phases'[j] = Phases[j] /\ Tries'[j] = Tries[j]
  BY SamePlace
<1>3. Lifecycle!Move(S, "completed") /\ Tries' = Tries
  BY <1>1, <1>2, Moving, MappedFunctions
<1> QED
  BY <1>1, <1>3 DEF Lifecycle!Finish, Lifecycle!In

\* Deleting rows, by the purge or by id.
LEMMA DeletingForgets ==
  ASSUME TableInv, TableInv', NEW S \in SUBSET Rows(job),
         job' = [j \in JobId |-> IF j \in S THEN Deleted ELSE job[j]],
         UNCHANGED <<claims, resumes>>
  PROVE  S \in SUBSET JobId /\ Lifecycle!Forget(S)
<1>1. S \in SUBSET JobId
  BY DEF Rows
<1>2. ASSUME NEW j \in S
      PROVE  Phases[j] \notin {"absent", "gone"} /\ Phases'[j] = "gone" /\ Tries'[j] = 0
  <2>1. job[j] \in JobRow /\ job'[j] = Deleted /\ j \in JobId
    BY <1>1, RowsAreRows DEF TableInv
  <2>2. Phases[j] \notin {"absent", "gone"}
    BY <2>1, MappedRow DEF TableInv, JobRow, JobState
  <2> QED
    BY <2>1, <2>2, MarkersAssumption DEF Phases, PhaseOf, Tries, Rows
<1>3. \A j \in JobId \ S : Phases'[j] = Phases[j] /\ Tries'[j] = Tries[j]
  BY SamePlace
<1>4. Lifecycle!Move(S, "gone")
  BY <1>1, <1>2, <1>3, Moving
<1>5. Tries' = [j \in JobId |-> IF j \in S THEN 0 ELSE Tries[j]]
  BY <1>2, <1>3, MappedFunctions
<1> QED
  BY <1>1, <1>2, <1>4, <1>5 DEF Lifecycle!Forget

\* The administrative calls on one job.
LEMMA AdministeringMaps ==
  ASSUME TableInv, TableInv', NEW j \in JobId, Administer(j)
  PROVE  Lifecycle!LNext
<1>typed. /\ job \in [JobId -> JobRow \cup {Unused, Deleted}]
          /\ now \in Nat /\ resumes \in [JobId -> Nat]
  BY DEF TableInv, TypeOK
<1>rows. \A i \in JobId : Active(i) => job[i] \in JobRow
  BY RowsAreRows DEF TableInv, Active
<1>1. ASSUME NEW row \in JobRow, j \in Rows(job), job' = [job EXCEPT ![j] = row],
             claims' = claims, row.retry_limit \in Nat
      PROVE  /\ Phases' = [Phases EXCEPT ![j] = IF row.state \in Queued THEN "queued"
                                                 ELSE row.state]
             /\ Tries' = [Tries EXCEPT ![j] = row.retry_limit + 1 - claims[j]]
             /\ Phases[j] = IF job[j].state \in Queued THEN "queued" ELSE job[j].state
             /\ Tries[j] = job[j].retry_limit + 1 - claims[j]
  <2>1. job'[j] = row
    BY <1>1, <1>typed
  <2>2. \A i \in JobId \ {j} : Phases'[i] = Phases[i] /\ Tries'[i] = Tries[i]
    BY <1>1, <1>typed, SamePlace
  <2>3. job[j] \in JobRow
    BY <1>1, RowsAreRows DEF TableInv
  <2> QED
    BY <1>1, <2>1, <2>2, <2>3, NewPlace, MappedRow, MappedFunctions DEF TableInv
<1>2. CASE CancelJob(j)
  <2> DEFINE row == CancelledRow(job[j], now)
  <2>1. job[j] \in JobRow /\ job[j].state \in Pending /\ job[j].retry_limit \in Nat
    BY <1>2, RowsAreRows DEF CancelJob, TableInv, JobRow
  <2>2. row \in JobRow
    BY <1>typed, <2>1, UpdatedRowTypes
  <2>3. row.state = "cancelled" /\ row.retry_limit = job[j].retry_limit
    BY <2>1 DEF CancelledRow, JobRow
  <2>4. /\ j \in Rows(job) /\ job' = [job EXCEPT ![j] = row]
        /\ claims' = claims /\ resumes' = resumes
    BY <1>2 DEF CancelJob
  <2> HIDE DEF row
  <2>5. /\ Phases' = [Phases EXCEPT ![j] = "cancelled"]
        /\ Tries' = [Tries EXCEPT ![j] = Tries[j]]
        /\ Phases[j] \in {"queued", "active"}
    BY <1>1, <2>1, <2>2, <2>3, <2>4
  <2>6. Tries' = Tries
    BY <2>5, MappedFunctions
  <2> QED
    BY <2>4, <2>5, <2>6 DEF Lifecycle!LNext, Lifecycle!Cancel
<1>3. CASE ResumeJob(j)
  <2> DEFINE row == ResumedRow(job[j])
  <2>1. job[j] \in JobRow /\ job[j].state = "cancelled" /\ job[j].retry_limit \in Nat
    BY <1>3, RowsAreRows DEF ResumeJob, TableInv, JobRow
  <2>2. row \in JobRow
    BY <1>typed, <2>1, UpdatedRowTypes
  <2>3. row.state = "created" /\ row.retry_limit = job[j].retry_limit
    BY <2>1 DEF ResumedRow, JobRow
  <2>4. /\ j \in Rows(job) /\ job' = [job EXCEPT ![j] = row]
        /\ claims' = claims /\ resumes' = [resumes EXCEPT ![j] = @ + 1]
    BY <1>3 DEF ResumeJob
  <2> HIDE DEF row
  <2>5. /\ Phases' = [Phases EXCEPT ![j] = "queued"]
        /\ Tries' = [Tries EXCEPT ![j] = Tries[j]]
        /\ Phases[j] = "cancelled"
    BY <1>1, <2>1, <2>2, <2>3, <2>4
  <2>6. Tries' = Tries
    BY <2>5, MappedFunctions
  <2> QED
    BY <2>4, <2>5, <2>6 DEF Lifecycle!LNext, Lifecycle!Resume
<1>4. CASE RetryJob(j)
  <2> DEFINE row == RetriedRow(job[j])
  <2>1. job[j] \in JobRow /\ job[j].state = "failed" /\ job[j].retry_limit \in Nat
        /\ claims[j] \in Nat
    BY <1>4, RowsAreRows DEF RetryJob, TableInv, TypeOK, JobRow
  <2>2. row \in JobRow
    BY <1>typed, <2>1, UpdatedRowTypes
  <2>3. row.state = "retry" /\ row.retry_limit = job[j].retry_limit + 1
    BY <2>1 DEF RetriedRow, JobRow
  <2>4. /\ j \in Rows(job) /\ job' = [job EXCEPT ![j] = row]
        /\ claims' = claims /\ resumes' = resumes
    BY <1>4 DEF RetryJob
  <2> HIDE DEF row
  <2>5. row.retry_limit \in Nat
    BY <2>1, <2>3
  <2>6. /\ Phases' = [Phases EXCEPT ![j] = "queued"]
        /\ Tries' = [Tries EXCEPT ![j] = row.retry_limit + 1 - claims[j]]
        /\ Phases[j] = "failed" /\ Tries[j] = job[j].retry_limit + 1 - claims[j]
    BY <1>1, <2>1, <2>2, <2>3, <2>4, <2>5
  <2>7. row.retry_limit + 1 - claims[j] = Tries[j] + 1
    BY <2>1, <2>3, <2>6
  <2> QED
    BY <2>4, <2>6, <2>7 DEF Lifecycle!LNext, Lifecycle!Retry
<1>5. CASE CompleteJob(j)
  <2>1. /\ \A i \in {j} : Active(i)
        /\ job' = [i \in JobId |-> IF i \in {j} THEN CompletedRow(job[i], now) ELSE job[i]]
        /\ UNCHANGED <<claims, resumes>>
    BY <1>5, <1>typed DEF CompleteJob
  <2>2. Lifecycle!Finish({j})
    BY <2>1, CompletingFinishes
  <2> QED
    BY <2>2 DEF Lifecycle!LNext
<1>6. CASE DeleteJob(j)
  <2>1. /\ {j} \in SUBSET Rows(job)
        /\ job' = [i \in JobId |-> IF i \in {j} THEN Deleted ELSE job[i]]
        /\ UNCHANGED <<claims, resumes>>
    BY <1>6, <1>typed DEF DeleteJob
  <2>2. {j} \in SUBSET JobId /\ Lifecycle!Forget({j})
    BY <2>1, DeletingForgets
  <2> QED
    BY <2>2 DEF Lifecycle!LNext
<1> QED
  BY <1>2, <1>3, <1>4, <1>5, <1>6 DEF Administer

\* A step that leaves the job table alone stutters.
LEMMA Stuttering ==
  ASSUME UNCHANGED <<job, claims, resumes>>
  PROVE  UNCHANGED <<Phases, Tries, resumes>>
BY DEF Phases, PhaseOf, Tries, Rows

\* Every step of the tables is a step of the life cycle or a stutter.
LEMMA StepImplements ==
  ASSUME TableInv, TableInv', Accounts, [Next]_vars
  PROVE  [Lifecycle!LNext]_(Lifecycle!lifecycle)
<1> DEFINE Goal == Lifecycle!LNext \/ UNCHANGED <<Phases, Tries, resumes>>
<1> SUFFICES Goal
  BY DEF Lifecycle!lifecycle
<1>1. ASSUME UNCHANGED <<job, claims, resumes>> PROVE Goal
  BY <1>1, Stuttering
<1>2. ASSUME NEW S \in SUBSET JobId, \A j \in S : Active(j),
             NEW table \in FailedTables(S), job' = table \/ job' = job,
             UNCHANGED <<claims, resumes>>
      PROVE  Goal
  <2>1. CASE job' = table
    BY <1>2, <2>1, FailingGivesUp DEF Lifecycle!LNext
  <2>2. CASE job' = job
    BY <1>1, <1>2, <2>2
  <2> QED
    BY <1>2, <2>1, <2>2
<1>3. CASE Produce
  <2>1. ASSUME NEW q \in Queue, InsertJobs(q) PROVE Goal
    BY <2>1, InsertArrives DEF Lifecycle!LNext
  <2> QED
    BY <1>1, <1>3, <2>1 DEF Produce, CreateQueue
<1>4. ASSUME NEW w \in Worker, Work(w) PROVE Goal
  <2>1. CASE FetchNextJob(w)
    BY <2>1, FetchDelivers DEF Lifecycle!LNext
  <2>2. CASE Complete(w)
    <3>1. Settling(w) \in SUBSET JobId /\ \A j \in Settling(w) : Active(j)
      BY DEF Settling, Batch
    <3>2. Lifecycle!Finish(Settling(w))
      BY <2>2, <3>1, CompletingFinishes DEF Complete
    <3> QED
      BY <3>1, <3>2 DEF Lifecycle!LNext
  <2>3. CASE Fail(w)
    <3>1. Settling(w) \in SUBSET JobId /\ \A j \in Settling(w) : Active(j)
      BY DEF Settling, Batch
    <3>2. PICK table \in FailedTables(Settling(w)) : job' = table \/ job' = job
      BY <2>3 DEF Fail
    <3> QED
      BY <1>2, <2>3, <3>1, <3>2 DEF Fail
  <2>4. CASE Abandon(w)
    BY <1>1, <2>4 DEF Abandon
  <2> QED
    BY <1>4, <2>1, <2>2, <2>3, <2>4 DEF Work
<1>5. ASSUME NEW n \in Node, Sweep(n) PROVE Goal
  <2>1. CASE FailExpired(n)
    <3>1. LapsedJobs \in SUBSET JobId /\ \A j \in LapsedJobs : Active(j)
      BY DEF LapsedJobs, Lapsed, Active, Rows
    <3>2. PICK table \in FailedTables(LapsedJobs) : job' = table \/ job' = job
      BY <2>1 DEF FailExpired
    <3> QED
      BY <1>2, <2>1, <3>1, <3>2 DEF FailExpired
  <2>2. CASE DeleteOld(n)
    <3> DEFINE S == {j \in Rows(job) : Purgeable(job[j], now)}
    <3>1. S \in SUBSET Rows(job)
      OBVIOUS
    <3>2. /\ job' = [j \in JobId |-> IF j \in S THEN Deleted ELSE job[j]]
          /\ UNCHANGED <<claims, resumes>>
      BY <2>2 DEF DeleteOld
    <3> HIDE DEF S
    <3>3. S \in SUBSET JobId /\ Lifecycle!Forget(S)
      BY <3>1, <3>2, DeletingForgets
    <3> QED
      BY <3>3 DEF Lifecycle!LNext
  <2>3. CASE AbortSweep(n)
    BY <1>1, <2>3 DEF AbortSweep
  <2> QED
    BY <1>5, <2>1, <2>2, <2>3 DEF Sweep
<1>6. ASSUME NEW j \in JobId, Administer(j) PROVE Goal
  BY <1>6, AdministeringMaps
<1>7. CASE Tick \/ UNCHANGED vars
  BY <1>1, <1>7 DEF Tick, vars
<1> QED
  BY <1>3, <1>4, <1>5, <1>6, <1>7 DEF Next

\* The tables implement the life cycle: whatever workers, crashes, sweeps and
\* administrators do, a job is delivered only from the queue and only while its
\* limit and its resumes allow it, is given up only when they do not, and leaves
\* at most one dead letter.
THEOREM LifecycleImplemented == Spec => ImplementsLifecycle
<1>1. Init => Lifecycle!LInit
  BY MarkersAssumption DEF Init, Lifecycle!LInit, Phases, PhaseOf, Tries, Rows
<1>2. Init => Accounts
  BY MarkersAssumption DEF Init, Accounts
<1>3. TableInv /\ Accounts /\ [Next]_vars => Accounts'
  BY AccountsInductive
<1>4. TableInv /\ TableInv' /\ Accounts /\ [Next]_vars =>
        [Lifecycle!LNext]_(Lifecycle!lifecycle)
  BY StepImplements
<1> QED
  BY <1>1, <1>2, <1>3, <1>4, TablesWellFormed, PTL
     DEF Spec, ImplementsLifecycle, Lifecycle!LSpec
=============================================================================
