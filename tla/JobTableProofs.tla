--------------------------- MODULE JobTableProofs ---------------------------
(* What the statements of JobTable make of one row, for every value of the constants. *)
EXTENDS JobTable, TLAPS

USE DEF Queued, Pending, Finished

\* A row is neither of the two markers for absent rows.
LEMMA RowIsNoMarker ==
  ASSUME NEW row \in JobRow
  PROVE  row \notin {Unused, Deleted}
BY MarkersAssumption

\* The powers of the backoff are positive.
LEMMA PowersOfTwoType ==
  ASSUME NEW i \in 1 .. 16
  PROVE  PowersOfTwo[i] \in Nat /\ PowersOfTwo[i] > 0
BY DEF PowersOfTwo

\* The throttle slot is a time.
LEMMA SingletonOnType ==
  ASSUME NEW spec \in JobSpec, NEW t \in Nat
  PROVE  SingletonOn(spec, t) \in Nat \cup {NULL}
<1> DEFINE secs == spec.singleton_seconds
           offset == IF spec.singleton_next_slot THEN secs ELSE 0
<1>1. CASE secs = NULL
  BY <1>1 DEF SingletonOn
<1>2. CASE secs # NULL
  <2>1. secs \in Nat /\ secs > 0
    BY <1>2 DEF JobSpec
  <2>2. offset \in Nat
    BY <2>1
  <2>3. (t + offset) \div secs \in Nat
    BY <2>1, <2>2
  <2>4. secs * ((t + offset) \div secs) \in Nat
    <3> HIDE DEF secs, offset
    <3> DEFINE slot == (t + offset) \div secs
    <3>1. slot \in Nat
      BY <2>3
    <3> HIDE DEF slot
    <3>2. secs * slot \in Nat
      BY <2>1, <3>1
    <3> QED BY <3>2 DEF slot
  <2> QED
    BY <1>2, <2>4 DEF SingletonOn
<1> QED
  BY <1>1, <1>2

\* insert_jobs builds a row of the table.
LEMMA NewRowType ==
  ASSUME NEW q \in Queue, NEW qrow \in QueueRow, NEW spec \in JobSpec, NEW t \in Nat
  PROVE  NewRow(q, qrow, spec, t) \in JobRow
BY SingletonOnType DEF NewRow, JobRow, QueueRow, JobSpec, Coalesce, JobState

\* route_to_dead_letter builds a row of the table.
LEMMA DeadLetterRowType ==
  ASSUME NEW q \in Queue, NEW qrow \in QueueRow, NEW failed \in JobRow, NEW t \in Nat
  PROVE  DeadLetterRow(q, qrow, failed, t) \in JobRow
BY DefaultsAssumption DEF DeadLetterRow, JobRow, QueueRow, JobState

\* Every UPDATE leaves a row of the table.
LEMMA UpdatedRowTypes ==
  ASSUME NEW row \in JobRow, NEW t \in Nat, NEW delay \in Nat
  PROVE  /\ Claimed(row, t) \in JobRow
         /\ CompletedRow(row, t) \in JobRow
         /\ CancelledRow(row, t) \in JobRow
         /\ ResumedRow(row) \in JobRow
         /\ RetriedRow(row) \in JobRow
         /\ RetryOrFail(row, t, delay) \in JobRow
<1>1. Claimed(row, t) \in JobRow
  <2>1. row.retry_count \in Nat
    BY DEF JobRow
  <2> DEFINE count == IF row.started_on # NULL THEN row.retry_count + 1 ELSE row.retry_count
  <2>2. count \in Nat
    BY <2>1
  <2> HIDE DEF count
  <2>3. [row EXCEPT !.state = "active", !.started_on = t, !.retry_count = count] \in JobRow
    BY <2>2 DEF JobRow, JobState
  <2> QED
    BY <2>3 DEF Claimed, count
<1>2. CompletedRow(row, t) \in JobRow /\ CancelledRow(row, t) \in JobRow
  <2>1. \A state \in JobState : [row EXCEPT !.state = state, !.completed_on = t] \in JobRow
    BY DEF JobRow
  <2> QED
    BY <2>1 DEF CompletedRow, CancelledRow, JobState
<1>3. ResumedRow(row) \in JobRow
  <2>1. \A state \in JobState : [row EXCEPT !.state = state, !.completed_on = NULL] \in JobRow
    BY DEF JobRow
  <2> QED
    BY <2>1 DEF ResumedRow, JobState
<1>4. RetriedRow(row) \in JobRow
  <2> DEFINE limit == row.retry_limit + 1
  <2>1. limit \in Nat
    BY DEF JobRow
  <2> HIDE DEF limit
  <2>2. [row EXCEPT !.state = "retry", !.retry_limit = limit] \in JobRow
    BY <2>1 DEF JobRow, JobState
  <2> QED
    BY <2>2 DEF RetriedRow, limit
<1>5. RetryOrFail(row, t, delay) \in JobRow
  <2> DEFINE start == t + delay
  <2>1. start \in Int
    OBVIOUS
  <2> HIDE DEF start
  <2>2. [row EXCEPT !.state = "retry", !.start_after = start, !.completed_on = NULL] \in JobRow
    <3>1. \A end \in Nat \cup {NULL} : [row EXCEPT !.start_after = start, !.completed_on = end] \in JobRow
      BY <2>1 DEF JobRow
    <3>2. \A other \in JobRow : [other EXCEPT !.state = "retry"] \in JobRow
      BY DEF JobRow, JobState
    <3> DEFINE moved == [row EXCEPT !.start_after = start, !.completed_on = NULL]
    <3>3. [row EXCEPT !.state = "retry", !.start_after = start, !.completed_on = NULL]
            = [moved EXCEPT !.state = "retry"]
      BY DEF JobRow
    <3> HIDE DEF moved
    <3>4. moved \in JobRow
      BY <3>1 DEF moved
    <3> QED
      BY <3>2, <3>3, <3>4
  <2>3. [row EXCEPT !.state = "failed", !.completed_on = t] \in JobRow
    <3>1. \A state \in JobState : [row EXCEPT !.state = state, !.completed_on = t] \in JobRow
      BY DEF JobRow
    <3> QED
      BY <3>1 DEF JobState
  <2> QED
    BY <2>2, <2>3 DEF RetryOrFail, start
<1> QED
  BY <1>1, <1>2, <1>3, <1>4, <1>5

\* A retry is never scheduled into the past.
LEMMA RetryDelaysType ==
  ASSUME NEW row \in JobRow
  PROVE  RetryDelays(row) \subseteq Nat
<1> DEFINE n == IF row.retry_count < 15 THEN row.retry_count + 1 ELSE 16
           power == PowersOfTwo[n]
<1>1. row.retry_delay \in Nat /\ row.retry_count \in Nat /\ row.retry_delay_max \in Nat \cup {NULL}
  BY DEF JobRow
<1>2. power \in Nat
  BY <1>1, PowersOfTwoType
<1>3. power \div 2 \in Nat
  BY <1>2
<1> HIDE DEF power, n
<1>4. row.retry_delay * (power \div 2) \in Nat
  <2> DEFINE half == power \div 2
  <2>1. half \in Nat
    BY <1>3
  <2> HIDE DEF half
  <2> QED
    BY <1>1, <2>1 DEF half
<1>5. \A d \in (row.retry_delay * (power \div 2)) .. (row.retry_delay * power) : d \in Nat
  BY <1>4
<1> QED
  BY <1>1, <1>5 DEF RetryDelays, power, n
=============================================================================
