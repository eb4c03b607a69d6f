------------------------------ MODULE JobTable ------------------------------
(***************************************************************************)
(* The two tables of the queue, `queue` and `job` (schema.py), and what    *)
(* each statement of sql.py writes into one row: the SET clauses, the      *)
(* columns of a new row, the conditions of the WHERE clauses, and the      *)
(* partial unique indexes that carry the queue policies.                   *)
(*                                                                         *)
(* Timestamps are absolute natural numbers (seconds of the database's own  *)
(* clock, now()); intervals are natural numbers of the same unit.          *)
(***************************************************************************)
EXTENDS Integers, FiniteSets, FiniteSetsExt, Functions

CONSTANTS
  Queue,                 \* queue names
  JobId,                 \* job ids (uuids: never used twice)
  Payload,               \* what a job carries (column data)
  Key,                   \* singleton keys
  NULL,                  \* SQL NULL
  Unused,                \* an id no row was ever inserted under
  Deleted,               \* an id whose row was deleted
  DefaultExpireSeconds   \* the column default of job.expire_seconds (900)

ASSUME DefaultsAssumption == DefaultExpireSeconds \in Nat

-----------------------------------------------------------------------------
(* Rows. *)

\* The order of the enum matters: the SQL compares states with < and <=.
JobState == {"created", "retry", "active", "completed", "cancelled", "failed"}
Queued   == {"created", "retry"}               \* state < 'active'
Pending  == Queued \cup {"active"}             \* state <= 'active', state < 'completed'
Finished == JobState \ Pending                 \* state > 'active'

QueuePolicy == {"standard", "short", "singleton", "stately", "exclusive",
                "key_strict_fifo"}

QueueRow ==
  [policy : QueuePolicy, retry_limit : Nat, retry_delay : Nat,
   retry_backoff : BOOLEAN, retry_delay_max : Nat \cup {NULL},
   expire_seconds : Nat, retention_seconds : Nat, deletion_seconds : Nat,
   dead_letter : Queue \cup {NULL}]

JobRow ==
  [state : JobState, name : Queue, data : Payload,
   policy : QueuePolicy \cup {NULL},
   singleton_key : Key \cup {NULL}, singleton_on : Nat \cup {NULL},
   retry_limit : Nat, retry_count : Nat, retry_delay : Nat,
   retry_backoff : BOOLEAN, retry_delay_max : Nat \cup {NULL},
   expire_seconds : Nat, deletion_seconds : Nat,
   dead_letter : Queue \cup {NULL},
   start_after : Int, keep_until : Int,
   started_on : Nat \cup {NULL}, completed_on : Nat \cup {NULL}]

\* What send() and insert() put into the job's JSON: NULL for a key left out.
\* start_after is relative to the clock; an absolute time may lie in the past.
JobSpec ==
  [data : Payload, start_after : Int, singleton_key : Key \cup {NULL},
   singleton_seconds : (Nat \ {0}) \cup {NULL}, singleton_next_slot : BOOLEAN,
   retry_limit : Nat \cup {NULL}, retry_delay : Nat \cup {NULL},
   retry_backoff : BOOLEAN \cup {NULL}, expire_seconds : Nat \cup {NULL},
   dead_letter : Queue \cup {NULL}]

ASSUME MarkersAssumption ==
  /\ NULL \notin Nat /\ NULL \notin Queue /\ NULL \notin Key
  /\ Unused \notin JobRow /\ Deleted \notin JobRow /\ Unused # Deleted

Coalesce(value, default) == IF value = NULL THEN default ELSE value

\* The ids that name a row, and the ids an INSERT may still draw.
Rows(table) == {j \in JobId : table[j] \notin {Unused, Deleted}}
FreeIds(table) == {j \in JobId : table[j] = Unused}

-----------------------------------------------------------------------------
(* New rows. *)

\* The start of the throttle slot a job falls into; singleton_next_slot adds
\* one slot (the offset of _job_payload).
SingletonOn(spec, t) ==
  LET secs   == spec.singleton_seconds
      offset == IF spec.singleton_next_slot THEN secs ELSE 0
  IN  IF secs = NULL THEN NULL ELSE secs * ((t + offset) \div secs)

\* The row insert_jobs builds for spec on queue q, whose row is qrow.
NewRow(q, qrow, spec, t) ==
  [state |-> "created", name |-> q, data |-> spec.data, policy |-> qrow.policy,
   singleton_key    |-> spec.singleton_key,
   singleton_on     |-> SingletonOn(spec, t),
   retry_limit      |-> Coalesce(spec.retry_limit, qrow.retry_limit),
   retry_count      |-> 0,
   retry_delay      |-> Coalesce(spec.retry_delay, qrow.retry_delay),
   retry_backoff    |-> Coalesce(spec.retry_backoff, qrow.retry_backoff),
   retry_delay_max  |-> qrow.retry_delay_max,
   expire_seconds   |-> Coalesce(spec.expire_seconds, qrow.expire_seconds),
   deletion_seconds |-> qrow.deletion_seconds,
   dead_letter      |-> Coalesce(spec.dead_letter, qrow.dead_letter),
   start_after      |-> t + spec.start_after,
   keep_until       |-> t + spec.start_after + qrow.retention_seconds,
   started_on |-> NULL, completed_on |-> NULL]

\* The copy route_to_dead_letter inserts into queue q: columns it does not name
\* take the table's defaults, so the copy has no policy, no singleton key, no
\* dead letter of its own and the default lease.
DeadLetterRow(q, qrow, failed, t) ==
  [state |-> "created", name |-> q, data |-> failed.data, policy |-> NULL,
   singleton_key    |-> NULL,
   singleton_on     |-> NULL,
   retry_limit      |-> qrow.retry_limit,
   retry_count      |-> 0,
   retry_delay      |-> qrow.retry_delay,
   retry_backoff    |-> qrow.retry_backoff,
   retry_delay_max  |-> NULL,
   expire_seconds   |-> DefaultExpireSeconds,
   deletion_seconds |-> qrow.deletion_seconds,
   dead_letter      |-> NULL,
   start_after      |-> t,
   keep_until       |-> t + qrow.retention_seconds,
   started_on |-> NULL, completed_on |-> NULL]

\* The CHECK on the job table: a key_strict_fifo job carries a key.
KeyCheck(row) == row.policy = "key_strict_fifo" => row.singleton_key # NULL

-----------------------------------------------------------------------------
(* The SET clause of each UPDATE, on one row. *)

\* Mutant: counts only claims from the state 'retry', not of a resumed job.
ClaimedFromRetry(row, t) ==
  [row EXCEPT !.state = "active", !.started_on = t,
              !.retry_count = IF row.state = "retry" THEN @ + 1 ELSE @]

\* fetch_next_job: only a job that was delivered before counts a retry.
Claimed(row, t) ==
  [row EXCEPT !.state = "active", !.started_on = t,
              !.retry_count = IF row.started_on # NULL THEN @ + 1 ELSE @]

CompletedRow(row, t) == [row EXCEPT !.state = "completed", !.completed_on = t]

CancelledRow(row, t) == [row EXCEPT !.state = "cancelled", !.completed_on = t]

\* Mutant: resume leaves completed_on, as retry does.
ResumedKeepingEnd(row) == [row EXCEPT !.state = "created"]

ResumedRow(row) == [row EXCEPT !.state = "created", !.completed_on = NULL]

\* Mutant: the limit moves the wrong way.
RetriedLowering(row) == [row EXCEPT !.state = "retry", !.retry_limit = @ - 1]

\* retry_jobs leaves completed_on and start_after as they were.
RetriedRow(row) == [row EXCEPT !.state = "retry", !.retry_limit = @ + 1]

\* Mutant: one try too many.
RetriesRemainUpTo(row) == row.retry_count <= row.retry_limit

\* _retry_or_fail_set, given the delay drawn for the next attempt.
RetriesRemain(row) == row.retry_count < row.retry_limit

RetryOrFail(row, t, delay) ==
  IF RetriesRemain(row)
    THEN [row EXCEPT !.state = "retry", !.start_after = t + delay, !.completed_on = NULL]
    ELSE [row EXCEPT !.state = "failed", !.completed_on = t]

\* The delays that expression can produce: with backoff, a random point of
\* [d/2, d] for d = retry_delay * 2^min(16, retry_count + 1), capped.
PowersOfTwo == <<2, 4, 8, 16, 32, 64, 128, 256, 512, 1024, 2048, 4096, 8192,
                 16384, 32768, 65536>>

RetryDelays(row) ==
  LET power  == PowersOfTwo[IF row.retry_count < 15 THEN row.retry_count + 1 ELSE 16]
      cap(d) == IF row.retry_delay_max # NULL /\ row.retry_delay_max < d
                THEN row.retry_delay_max ELSE d
  IN  IF row.retry_backoff
        THEN {cap(d) : d \in (row.retry_delay * (power \div 2)) .. (row.retry_delay * power)}
        ELSE {row.retry_delay}

-----------------------------------------------------------------------------
(* The WHERE clauses that involve the clock. *)

\* Mutant: state <= 'active'.
FetchableActive(row, q, t) == row.name = q /\ row.state \in Pending /\ row.start_after <= t

\* fetch_next_job: queued, and its start has come.
Fetchable(row, q, t) == row.name = q /\ row.state \in Queued /\ row.start_after <= t

\* Mutant: the last instant of the lease counts as over.
LapsedAtEnd(row, t) == row.state = "active" /\ row.started_on + row.expire_seconds <= t

\* fail_expired_jobs: the lease of an active job has run out.
Lapsed(row, t) == row.state = "active" /\ row.started_on + row.expire_seconds < t

\* delete_old_jobs: completed_on is tested whatever the state is.
PastDeletion(row, t) ==
  /\ row.deletion_seconds > 0
  /\ row.completed_on # NULL
  /\ row.completed_on + row.deletion_seconds < t

Purgeable(row, t) ==
  PastDeletion(row, t) \/ (row.state \in Queued /\ row.keep_until < t)

-----------------------------------------------------------------------------
(* The partial unique indexes job_i1, i2, i3, i6, i8 and i4. *)

\* Mutant: WHERE state < 'active'.
IndexedQueued == Queued

\* WHERE state <= 'active', of job_i3 and job_i6.
IndexedPending == Pending

\* The entries a row occupies. COALESCE(singleton_key, '') makes NULL a key.
IndexEntries(row) ==
  LET key == row.singleton_key IN
  UNION { IF row.policy = "short" /\ row.state = "created"
            THEN {<<"i1", row.name, key>>} ELSE {},
          IF row.policy = "singleton" /\ row.state = "active"
            THEN {<<"i2", row.name, key>>} ELSE {},
          IF row.policy = "stately" /\ row.state \in IndexedPending
            THEN {<<"i3", row.name, row.state, key>>} ELSE {},
          IF row.policy = "exclusive" /\ row.state \in IndexedPending
            THEN {<<"i6", row.name, key>>} ELSE {},
          IF row.policy = "key_strict_fifo" /\ row.state \in {"active", "retry", "failed"}
            THEN {<<"i8", row.name, key>>} ELSE {},
          IF row.singleton_on # NULL /\ row.state # "cancelled"
            THEN {<<"i4", row.name, row.singleton_on, key>>} ELSE {} }

\* A statement whose result breaks this raises a unique violation and changes nothing.
UniqueIndexes(table) ==
  \A i, j \in Rows(table) :
    i # j => IndexEntries(table[i]) \cap IndexEntries(table[j]) = {}
=============================================================================
