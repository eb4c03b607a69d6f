----------------------------- MODULE MCJobQueue -----------------------------
(* Small instances of JobQueue for TLC. *)
EXTENDS JobQueueLifecycle, TLC

StandardQueue ==
  [policy |-> "standard", retry_limit |-> 1, retry_delay |-> 0,
   retry_backoff |-> FALSE, retry_delay_max |-> NULL, expire_seconds |-> 1,
   retention_seconds |-> 9, deletion_seconds |-> 9, dead_letter |-> NULL]

\* What send(name, data) with no options puts into the job's JSON.
PlainSpec(d) ==
  [data |-> d, start_after |-> 0, singleton_key |-> NULL,
   singleton_seconds |-> NULL, singleton_next_slot |-> FALSE,
   retry_limit |-> NULL, retry_delay |-> NULL, retry_backoff |-> NULL,
   expire_seconds |-> NULL, dead_letter |-> NULL]

OnWork == [w \in Worker |-> "work"]

NoSpecs == [q \in Queue |-> {}]

Symmetry == Permutations(JobId) \cup Permutations(Worker) \cup Permutations(Node)

\* in time: one job with a retry, one without, copied to "dead" when exhausted.
PolicedQueues ==
  [q \in Queue |-> IF q = "work"
                   THEN {[StandardQueue EXCEPT !.policy = p, !.dead_letter = "dead"] :
                           p \in {"standard", "stately", "exclusive"}}
                   ELSE {[StandardQueue EXCEPT !.policy = "exclusive", !.retry_limit = 0]}]
RoutedSpecs ==
  [NoSpecs EXCEPT !["work"] = {PlainSpec("a"), [PlainSpec("b") EXCEPT !.retry_limit = 0]}]

\* settlement, purge: finished jobs are kept one second, queued ones two; a job may
\* be sent with a start so long past that it is over-aged at once.
PurgingQueues ==
  [q \in Queue |->
     {[StandardQueue EXCEPT !.deletion_seconds = 1, !.retention_seconds = 2]}]

RoutedPurgingQueues ==
  [PurgingQueues EXCEPT !["work"] = {[row EXCEPT !.dead_letter = "dead"] : row \in @}]

AgingSpecs ==
  [NoSpecs EXCEPT !["work"] =
     {[PlainSpec("a") EXCEPT !.retry_limit = r, !.start_after = start] :
        r \in {NULL, 0}, start \in {0, -3}}]

\* poisoned sweep: a stately queue.
StatelyQueues == [q \in Queue |-> {[StandardQueue EXCEPT !.policy = "stately"]}]
StatelySpecs == [NoSpecs EXCEPT !["work"] = {PlainSpec(d) : d \in Payload}]
=============================================================================
