------------------------------ MODULE JobQueue ------------------------------
(***************************************************************************)
(* The life of jobs in the tables of JobTable, under every actor that      *)
(* touches them: producers (send, insert), workers on any number of nodes  *)
(* (claim, run the handler, settle), the maintenance sweep of each node,   *)
(* and the administrative calls of the Underboss class.  Each statement or *)
(* transaction of the code is one atomic step; everything the code does    *)
(* between two statements is a state in which other actors may act.        *)
(***************************************************************************)
EXTENDS JobTable

CONSTANTS
  Worker,             \* poll loops, of all nodes together
  WorkQueue,          \* [Worker -> Queue]: the queue each one polls
  BatchSize,          \* WorkOptions.batch_size
  Node,               \* processes that run the maintenance loop
  QueueOptions,       \* [Queue -> SUBSET QueueRow]: options a queue may be created with
  JobSpecs,           \* [Queue -> SUBSET JobSpec]: what producers send to a queue
  AdminOps,           \* the administrative calls in use
  HandlersMeetLease,  \* TRUE: no handler runs past its jobs' expire_seconds
  MaxTime,            \* bound on the clock
  MaxSent,            \* producers send only while at most this many ids are taken
  MaxResumes,         \* bound on resume() calls per job
  MaxRetryLimit       \* bound on the retry limit that retry() lifts

ASSUME ParametersAssumption ==
  /\ WorkQueue \in [Worker -> Queue]
  /\ QueueOptions \in [Queue -> SUBSET QueueRow]
  /\ JobSpecs \in [Queue -> SUBSET JobSpec]
  /\ AdminOps \subseteq {"cancel", "resume", "retry", "delete", "complete"}
  /\ HandlersMeetLease \in BOOLEAN
  /\ \A n \in {BatchSize, MaxTime, MaxSent, MaxResumes, MaxRetryLimit} : n \in Nat

VARIABLES
  now,       \* the database clock
  queue,     \* table queue: a row per name, or NULL
  job,       \* table job: a row per id, Unused or Deleted
  held,      \* held[w][j]: 0, or the claim under which the batch of w holds j
  sweeping,  \* the sweep of each node: "idle", or "delete" between its two statements
  claims,    \* history: how often each job was claimed
  resumes    \* history: how often each job was resumed

vars == <<now, queue, job, held, sweeping, claims, resumes>>

TypeOK ==
  /\ now \in Nat
  /\ queue \in [Queue -> QueueRow \cup {NULL}]
  /\ job \in [JobId -> JobRow \cup {Unused, Deleted}]
  /\ held \in [Worker -> [JobId -> Nat]]
  /\ sweeping \in [Node -> {"idle", "delete"}]
  /\ claims \in [JobId -> Nat]
  /\ resumes \in [JobId -> Nat]

NoBatch == [j \in JobId |-> 0]

Init ==
  /\ now = 0
  /\ queue = [q \in Queue |-> NULL]
  /\ job = [j \in JobId |-> Unused]
  /\ held = [w \in Worker |-> NoBatch]
  /\ sweeping = [n \in Node |-> "idle"]
  /\ claims = [j \in JobId |-> 0]
  /\ resumes = [j \in JobId |-> 0]

Active(j) == j \in Rows(job) /\ job[j].state = "active"

-----------------------------------------------------------------------------
(* Queues and producers. *)

\* A queue that exists is left alone; dead_letter names another queue (CHECK)
\* that exists (foreign key).
CreateQueue(q, options) ==
  /\ queue[q] = NULL
  /\ options.dead_letter # q
  /\ options.dead_letter # NULL => queue[options.dead_letter] # NULL
  /\ queue' = [queue EXCEPT ![q] = options]
  /\ UNCHANGED <<now, job, held, sweeping, claims, resumes>>

\* A spec the job table accepts: its dead letter exists, its key is there.
Accepted(q, spec) ==
  LET row == NewRow(q, queue[q], spec, now) IN
  /\ row.dead_letter # NULL => queue[row.dead_letter] # NULL
  /\ KeyCheck(row)

\* send() and insert(). The rows of N are the ones ON CONFLICT DO NOTHING let
\* through; a call whose jobs are all suppressed, and a call on a queue that
\* does not exist (the JOIN finds no row), changes nothing.
InsertJobs(q) ==
  /\ queue[q] # NULL
  /\ \E N \in SUBSET FreeIds(job) \ {{}} :
       /\ Cardinality(JobId \ FreeIds(job)) + Cardinality(N) <= MaxSent
       /\ \E spec \in [N -> JobSpecs[q]] :
            /\ \A j \in N : Accepted(q, spec[j])
            /\ job' = [j \in JobId |-> IF j \in N THEN NewRow(q, queue[q], spec[j], now)
                                                  ELSE job[j]]
            /\ UniqueIndexes(job')
  /\ UNCHANGED <<now, queue, held, sweeping, claims, resumes>>

-----------------------------------------------------------------------------
(* Workers: claim, execute, settle. *)

Batch(w) == {j \in JobId : held[w][j] # 0}
Busy(w) == Batch(w) # {}

\* Mutant: settles by id alone.
SettlingAny(w) == {j \in Batch(w) : j \in Rows(job)}

\* The rows a settling statement finds: WHERE id IN batch AND state = 'active'.
Settling(w) == {j \in Batch(w) : Active(j)}

\* SKIP LOCKED passes over rows other statements hold, so any subset of the
\* fetchable jobs may be the one claimed. A claim that would break a unique
\* index raises, and the loop idles.
FetchNextJob(w) ==
  /\ ~Busy(w)
  /\ \E S \in SUBSET {j \in Rows(job) : Fetchable(job[j], WorkQueue[w], now)} \ {{}} :
       /\ Cardinality(S) <= BatchSize
       /\ job' = [j \in JobId |-> IF j \in S THEN Claimed(job[j], now) ELSE job[j]]
       /\ UniqueIndexes(job')
       /\ claims' = [j \in JobId |-> IF j \in S THEN claims[j] + 1 ELSE claims[j]]
       /\ held' = [held EXCEPT ![w] = [j \in JobId |-> IF j \in S THEN claims[j] + 1 ELSE 0]]
  /\ UNCHANGED <<now, queue, sweeping, resumes>>

\* The handler returned: _process, then _complete.
Complete(w) ==
  /\ Busy(w)
  /\ job' = [j \in JobId |-> IF j \in Settling(w) THEN CompletedRow(job[j], now) ELSE job[j]]
  /\ held' = [held EXCEPT ![w] = NoBatch]
  /\ UNCHANGED <<now, queue, sweeping, claims, resumes>>

\* Mutant: copies every failing job, retried ones too.
RoutedAll(S) == {j \in S : job[j].dead_letter # NULL}

\* failure.py: the UPDATE that fails S and, in the same transaction, one copy
\* into the dead-letter queue of each job that is exhausted and has one.
Routed(S) == {j \in S : ~RetriesRemain(job[j]) /\ job[j].dead_letter # NULL}

Delays(S) ==
  {delay \in [S -> UNION {RetryDelays(job[j]) : j \in S}] :
     \A j \in S : delay[j] \in RetryDelays(job[j])}

\* source[i]: the job that the new row i is the copy of.
CopySources(S) ==
  UNION {Bijection(N, Routed(S)) : N \in kSubset(Cardinality(Routed(S)), FreeIds(job))}

AfterFailing(S, delay, source) ==
  [j \in JobId |->
     IF j \in S THEN RetryOrFail(job[j], now, delay[j])
     ELSE IF j \in DOMAIN source
       THEN LET dead == job[source[j]]
            IN  DeadLetterRow(dead.dead_letter, queue[dead.dead_letter], dead, now)
       ELSE job[j]]

FailedTables(S) ==
  {AfterFailing(S, delay, source) : delay \in Delays(S), source \in CopySources(S)}

\* The handler raised: _process, then fail_by_id. A unique violation rolls the
\* transaction back and is only logged: the batch is dropped, its jobs stay active.
Fail(w) ==
  /\ Busy(w)
  /\ \E table \in FailedTables(Settling(w)) :
       job' = IF UniqueIndexes(table) THEN table ELSE job
  /\ held' = [held EXCEPT ![w] = NoBatch]
  /\ UNCHANGED <<now, queue, sweeping, claims, resumes>>

\* The batch is dropped with nothing settled: the process died, stop() ran out
\* of patience and cancelled the handler, or the settling statement raised.
Abandon(w) ==
  /\ Busy(w)
  /\ held' = [held EXCEPT ![w] = NoBatch]
  /\ UNCHANGED <<now, queue, job, sweeping, claims, resumes>>

-----------------------------------------------------------------------------
(* Maintenance: sweep() is two statements, the second only if the first succeeds. *)

\* Mutant: the sweep looks only for jobs it can retry.
LapsedRetryable == {j \in Rows(job) : Lapsed(job[j], now) /\ RetriesRemain(job[j])}

LapsedJobs == {j \in Rows(job) : Lapsed(job[j], now)}

FailExpired(n) ==
  /\ sweeping[n] = "idle"
  /\ \E table \in FailedTables(LapsedJobs) :
       IF UniqueIndexes(table)
         THEN job' = table /\ sweeping' = [sweeping EXCEPT ![n] = "delete"]
         ELSE UNCHANGED <<job, sweeping>>
  /\ UNCHANGED <<now, queue, held, claims, resumes>>

DeleteOld(n) ==
  /\ sweeping[n] = "delete"
  /\ job' = [j \in JobId |-> IF j \in Rows(job) /\ Purgeable(job[j], now) THEN Deleted
                                                                        ELSE job[j]]
  /\ sweeping' = [sweeping EXCEPT ![n] = "idle"]
  /\ UNCHANGED <<now, queue, held, claims, resumes>>

\* The node dies, or the DELETE raises, between the two statements.
AbortSweep(n) ==
  /\ sweeping[n] = "delete"
  /\ sweeping' = [sweeping EXCEPT ![n] = "idle"]
  /\ UNCHANGED <<now, queue, job, held, claims, resumes>>

-----------------------------------------------------------------------------
(* Administrative calls, from any process at any time. *)

CancelJob(j) ==
  /\ "cancel" \in AdminOps
  /\ j \in Rows(job) /\ job[j].state \in Pending
  /\ job' = [job EXCEPT ![j] = CancelledRow(job[j], now)]
  /\ UNCHANGED <<now, queue, held, sweeping, claims, resumes>>

ResumeJob(j) ==
  /\ "resume" \in AdminOps
  /\ j \in Rows(job) /\ job[j].state = "cancelled"
  /\ resumes[j] < MaxResumes
  /\ job' = [job EXCEPT ![j] = ResumedRow(job[j])]
  /\ UniqueIndexes(job')
  /\ resumes' = [resumes EXCEPT ![j] = @ + 1]
  /\ UNCHANGED <<now, queue, held, sweeping, claims>>

RetryJob(j) ==
  /\ "retry" \in AdminOps
  /\ j \in Rows(job) /\ job[j].state = "failed"
  /\ job[j].retry_limit < MaxRetryLimit
  /\ job' = [job EXCEPT ![j] = RetriedRow(job[j])]
  /\ UniqueIndexes(job')
  /\ UNCHANGED <<now, queue, held, sweeping, claims, resumes>>

CompleteJob(j) ==
  /\ "complete" \in AdminOps
  /\ Active(j)
  /\ job' = [job EXCEPT ![j] = CompletedRow(job[j], now)]
  /\ UNCHANGED <<now, queue, held, sweeping, claims, resumes>>

DeleteJob(j) ==
  /\ "delete" \in AdminOps
  /\ j \in Rows(job)
  /\ job' = [job EXCEPT ![j] = Deleted]
  /\ UNCHANGED <<now, queue, held, sweeping, claims, resumes>>

-----------------------------------------------------------------------------
(* Time. *)

\* w holds j under the claim j is running under now.
Current(w, j) == held[w][j] # 0 /\ held[w][j] = claims[j] /\ Active(j)

LeaseOver(j) == job[j].started_on + job[j].expire_seconds

Tick ==
  /\ now < MaxTime
  /\ HandlersMeetLease =>
       \A w \in Worker, j \in JobId : Current(w, j) => now < LeaseOver(j)
  /\ now' = now + 1
  /\ UNCHANGED <<queue, job, held, sweeping, claims, resumes>>

-----------------------------------------------------------------------------
Produce == \/ \E q \in Queue : \E options \in QueueOptions[q] : CreateQueue(q, options)
           \/ \E q \in Queue : InsertJobs(q)

Work(w) == FetchNextJob(w) \/ Complete(w) \/ Fail(w) \/ Abandon(w)

Sweep(n) == FailExpired(n) \/ DeleteOld(n) \/ AbortSweep(n)

Administer(j) ==
  CancelJob(j) \/ ResumeJob(j) \/ RetryJob(j) \/ CompleteJob(j) \/ DeleteJob(j)

Next ==
  \/ Produce
  \/ \E w \in Worker : Work(w)
  \/ \E n \in Node : Sweep(n)
  \/ \E j \in JobId : Administer(j)
  \/ Tick

Spec == Init /\ [][Next]_vars

\* The maintenance loop of a live node comes round again and again, and its
\* statements get through.
FairSpec == Spec /\ \A n \in Node : WF_vars(FailExpired(n)) /\ WF_vars(DeleteOld(n))

\* In addition every poll loop keeps polling.
PollingSpec == FairSpec /\ \A w \in Worker : WF_vars(FetchNextJob(w))

-----------------------------------------------------------------------------
(* What must hold. *)

\* Deliveries are accounted for: a job is delivered at most retry_limit + 1
\* times, plus once for every resume() that put it back; retry_count is the
\* number of re-deliveries whatever mix of crashes, lapsed leases, cancels and
\* resumes the job went through; and no job is given up as failed while it
\* still had a retry (fetch_next_job counts at claim time, _retry_or_fail_set
\* decides at failure time).
AttemptAccounting ==
  \A j \in Rows(job) :
    /\ claims[j] <= job[j].retry_limit + 1 + resumes[j]
    /\ job[j].retry_count = IF claims[j] = 0 THEN 0 ELSE claims[j] - 1
    /\ job[j].state = "failed" => claims[j] > job[j].retry_limit

\* A failing transaction (a raising handler's or a sweep's, of a whole batch)
\* puts into each dead-letter queue exactly one copy of the payload of every
\* job it exhausts, and no copy of a job it gives another try (_route).
Exhausted(q, d) ==
  {j \in JobId : /\ Active(j) /\ j \in Rows(job') /\ job'[j].state = "failed"
                 /\ job[j].dead_letter = q /\ job[j].data = d}

Arrived(q, d) ==
  {j \in FreeIds(job) : /\ j \in Rows(job')
                        /\ job'[j].name = q /\ job'[j].data = d}

FailingStep == \E j \in Rows(job') : Active(j) /\ job'[j].state \in {"retry", "failed"}

RoutedExactlyOnce ==
  [][FailingStep => \A q \in Queue, d \in Payload :
       Cardinality(Arrived(q, d)) = Cardinality(Exhausted(q, d))]_vars

\* What is finished stays finished: no late handler, no second sweep and no
\* administrative call rewrites a finished job, except that a cancelled job can
\* be resumed and a failed one retried with one more attempt.
FinishedStays ==
  [][\A j \in Rows(job) : job[j].state \in Finished /\ job'[j] # job[j] =>
       \/ job'[j] = Deleted
       \/ job[j].state = "cancelled" /\ job'[j].state = "created"
       \/ /\ job[j].state = "failed" /\ job'[j].state = "retry"
          /\ job'[j].retry_limit = job[j].retry_limit + 1]_vars

\* A queue dispatches its jobs as its policy says (the docstring of QueuePolicy),
\* whatever workers, sweeps, resume() and retry() put back beside a job admitted
\* meanwhile: two jobs it admitted with one key are never in states the policy keeps
\* apart.  Dead letters it receives carry no policy; a short queue counts a job
\* waiting for its retry as no longer queued (job_i1).
KeptApart(policy, s, t) ==
  \/ policy = "short" /\ s = "created" /\ t = "created"
  \/ policy \in {"singleton", "key_strict_fifo"} /\ s = "active" /\ t = "active"
  \/ policy = "stately" /\ s \in Pending /\ t = s
  \/ policy = "exclusive" /\ s \in Pending /\ t \in Pending

PolicyKept ==
  \A i, j \in Rows(job) :
    /\ i # j /\ job[i].name = job[j].name /\ job[i].policy = job[j].policy
    /\ job[i].singleton_key = job[j].singleton_key
    => ~KeptApart(job[i].policy, job[i].state, job[j].state)

\* While every handler meets its lease, no two workers run the same job at the
\* same time, whatever crashes and sweeps happen (the lease of
\* started_on + expire_seconds is the only mutual exclusion there is).
NoOverlap ==
  \A v, w \in Worker, j \in JobId : held[v][j] # 0 /\ held[w][j] # 0 => v = w

\* A running claim is safe from everyone but its holder while its lease lasts: it
\* ends before that only by a call of the user, or by a handler that still holds the
\* job under an earlier claim and settles it by its id (settling asks for the id and
\* for state = 'active', not for the claim).  No sweep and no other claim ends it.
\* For queues where retry() is not used: the purge takes a retried job while it runs.
ClaimEndsOnlyBy(w, j) ==
  \/ \E v \in Worker : held[v][j] # 0 /\ held'[v] = NoBatch
  \/ AdminOps # {} /\ UNCHANGED <<held, sweeping>>

LeaseProtects ==
  [][\A w \in Worker, j \in JobId :
       Current(w, j) /\ now <= LeaseOver(j) /\ ~Current(w, j)' => ClaimEndsOnlyBy(w, j)]_vars

\* A handler that returns within the lease of the claim it runs under settles
\* its jobs as completed (the docstring of Worker).
ReturnCompletes ==
  [][\A w \in Worker : Complete(w) =>
       \A j \in Batch(w) :
         j \in Rows(job) /\ held[w][j] = claims[j] /\ now <= LeaseOver(j)
           => job'[j].state = "completed"]_vars

\* The purge takes finished jobs older than deletion_seconds and queued jobs
\* past keep_until, never a job a worker is running (delete_old_jobs).
PurgeRespectsRetention ==
  [][\A j \in Rows(job) : job'[j] = Deleted =>
       \/ job[j].state \in Finished /\ PastDeletion(job[j], now)
       \/ job[j].state \in Queued /\ job[j].keep_until < now]_vars

\* A job abandoned by a dead worker does not stay active: once its lease is
\* over the sweep returns it to retry or failed (the docstring of maintenance).
LapsedLeaseRecovered ==
  \A j \in JobId :
    (j \in Rows(job) /\ Lapsed(job[j], now)) ~> ~(j \in Rows(job) /\ Lapsed(job[j], now))
=============================================================================
