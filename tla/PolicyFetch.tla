---------------------------- MODULE PolicyFetch ----------------------------
(***************************************************************************)
(* The claim on a queue whose policy allows one active job of a key.       *)
(* fetch_next_job knows nothing of the policy: it locks the oldest due     *)
(* jobs, whatever their keys, and it is a partial unique index that        *)
(* refuses a second active job, by raising for the batch as a whole.       *)
(* Other claims, settlements and calls come between the locks and the      *)
(* update.  JobQueue has every actor in detail, and claims in any order.   *)
(***************************************************************************)
EXTENDS Integers, FiniteSets

CONSTANTS
  JobId,       \* jobs of one queue, numbered as the claim orders them
  KeyOf,       \* [JobId -> keys]: the singleton_key of each
  Policies,    \* the policies the queue may have
  Worker,
  BatchSize,   \* WorkOptions.batch_size ($2)
  RetryLimit,  \* retry_limit of the queue
  MaxRecalls   \* [JobId -> Nat] bound: resume() and retry() calls for each

ASSUME PolicyAssumption ==
  /\ JobId \subseteq Nat /\ Policies \subseteq {"singleton", "key_strict_fifo"}
  /\ BatchSize \in Nat \ {0} /\ RetryLimit \in Nat /\ MaxRecalls \in [JobId -> Nat]

VARIABLES
  policy,
  state,    \* of each job; "ended" is completed or deleted
  tries,    \* deliveries of each job
  limit,    \* retry_limit of each job
  delayed,  \* jobs whose start_after is still to come
  locked,   \* the rows the claim of each worker has locked (CTE next)
  missed,   \* history: the queued jobs it could not see, see LockNext and Resume
  batch,    \* the jobs its handler has
  resumes   \* history: resume() calls of each job

vars == <<policy, state, tries, limit, delayed, locked, missed, batch, resumes>>
claims == <<locked, missed>>
recalls == <<limit, resumes>>

JobStates == {"absent", "created", "retry", "active", "failed", "cancelled", "ended"}

TypeOK ==
  /\ policy \in {"singleton", "key_strict_fifo"}
  /\ state \in [JobId -> JobStates]
  /\ tries \in [JobId -> Nat] /\ limit \in [JobId -> Nat] /\ resumes \in [JobId -> Nat]
  /\ delayed \subseteq JobId
  /\ locked \in [Worker -> SUBSET JobId] /\ missed \in [Worker -> SUBSET JobId]
  /\ batch \in [Worker -> SUBSET JobId]
  \* A row is locked by one claim, and nobody moves it meanwhile.
  /\ \A v, w \in Worker : v # w => locked[v] \cap locked[w] = {}
  /\ \A w \in Worker : \A j \in locked[w] : state[j] \in {"created", "retry"}

Init ==
  /\ policy \in Policies
  /\ state = [j \in JobId |-> "absent"] /\ tries = [j \in JobId |-> 0]
  /\ limit = [j \in JobId |-> RetryLimit] /\ resumes = [j \in JobId |-> 0]
  /\ delayed = {}
  /\ locked = [w \in Worker |-> {}] /\ missed = [w \in Worker |-> {}]
  /\ batch = [w \in Worker |-> {}]

Free(j) == \A w \in Worker : j \notin locked[w]

(***************************************************************************)
(* The claim                                                               *)
(***************************************************************************)
\* The states in which a row is in job_i8.  A mutant: not while it waits for its
\* retry.
FifoUnlessRetry == {"active", "failed"}

FifoStates == {"active", "retry", "failed"}

\* In job_i2.  (A mutant: the states of job_i8.)
SingletonStates == {"active"}

Occupied == IF policy = "singleton" THEN SingletonStates ELSE FifoStates

OneRowPerKey(s) ==
  \A i, j \in JobId :
    s[i] \in Occupied /\ s[j] \in Occupied /\ KeyOf[i] = KeyOf[j] => i = j

Queued(j) == state[j] \in {"created", "retry"}

Due == {j \in JobId \ delayed : Queued(j)}

\* Mutant: no SKIP LOCKED.
FirstDue == {j \in Due : Cardinality({i \in Due : i < j}) < BatchSize}

\* ORDER BY ... LIMIT ... SKIP LOCKED
NextJobs ==
  {j \in Due : Free(j) /\ Cardinality({i \in Due : Free(i) /\ i < j}) < BatchSize}

\* It does not see the queued jobs that another claim has locked, or not yet due.
LockNext(w) ==
  /\ locked[w] = {} /\ batch[w] = {} /\ NextJobs # {}
  /\ locked' = [locked EXCEPT ![w] = NextJobs]
  /\ missed' = [missed EXCEPT ![w] = {j \in JobId : Queued(j) /\ (j \in delayed \/ ~Free(j))}]
  /\ UNCHANGED <<policy, state, tries, recalls, delayed, batch>>

\* Nothing is due: the worker idles.
FetchesNothing(w) ==
  locked[w] = {} /\ batch[w] = {} /\ NextJobs = {} /\ UNCHANGED vars

Release(w) ==
  /\ locked' = [locked EXCEPT ![w] = {}] /\ missed' = [missed EXCEPT ![w] = {}]

\* A unique violation: _run logs it and idles.
Claim(w) ==
  LET claimed == [j \in JobId |-> IF j \in locked[w] THEN "active" ELSE state[j]]
  IN /\ locked[w] # {}
     /\ IF OneRowPerKey(claimed)
        THEN /\ state' = claimed
             /\ tries' = [j \in JobId |-> IF j \in locked[w] THEN tries[j] + 1 ELSE tries[j]]
             /\ batch' = [batch EXCEPT ![w] = locked[w]]
        ELSE UNCHANGED <<state, tries, batch>>
     /\ Release(w)
     /\ UNCHANGED <<policy, recalls, delayed>>

\* The statement raises for another reason, or its process dies.
ClaimFails(w) ==
  /\ locked[w] # {} /\ Release(w)
  /\ UNCHANGED <<policy, state, tries, recalls, delayed, batch>>

(***************************************************************************)
(* The end of a delivery                                                   *)
(***************************************************************************)
\* Mutant: a retry too many.
RetryOnceMore(j) == IF tries[j] <= limit[j] + 1 THEN "retry" ELSE "failed"

RetryOrFail(j) == IF tries[j] <= limit[j] THEN "retry" ELSE "failed"

\* The delays of the jobs in S that go back to the queue; each may be nothing.
RetryDelay(S) ==
  \E D \in SUBSET {j \in S : RetryOrFail(j) = "retry"} : delayed' = delayed \cup D

\* By id, whoever has claimed the job since.
Settling(w) == {j \in batch[w] : state[j] = "active"}

Complete(w) ==
  /\ batch[w] # {} /\ batch' = [batch EXCEPT ![w] = {}]
  /\ state' = [j \in JobId |-> IF j \in Settling(w) THEN "ended" ELSE state[j]]
  /\ UNCHANGED <<policy, tries, recalls, delayed, claims>>

Fail(w) ==
  /\ batch[w] # {} /\ batch' = [batch EXCEPT ![w] = {}]
  /\ state' = [j \in JobId |-> IF j \in Settling(w) THEN RetryOrFail(j) ELSE state[j]]
  /\ RetryDelay(Settling(w))
  /\ UNCHANGED <<policy, tries, recalls, claims>>

\* The process dies, or the settlement raises.
Drop(w) ==
  /\ batch[w] # {} /\ batch' = [batch EXCEPT ![w] = {}]
  /\ UNCHANGED <<policy, state, tries, recalls, delayed, claims>>

\* The sweep finds a job whose lease is over, though a handler may still have it.
Recover(j) ==
  /\ state[j] = "active"
  /\ state' = [state EXCEPT ![j] = RetryOrFail(j)]
  /\ RetryDelay({j})
  /\ UNCHANGED <<policy, tries, recalls, claims, batch>>

DelayEnds(j) ==
  /\ j \in delayed /\ delayed' = delayed \ {j}
  /\ UNCHANGED <<policy, state, tries, recalls, claims, batch>>

(***************************************************************************)
(* Calls of the user                                                       *)
(***************************************************************************)
\* The jobs of a key have one priority, start at once, and are sent one after the
\* other.
Send(j) ==
  /\ state[j] = "absent"
  /\ \A i \in JobId : i < j /\ KeyOf[i] = KeyOf[j] => state[i] # "absent"
  /\ state' = [state EXCEPT ![j] = "created"]
  /\ UNCHANGED <<policy, tries, recalls, delayed, claims, batch>>

\* cancel() and delete_job() wait for a claim that has locked the row.
Cancel(j) ==
  /\ state[j] \in {"created", "retry", "active"} /\ Free(j)
  /\ state' = [state EXCEPT ![j] = "cancelled"]
  /\ UNCHANGED <<policy, tries, recalls, delayed, claims, batch>>

Delete(j) ==
  /\ state[j] # "absent" /\ Free(j)
  /\ state' = [state EXCEPT ![j] = "ended"]
  /\ delayed' = delayed \ {j}
  /\ UNCHANGED <<policy, tries, recalls, claims, batch>>

RecallsLeft(j) == resumes[j] + (limit[j] - RetryLimit) < MaxRecalls[j]

\* A new job again, its start_after as it was; a claim under way has not seen it.
Resume(j) ==
  /\ state[j] = "cancelled" /\ RecallsLeft(j)
  /\ state' = [state EXCEPT ![j] = "created"]
  /\ resumes' = [resumes EXCEPT ![j] = @ + 1]
  /\ missed' = [w \in Worker |-> IF locked[w] = {} THEN {} ELSE missed[w] \cup {j}]
  /\ UNCHANGED <<policy, tries, limit, delayed, locked, batch>>

Retry(j) ==
  /\ state[j] = "failed" /\ RecallsLeft(j)
  /\ state' = [state EXCEPT ![j] = "retry"]
  /\ limit' = [limit EXCEPT ![j] = @ + 1]
  /\ UNCHANGED <<policy, tries, resumes, delayed, claims, batch>>

Call(j) == Send(j) \/ Cancel(j) \/ Delete(j) \/ Resume(j) \/ Retry(j)

Claiming(w) == FetchesNothing(w) \/ LockNext(w) \/ Claim(w) \/ ClaimFails(w)

Settlement(w) == Complete(w) \/ Fail(w)

Next ==
  \/ \E w \in Worker : Claiming(w) \/ Settlement(w) \/ Drop(w)
  \/ \E j \in JobId : Recover(j) \/ DelayEnds(j) \/ Call(j)

Spec == Init /\ [][Next]_vars

\* Workers poll, in the end no claim fails that the index lets through, handlers
\* end, time passes, and somewhere a sweep runs.
FairSpec ==
  /\ Spec
  /\ \A w \in Worker : WF_vars(LockNext(w)) /\ WF_vars(Claim(w)) /\ WF_vars(Settlement(w))
  /\ <>[][\A w \in Worker : ClaimFails(w) => Claim(w)]_vars
  /\ \A j \in JobId : WF_vars(Recover(j)) /\ WF_vars(DelayEnds(j))

(***************************************************************************)
(* Properties                                                              *)
(***************************************************************************)
\* The step starts job j, which the claim of w has locked, while i, sent earlier
\* with the same key, is alive.
Overtakes(w, i, j) ==
  /\ policy = "key_strict_fifo" /\ KeyOf[i] = KeyOf[j] /\ i < j
  /\ state[i] \in {"created", "retry", "active", "failed"}
  /\ j \in locked[w] /\ state'[j] = "active"

\* On a key_strict_fifo queue no job starts while an earlier one of its key runs,
\* waits for its retry or has failed, however many workers claim, fail and die and
\* whatever is cancelled, resumed and retried (job_i8).  It starts before an earlier
\* one that is created only if the claim could not see that one when it locked:
\* because another claim had locked it (SKIP LOCKED), or because it had been
\* resumed with its retry delay still running or was resumed since.
KeyOrder ==
  [][\A w \in Worker : \A i, j \in JobId :
       Overtakes(w, i, j) => state[i] = "created" /\ i \in missed[w]]_vars

\* What QueuePolicy says: "strict FIFO per singleton_key".
StrictFifo == [][\A w \in Worker : \A i, j \in JobId : ~Overtakes(w, i, j)]_vars

\* A queued job is delivered or withdrawn in the end: claims the index refuses
\* are tried again until the key is free ("unlimited queued").  Two kinds of job
\* of a key_strict_fifo queue stand in the way, of the jobs of other keys too: a
\* failed one, and one to be retried that has overtaken another.
InTheWay(i) ==
  \/ state[i] = "failed"
  \/ state[i] = "retry" /\ \E j \in JobId : j < i /\ KeyOf[j] = KeyOf[i] /\ Queued(j)

EachDelivered ==
  \A j \in JobId :
    Queued(j) ~> \/ ~Queued(j)
                 \/ policy = "key_strict_fifo" /\ \E i \in JobId : InTheWay(i)

\* Locks that others skip, claims the index refuses, retries, recoveries, late
\* handlers and administrative calls lead a job only through the phases
\* JobLifecycle gives it, and it is delivered no more often than its retry limit and
\* the calls that bring it back allow.  A completed job and a deleted one are not
\* told apart here: both are gone.
Phases ==
  [j \in JobId |-> CASE Queued(j) -> "queued"
                     [] state[j] = "ended" -> "gone"
                     [] OTHER -> state[j]]

TriesLeft ==
  [j \in JobId |-> IF state[j] \in {"absent", "ended"} THEN 0 ELSE limit[j] + 1 - tries[j]]

Lifecycle == INSTANCE JobLifecycle
             WITH phase <- Phases, tries <- TriesLeft, extras <- resumes

ImplementsLifecycle == Lifecycle!LSpec
=============================================================================
