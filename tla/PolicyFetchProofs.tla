-------------------------- MODULE PolicyFetchProofs --------------------------
(***************************************************************************)
(* The order PolicyFetch keeps within a key, for any jobs, keys, workers   *)
(* and batch size.                                                         *)
(***************************************************************************)
EXTENDS PolicyFetch, FiniteSetTheorems, TLAPS

SentInOrder ==
  \A i, j \in JobId : i < j /\ KeyOf[i] = KeyOf[j] /\ state[i] = "absent" => state[j] = "absent"

\* What a claim has left behind it: an earlier job of a key of its batch is in
\* the batch, or could not be seen, or is not a new job any more.
LeftBehind(w) ==
  \A j \in locked[w] : \A i \in JobId :
    i < j /\ KeyOf[i] = KeyOf[j] =>
      \/ i \in locked[w] \cup missed[w]
      \/ state[i] \in {"active", "retry", "failed", "cancelled", "ended"}

OrderInv == /\ TypeOK /\ SentInOrder
            /\ \A w \in Worker : LeftBehind(w)

-----------------------------------------------------------------------------
\* The claim locks the due rows that are free from the first on, without a gap.
LEMMA NoGap ==
  ASSUME NEW j \in NextJobs, NEW i \in Due, Free(i), i < j
  PROVE  i \in NextJobs
<1> DEFINE Before(k) == {h \in Due : Free(h) /\ h < k}
<1>1. JobId \subseteq Nat /\ BatchSize \in Nat /\ i \in Nat /\ j \in Nat /\ Due \subseteq Nat
  BY PolicyAssumption DEF NextJobs, Due
<1>2. Before(j) \subseteq 0 .. j /\ Before(i) \subseteq Before(j)
  <2>1. \A h \in Due : h \in Nat /\ (h < i => h < j) /\ (h < j => h \in 0 .. j)
    BY <1>1
  <2> QED
    BY <2>1
<1>3. IsFiniteSet(0 .. j)
  BY <1>1, FS_Interval
<1>4. IsFiniteSet(Before(j))
  BY <1>2, <1>3, FS_Subset
<1>5. /\ Cardinality(Before(i)) \in Nat /\ Cardinality(Before(j)) \in Nat
      /\ Cardinality(Before(i)) <= Cardinality(Before(j))
  BY <1>2, <1>4, FS_Subset, FS_CardinalityType
<1>6. Cardinality(Before(j)) < BatchSize
  BY DEF NextJobs
<1>7. Cardinality(Before(i)) < BatchSize
  BY <1>1, <1>5, <1>6
<1> QED
  BY <1>7 DEF NextJobs

-----------------------------------------------------------------------------
LEMMA InitOrder == Init => OrderInv
BY PolicyAssumption DEF Init, OrderInv, TypeOK, JobStates, SentInOrder, LeftBehind

\* Lock, claim or release: the steps that touch the locks of a worker.
LEMMA LockNextKeepsOrder ==
  ASSUME OrderInv, NEW w \in Worker, LockNext(w)
  PROVE  OrderInv'
<1> USE DEF OrderInv
<1>1. TypeOK'
  <2>1. NextJobs \subseteq Due /\ Due \subseteq JobId /\ \A j \in Due : state[j] \in {"created", "retry"}
    BY DEF NextJobs, Due, Queued
  <2>2. \A v \in Worker : locked[v] \cap NextJobs = {}
    BY DEF NextJobs, Free
  <2> QED
    BY <2>1, <2>2 DEF TypeOK, LockNext, recalls
<1>2. SentInOrder'
  BY DEF LockNext, SentInOrder
<1>3. LeftBehind(w)'
  <2> SUFFICES ASSUME NEW j \in NextJobs, NEW i \in JobId, i < j, KeyOf[i] = KeyOf[j],
                      state[i] \notin {"active", "retry", "failed", "cancelled", "ended"},
                      i \notin {k \in JobId : Queued(k) /\ (k \in delayed \/ ~Free(k))}
               PROVE  i \in NextJobs
    <3>1. /\ locked'[w] = NextJobs /\ state' = state
          /\ missed'[w] = {k \in JobId : Queued(k) /\ (k \in delayed \/ ~Free(k))}
      BY DEF LockNext, TypeOK
    <3> QED
      BY <3>1 DEF LeftBehind
  <2>1. j \in JobId /\ state[j] \in {"created", "retry"}
    BY DEF NextJobs, Due, Queued
  <2>2. state[i] = "created"
    BY <2>1 DEF TypeOK, JobStates, SentInOrder
  <2>3. i \in Due /\ Free(i)
    BY <2>2 DEF Due, Queued
  <2> QED
    BY <2>3, NoGap
<1>4. ASSUME NEW v \in Worker, v # w PROVE LeftBehind(v)'
  BY <1>4 DEF LockNext, LeftBehind, TypeOK
<1> QED
  BY <1>1, <1>2, <1>3, <1>4

LEMMA ClaimKeepsOrder ==
  ASSUME OrderInv, NEW w \in Worker, Claim(w) \/ ClaimFails(w)
  PROVE  OrderInv'
<1> USE DEF OrderInv
<1>1. /\ UNCHANGED <<policy, delayed, limit, resumes>>
      /\ locked' = [locked EXCEPT ![w] = {}] /\ missed' = [missed EXCEPT ![w] = {}]
  BY DEF Claim, ClaimFails, Release, recalls
<1>2. tries' \in [JobId -> Nat] /\ batch' \in [Worker -> SUBSET JobId]
  BY DEF TypeOK, Claim, ClaimFails
<1>3. \/ state' = state
      \/ state' = [j \in JobId |-> IF j \in locked[w] THEN "active" ELSE state[j]]
  BY DEF Claim, ClaimFails
<1>4. \A j \in JobId : state'[j] = IF j \in locked[w] /\ state' # state THEN "active" ELSE state[j]
  BY <1>3 DEF TypeOK
<1>5. TypeOK'
  <2>1. state' \in [JobId -> JobStates]
    BY <1>3 DEF TypeOK, JobStates
  <2>2. locked' \in [Worker -> SUBSET JobId] /\ missed' \in [Worker -> SUBSET JobId]
    BY <1>1 DEF TypeOK
  <2>3. \A u, v \in Worker : u # v => locked'[u] \cap locked'[v] = {}
    BY <1>1 DEF TypeOK
  <2>4. ASSUME NEW v \in Worker, NEW j \in locked'[v] PROVE state'[j] \in {"created", "retry"}
    <3>1. v # w /\ j \in locked[v] /\ j \in JobId
      BY <1>1 DEF TypeOK
    <3>2. j \notin locked[w] /\ state[j] \in {"created", "retry"}
      BY <3>1 DEF TypeOK
    <3> QED
      BY <3>1, <3>2, <1>4
  <2> QED
    BY <1>1, <1>2, <2>1, <2>2, <2>3, <2>4 DEF TypeOK
<1>7. \A j \in JobId : state'[j] = "absent" <=> state[j] = "absent"
  BY <1>4 DEF TypeOK
<1>8. SentInOrder'
  BY <1>7 DEF SentInOrder
<1>9. ASSUME NEW v \in Worker PROVE LeftBehind(v)'
  BY <1>1, <1>4 DEF LeftBehind, TypeOK
<1> QED
  BY <1>5, <1>8, <1>9

\* Every other step leaves the locks alone, and the rows that are locked.
LEMMA OtherStepsKeepOrder ==
  ASSUME OrderInv, UNCHANGED <<policy, claims, tries>>, state' \in [JobId -> JobStates],
         limit' \in [JobId -> Nat], resumes' \in [JobId -> Nat],
         batch' \in [Worker -> SUBSET JobId], delayed' \subseteq JobId,
         \A j \in JobId : state'[j] # state[j] =>
           /\ Free(j)
           /\ \/ state'[j] \in {"retry", "failed", "cancelled", "ended"} /\ state[j] # "absent"
              \/ /\ state[j] = "absent" /\ state'[j] = "created"
                 /\ \A i \in JobId : i < j /\ KeyOf[i] = KeyOf[j] => state[i] # "absent"
  PROVE  OrderInv'
<1> USE DEF OrderInv
<1>1. locked' = locked /\ missed' = missed
  BY DEF claims
<1>2. \A w \in Worker : \A j \in locked[w] : j \in JobId /\ state'[j] = state[j]
  BY DEF Free, TypeOK
<1>3. TypeOK'
  BY <1>1, <1>2 DEF TypeOK
<1>5. SentInOrder'
  <2> SUFFICES ASSUME NEW i \in JobId, NEW j \in JobId, i < j, KeyOf[i] = KeyOf[j],
                      state'[i] = "absent"
               PROVE  state'[j] = "absent"
    BY DEF SentInOrder
  <2>1. state[i] = "absent"
    OBVIOUS
  <2>2. state[j] = "absent"
    BY <2>1 DEF SentInOrder
  <2> QED
    BY <2>1, <2>2
<1>6. ASSUME NEW w \in Worker PROVE LeftBehind(w)'
  <2> SUFFICES ASSUME NEW j \in locked[w], NEW i \in JobId, i < j, KeyOf[i] = KeyOf[j]
               PROVE  \/ i \in locked[w] \cup missed[w]
                      \/ state'[i] \in {"active", "retry", "failed", "cancelled", "ended"}
    BY <1>1 DEF LeftBehind
  <2>1. \/ i \in locked[w] \cup missed[w]
        \/ state[i] \in {"active", "retry", "failed", "cancelled", "ended"}
    BY <1>2 DEF LeftBehind
  <2> QED
    BY <2>1
<1> QED
  BY <1>3, <1>5, <1>6

\* A resumed job is new again, so every claim under way has missed it.
LEMMA ResumeKeepsOrder ==
  ASSUME OrderInv, NEW r \in JobId, Resume(r)
  PROVE  OrderInv'
<1> USE DEF OrderInv
<1>1. /\ UNCHANGED <<policy, tries, limit, delayed, locked, batch>>
      /\ state[r] = "cancelled" /\ state' = [state EXCEPT ![r] = "created"]
      /\ missed' = [w \in Worker |-> IF locked[w] = {} THEN {} ELSE missed[w] \cup {r}]
  BY DEF Resume
<1>2. TypeOK'
  BY <1>1 DEF TypeOK, JobStates, Resume
<1>3. SentInOrder'
  BY <1>1 DEF SentInOrder, TypeOK
<1>4. ASSUME NEW w \in Worker PROVE LeftBehind(w)'
  <2> SUFFICES ASSUME NEW j \in locked[w], NEW i \in JobId, i < j, KeyOf[i] = KeyOf[j]
               PROVE  \/ i \in locked[w] \cup missed'[w]
                      \/ state'[i] \in {"active", "retry", "failed", "cancelled", "ended"}
    BY <1>1 DEF LeftBehind
  <2>1. missed'[w] = missed[w] \cup {r}
    BY <1>1
  <2> QED
    BY <1>1, <2>1 DEF LeftBehind, TypeOK
<1> QED
  BY <1>2, <1>3, <1>4

LEMMA NextKeepsOrder ==
  ASSUME OrderInv, [Next]_vars
  PROVE  OrderInv'
<1>0. TypeOK
  BY DEF OrderInv
<1>1. ASSUME UNCHANGED vars PROVE OrderInv'
  BY <1>1 DEF OrderInv, TypeOK, SentInOrder, LeftBehind, vars
<1>2. ASSUME NEW w \in Worker, Claiming(w) PROVE OrderInv'
  BY <1>1, <1>2, LockNextKeepsOrder, ClaimKeepsOrder DEF Claiming, FetchesNothing
\* An active row is locked by nobody.
<1>3. \A j \in JobId : state[j] = "active" => Free(j)
  BY <1>0 DEF TypeOK, Free
<1>4. \A j \in JobId : RetryOrFail(j) \in {"retry", "failed"}
  BY DEF RetryOrFail
<1>5. ASSUME NEW w \in Worker, Complete(w) PROVE OrderInv'
  <2>1. \A j \in JobId : state'[j] = IF j \in Settling(w) THEN "ended" ELSE state[j]
    BY <1>5 DEF Complete
  <2> QED
    BY <1>0, <1>3, <1>5, <2>1, OtherStepsKeepOrder DEF Complete, Settling, claims, recalls, TypeOK, JobStates
<1>6. ASSUME NEW w \in Worker, Fail(w) PROVE OrderInv'
  <2>1. \A j \in JobId : state'[j] = IF j \in Settling(w) THEN RetryOrFail(j) ELSE state[j]
    BY <1>6 DEF Fail
  <2>3. \A j \in JobId : j \in Settling(w) => state[j] = "active"
    BY DEF Settling
  <2>4. Settling(w) \subseteq JobId
    BY <1>0 DEF Settling, TypeOK
  <2>5. delayed' \subseteq JobId
    BY <1>0, <1>6, <2>4 DEF Fail, RetryDelay, TypeOK
  <2>6. \A j \in JobId : state'[j] # state[j] =>
          Free(j) /\ state'[j] \in {"retry", "failed", "ended"} /\ state[j] # "absent"
    BY <1>3, <1>4, <2>1, <2>3
  <2>7. state' \in [JobId -> JobStates]
    BY <1>0, <1>4, <1>6 DEF Fail, TypeOK, JobStates
  <2> QED
    BY <1>0, <1>6, <2>5, <2>6, <2>7, OtherStepsKeepOrder DEF Fail, claims, recalls, TypeOK
<1>7. ASSUME NEW w \in Worker, Drop(w) PROVE OrderInv'
  BY <1>0, <1>7, OtherStepsKeepOrder DEF Drop, claims, recalls, TypeOK
<1>8. ASSUME NEW j \in JobId, Recover(j) PROVE OrderInv'
  <2>1. delayed' \subseteq JobId
    BY <1>0, <1>8 DEF Recover, RetryDelay, TypeOK
  <2> QED
    BY <1>0, <1>3, <1>4, <1>8, <2>1, OtherStepsKeepOrder
       DEF Recover, claims, recalls, TypeOK, JobStates
<1>9. ASSUME NEW j \in JobId, DelayEnds(j) PROVE OrderInv'
  BY <1>0, <1>9, OtherStepsKeepOrder DEF DelayEnds, claims, recalls, TypeOK
<1>10. ASSUME NEW j \in JobId, Send(j) PROVE OrderInv'
  <2>1. Free(j)
    BY <1>0, <1>10 DEF Send, Free, TypeOK
  <2> QED
    BY <1>0, <1>10, <2>1, OtherStepsKeepOrder DEF Send, claims, recalls, TypeOK, JobStates
<1>11. ASSUME NEW j \in JobId, Cancel(j) PROVE OrderInv'
  BY <1>0, <1>11, OtherStepsKeepOrder DEF Cancel, claims, recalls, TypeOK, JobStates
<1>12. ASSUME NEW j \in JobId, Delete(j) PROVE OrderInv'
  BY <1>0, <1>12, OtherStepsKeepOrder DEF Delete, claims, recalls, TypeOK, JobStates
<1>13. ASSUME NEW j \in JobId, Retry(j) PROVE OrderInv'
  <2>1. Free(j)
    BY <1>0, <1>13 DEF Retry, Free, TypeOK
  <2> QED
    BY <1>0, <1>13, <2>1, OtherStepsKeepOrder DEF Retry, claims, TypeOK, JobStates
<1>14. ASSUME NEW j \in JobId, Call(j) PROVE OrderInv'
  BY <1>10, <1>11, <1>12, <1>13, <1>14, ResumeKeepsOrder DEF Call
<1> QED
  BY <1>1, <1>2, <1>5, <1>6, <1>7, <1>8, <1>9, <1>14 DEF Next, Settlement

LEMMA OrderKept == Spec => []OrderInv
<1>1. OrderInv /\ [Next]_vars => OrderInv'
  BY NextKeepsOrder
<1> QED
  BY InitOrder, <1>1, PTL DEF Spec

-----------------------------------------------------------------------------
\* Type correctness of PolicyFetch; a row is locked by one claim, and stays queued
\* while it is (FOR UPDATE SKIP LOCKED of fetch_next_job).
THEOREM PolicyTypesOK == Spec => []TypeOK
<1>1. OrderInv => TypeOK
  BY DEF OrderInv
<1> QED
  BY OrderKept, <1>1, PTL

\* Only a claim starts a job it has locked, and the index job_i8 refuses it while
\* an earlier job of the key is active, in retry or failed.
LEMMA StepKeepsKeyOrder ==
  ASSUME OrderInv, [Next]_vars,
         NEW w \in Worker, NEW i \in JobId, NEW j \in JobId, Overtakes(w, i, j)
  PROVE  state[i] = "created" /\ i \in missed[w]
<1>1. TypeOK /\ LeftBehind(w)
  BY DEF OrderInv
<1>2. /\ policy = "key_strict_fifo" /\ KeyOf[i] = KeyOf[j] /\ i < j
      /\ state[i] \in {"created", "retry", "active", "failed"}
      /\ j \in locked[w] /\ state'[j] = "active" /\ state[j] \in {"created", "retry"}
  BY <1>1 DEF Overtakes, TypeOK
<1>3. i # j
  BY <1>2, PolicyAssumption
<1>4. PICK v \in Worker : Claim(v) /\ j \in locked[v]
  <2>1. state' # state
    BY <1>2
  <2>2. \A h \in JobId : RetryOrFail(h) # "active"
    BY DEF RetryOrFail
  <2>3. PICK v \in Worker : Claim(v) \/ Complete(v) \/ Fail(v)
    <3>1. ASSUME NEW h \in JobId, Recover(h) \/ Call(h) PROVE FALSE
      BY <1>1, <1>2, <2>2, <3>1
         DEF Recover, Call, Send, Cancel, Delete, Resume, Retry, TypeOK
    <3> QED
      BY <2>1, <3>1 DEF Next, vars, Claiming, FetchesNothing, LockNext, ClaimFails,
                        Settlement, Drop, DelayEnds
  <2>4. ~Complete(v) /\ ~Fail(v)
    BY <1>2, <2>2 DEF Complete, Fail
  <2>5. Claim(v)
    BY <2>3, <2>4
  <2> QED
    BY <1>2, <2>5 DEF Claim
<1>5. v = w
  BY <1>1, <1>2, <1>4 DEF TypeOK
<1> DEFINE claimed == [k \in JobId |-> IF k \in locked[w] THEN "active" ELSE state[k]]
<1>6. OneRowPerKey(claimed)
  BY <1>2, <1>4, <1>5 DEF Claim
<1>7. Occupied = {"active", "retry", "failed"}
  BY <1>2 DEF Occupied, FifoStates
<1>8. claimed[j] = "active" /\ claimed[i] \notin Occupied
  BY <1>2, <1>3, <1>6, <1>7 DEF OneRowPerKey
<1>9. i \notin locked[w] /\ claimed[i] = state[i]
  BY <1>7, <1>8
<1>10. state[i] = "created"
  BY <1>2, <1>7, <1>8, <1>9
<1> QED
  BY <1>1, <1>2, <1>9, <1>10 DEF LeftBehind

\* key_strict_fifo: no job starts while an earlier one of its key runs, waits for
\* its retry or has failed (job_i8), and none before an earlier new one but past a
\* row that FOR UPDATE SKIP LOCKED, start_after or cancel() hid from its claim.
THEOREM FifoWithinKey == Spec => KeyOrder
<1>1. OrderInv /\ [Next]_vars =>
        [\A w \in Worker : \A i, j \in JobId :
           Overtakes(w, i, j) => state[i] = "created" /\ i \in missed[w]]_vars
  BY StepKeepsKeyOrder
<1> QED
  BY OrderKept, <1>1, PTL DEF Spec, KeyOrder

-----------------------------------------------------------------------------
(* PolicyFetch implements JobLifecycle. *)

\* What the life cycle needs to know of the deliveries: a job not sent has had
\* none, and a queued one has one left, counting those it was resumed for.
RetriesLeft ==
  \A j \in JobId :
    /\ state[j] = "absent" => tries[j] = 0
    /\ state[j] \in {"created", "retry"} => tries[j] <= limit[j] + resumes[j]
    /\ state[j] \in {"active", "failed", "cancelled"} => tries[j] <= limit[j] + resumes[j] + 1

\* The mapping, job by job.
LEMMA MappedJob ==
  ASSUME TypeOK, NEW j \in JobId
  PROVE  /\ Phases[j] = IF state[j] \in {"created", "retry"} THEN "queued"
                        ELSE IF state[j] = "ended" THEN "gone" ELSE state[j]
         /\ TriesLeft[j] = IF state[j] \in {"absent", "ended"} THEN 0
                           ELSE limit[j] + 1 - tries[j]
         /\ TriesLeft[j] \in Int
<1>1. tries[j] \in Nat /\ limit[j] \in Nat
  BY DEF TypeOK
<1> QED
  BY <1>1 DEF Phases, Queued, TriesLeft

\* The mapped variables are functions on the jobs, and follow state, tries and limit.
LEMMA MappedFunctions ==
  /\ Phases = [j \in JobId |-> Phases[j]] /\ Phases' = [j \in JobId |-> Phases'[j]]
  /\ TriesLeft = [j \in JobId |-> TriesLeft[j]]
  /\ TriesLeft' = [j \in JobId |-> TriesLeft'[j]]
BY DEF Phases, TriesLeft

LEMMA SamePlace ==
  ASSUME NEW j \in JobId, state'[j] = state[j], tries'[j] = tries[j], limit'[j] = limit[j]
  PROVE  Phases'[j] = Phases[j] /\ TriesLeft'[j] = TriesLeft[j]
BY DEF Phases, Queued, TriesLeft

LEMMA NothingMoves ==
  ASSUME UNCHANGED <<state, tries, recalls>>
  PROVE  UNCHANGED Lifecycle!lifecycle
BY DEF Phases, Queued, TriesLeft, Lifecycle!lifecycle, recalls

\* A step that moves every job of S to one phase, and nothing else.
LEMMA Moving ==
  ASSUME NEW S \in SUBSET JobId, NEW ph, \A j \in S : Phases'[j] = ph,
         \A j \in JobId \ S : Phases'[j] = Phases[j]
  PROVE  Lifecycle!Move(S, ph)
BY MappedFunctions DEF Lifecycle!Move

LEMMA SendArrives ==
  ASSUME TypeOK, TypeOK', RetriesLeft, NEW j \in JobId, Send(j)
  PROVE  Lifecycle!Arrive({j})
<1>1. /\ state[j] = "absent" /\ state'[j] = "created" /\ tries[j] = 0
      /\ UNCHANGED <<tries, limit, resumes>>
      /\ \A i \in JobId \ {j} : state'[i] = state[i]
  BY DEF Send, recalls, TypeOK, RetriesLeft
<1>2. Phases[j] = "absent" /\ Phases'[j] = "queued" /\ TriesLeft'[j] = limit[j] + 1
  <2>1. limit[j] \in Nat
    BY DEF TypeOK
  <2> QED
    BY <1>1, <2>1 DEF Phases, Queued, TriesLeft
<1>3. \A i \in JobId \ {j} : Phases'[i] = Phases[i] /\ TriesLeft'[i] = TriesLeft[i]
  BY <1>1, SamePlace
<1>4. TriesLeft'[j] \in Int /\ TriesLeft'[j] > 0
  BY <1>2 DEF TypeOK
<1>5. Lifecycle!Endow({j})
  <2>1. \A i \in JobId : TriesLeft[i] \in Int
    BY MappedJob
  <2> QED
    BY <1>3, <1>4, <2>1, MappedFunctions DEF Lifecycle!Endow
<1>6. Lifecycle!Move({j}, "queued")
  BY <1>2, <1>3, Moving
<1> QED
  BY <1>1, <1>2, <1>5, <1>6 DEF Lifecycle!Arrive, Lifecycle!In

\* The index lets the batch through: every job of it had a delivery left.
LEMMA ClaimDelivers ==
  ASSUME TypeOK, TypeOK', RetriesLeft, NEW w \in Worker, Claim(w), ~UNCHANGED <<state, tries>>
  PROVE  Lifecycle!Deliver(locked[w])
<1>1. /\ state' = [j \in JobId |-> IF j \in locked[w] THEN "active" ELSE state[j]]
      /\ tries' = [j \in JobId |-> IF j \in locked[w] THEN tries[j] + 1 ELSE tries[j]]
      /\ UNCHANGED <<limit, resumes>>
  BY DEF Claim, recalls
<1>2. locked[w] \in SUBSET JobId
  BY DEF TypeOK
<1>3. ASSUME NEW j \in locked[w]
      PROVE  /\ Phases[j] = "queued" /\ Phases'[j] = "active"
             /\ TriesLeft[j] + resumes[j] > 0 /\ TriesLeft'[j] = TriesLeft[j] - 1
  <2>1. /\ j \in JobId /\ state[j] \in {"created", "retry"}
        /\ tries[j] \in Nat /\ limit[j] \in Nat /\ resumes[j] \in Nat
    BY <1>2 DEF TypeOK
  <2>2. tries[j] <= limit[j] + resumes[j]
    BY <2>1 DEF RetriesLeft
  <2>3. state'[j] = "active" /\ tries'[j] = tries[j] + 1
    BY <1>1, <2>1
  <2>4. Phases[j] = "queued" /\ TriesLeft[j] = limit[j] + 1 - tries[j]
    BY <2>1 DEF Phases, Queued, TriesLeft
  <2>5. Phases'[j] = "active" /\ TriesLeft'[j] = limit[j] + 1 - tries'[j]
    BY <1>1, <2>1, <2>3 DEF Phases, Queued, TriesLeft
  <2> QED
    BY <2>1, <2>2, <2>3, <2>4, <2>5
<1>4. \A j \in JobId \ locked[w] : Phases'[j] = Phases[j] /\ TriesLeft'[j] = TriesLeft[j]
  BY <1>1, SamePlace
<1>5. TriesLeft' = [j \in JobId |-> IF j \in locked[w] THEN TriesLeft[j] - 1 ELSE TriesLeft[j]]
  BY <1>3, <1>4, MappedFunctions
<1>6. Lifecycle!Move(locked[w], "active")
  BY <1>2, <1>3, <1>4, Moving
<1> QED
  BY <1>1, <1>3, <1>5, <1>6 DEF Lifecycle!Deliver, Lifecycle!In

\* Completed and deleted jobs alike.
LEMMA EndingForgets ==
  ASSUME TypeOK, NEW S \in SUBSET JobId, \A j \in S : state[j] \notin {"absent", "ended"},
         state' = [j \in JobId |-> IF j \in S THEN "ended" ELSE state[j]],
         UNCHANGED <<tries, recalls>>
  PROVE  Lifecycle!Forget(S)
<1>1. \A j \in S : Phases[j] \notin {"absent", "gone"}
  BY DEF Phases, Queued, TypeOK, JobStates
<1>2. \A j \in S : Phases'[j] = "gone" /\ TriesLeft'[j] = 0
  BY DEF Phases, Queued, TriesLeft
<1>3. \A j \in JobId \ S : Phases'[j] = Phases[j] /\ TriesLeft'[j] = TriesLeft[j]
  BY SamePlace DEF recalls
<1>4. TriesLeft' = [j \in JobId |-> IF j \in S THEN 0 ELSE TriesLeft[j]]
  BY <1>2, <1>3, MappedFunctions
<1>5. Lifecycle!Move(S, "gone")
  BY <1>2, <1>3, Moving
<1> QED
  BY <1>1, <1>4, <1>5 DEF Lifecycle!Forget, recalls

\* A handler that fails, and a lease that is over.
LEMMA FailingGivesUp ==
  ASSUME TypeOK, NEW S \in SUBSET JobId, \A j \in S : state[j] = "active",
         state' = [j \in JobId |-> IF j \in S THEN RetryOrFail(j) ELSE state[j]],
         UNCHANGED <<tries, recalls>>
  PROVE  Lifecycle!GiveUp(S, {})
<1> DEFINE failed == {j \in S : TriesLeft[j] <= 0}
<1>1. ASSUME NEW j \in S
      PROVE  /\ Phases[j] = "active" /\ TriesLeft'[j] = TriesLeft[j]
             /\ Phases'[j] = IF j \in failed THEN "failed" ELSE "queued"
  <2>1. j \in JobId /\ state[j] = "active" /\ tries[j] \in Nat /\ limit[j] \in Nat
    BY DEF TypeOK
  <2>2. Phases[j] = "active" /\ TriesLeft[j] = limit[j] + 1 - tries[j]
    BY <2>1 DEF Phases, Queued, TriesLeft
  <2>3. state'[j] = RetryOrFail(j) /\ tries'[j] = tries[j] /\ limit'[j] = limit[j]
    BY <2>1 DEF recalls
  <2>4. j \in failed <=> ~(tries[j] <= limit[j])
    BY <2>1, <2>2
  <2>5. state'[j] = IF j \in failed THEN "failed" ELSE "retry"
    BY <2>3, <2>4 DEF RetryOrFail
  <2>6. Phases'[j] = IF j \in failed THEN "failed" ELSE "queued"
    BY <2>1, <2>5 DEF Phases, Queued
  <2>7. TriesLeft'[j] = limit[j] + 1 - tries'[j]
    BY <2>1, <2>3, <2>5 DEF TriesLeft
  <2> QED
    BY <2>2, <2>3, <2>6, <2>7
<1>2. \A j \in JobId \ S : Phases'[j] = Phases[j] /\ TriesLeft'[j] = TriesLeft[j]
  BY SamePlace DEF recalls
<1>3. failed \subseteq S
  OBVIOUS
<1>4. Phases' = [j \in JobId |-> CASE j \in failed -> "failed"
                                   [] j \in (S \ failed) \cup {} -> "queued"
                                   [] OTHER -> Phases[j]]
  <2>1. ASSUME NEW j \in JobId
        PROVE  Phases'[j] = CASE j \in failed -> "failed"
                              [] j \in (S \ failed) \cup {} -> "queued"
                              [] OTHER -> Phases[j]
    <3> HIDE DEF failed
    <3> QED
      BY <1>1, <1>2, <1>3
  <2> HIDE DEF failed
  <2> QED
    BY <2>1, MappedFunctions
<1>5. Lifecycle!Endow({})
  <2>1. \A j \in JobId : TriesLeft'[j] = TriesLeft[j] /\ TriesLeft[j] \in Int
    BY <1>1, <1>2, MappedJob
  <2> QED
    BY <2>1, MappedFunctions DEF Lifecycle!Endow
<1>6. \E source \in [{} -> failed] : Lifecycle!IsInjective(source)
  <2>1. [i \in {} |-> i] \in [{} -> failed] /\ Lifecycle!IsInjective([i \in {} |-> i])
    BY DEF Lifecycle!IsInjective
  <2> QED
    BY <2>1
<1>7. Lifecycle!In(S, "active") /\ Lifecycle!In({}, "absent")
  BY <1>1 DEF Lifecycle!In
<1> QED
  BY <1>4, <1>5, <1>6, <1>7 DEF Lifecycle!GiveUp, recalls

\* The administrative calls on one job.
LEMMA CallsMap ==
  ASSUME TypeOK, TypeOK', RetriesLeft, NEW j \in JobId, Call(j), ~UNCHANGED <<state, tries, recalls>>
  PROVE  \/ \E S \in SUBSET JobId : Lifecycle!Arrive(S) \/ Lifecycle!Forget(S)
         \/ Lifecycle!Cancel(j) \/ Lifecycle!Resume(j) \/ Lifecycle!Retry(j)
<1>1. ASSUME \A i \in JobId \ {j} : state'[i] = state[i] /\ limit'[i] = limit[i], tries' = tries
      PROVE  \A i \in JobId \ {j} : Phases'[i] = Phases[i] /\ TriesLeft'[i] = TriesLeft[i]
  BY <1>1, SamePlace
<1>2. tries[j] \in Nat /\ limit[j] \in Nat
  BY DEF TypeOK
<1>3. CASE Send(j)
  BY <1>3, SendArrives
<1>4. CASE Cancel(j)
  <2>1. /\ state[j] \in {"created", "retry", "active"} /\ state'[j] = "cancelled"
        /\ UNCHANGED <<tries, limit, resumes>> /\ \A i \in JobId \ {j} : state'[i] = state[i]
    BY <1>4 DEF Cancel, TypeOK, recalls
  <2>2. /\ Phases[j] \in {"queued", "active"} /\ Phases'[j] = "cancelled"
        /\ TriesLeft'[j] = TriesLeft[j]
    BY <2>1 DEF Phases, Queued, TriesLeft
  <2> QED
    BY <1>1, <2>1, <2>2, MappedFunctions DEF Lifecycle!Cancel
<1>5. CASE Delete(j)
  <2>1. state[j] # "ended"
    BY <1>5 DEF Delete, TypeOK
  <2>2. state' = [i \in JobId |-> IF i \in {j} THEN "ended" ELSE state[i]]
    BY <1>5 DEF Delete, TypeOK
  <2>3. Lifecycle!Forget({j})
    BY <1>5, <2>1, <2>2, EndingForgets DEF Delete
  <2> QED
    BY <2>3
<1>6. CASE Resume(j)
  <2>1. /\ state[j] = "cancelled" /\ state'[j] = "created" /\ UNCHANGED <<tries, limit>>
        /\ resumes' = [resumes EXCEPT ![j] = @ + 1]
        /\ \A i \in JobId \ {j} : state'[i] = state[i]
    BY <1>6 DEF Resume, TypeOK
  <2>2. Phases[j] = "cancelled" /\ Phases'[j] = "queued" /\ TriesLeft'[j] = TriesLeft[j]
    BY <2>1 DEF Phases, Queued, TriesLeft
  <2> QED
    BY <1>1, <2>1, <2>2, MappedFunctions DEF Lifecycle!Resume
<1>7. CASE Retry(j)
  <2>1. /\ state[j] = "failed" /\ state'[j] = "retry" /\ UNCHANGED <<tries, resumes>>
        /\ limit'[j] = limit[j] + 1
        /\ \A i \in JobId \ {j} : state'[i] = state[i] /\ limit'[i] = limit[i]
    BY <1>7 DEF Retry, TypeOK
  <2>2. Phases[j] = "failed" /\ Phases'[j] = "queued" /\ TriesLeft'[j] = TriesLeft[j] + 1
    BY <1>2, <2>1 DEF Phases, Queued, TriesLeft
  <2> QED
    BY <1>1, <2>1, <2>2, MappedFunctions DEF Lifecycle!Retry
<1> QED
  BY <1>3, <1>4, <1>5, <1>6, <1>7 DEF Call

\* A step of PolicyFetch is a step of the life cycle, or leaves it unchanged.
LEMMA StepImplements ==
  ASSUME TypeOK, TypeOK', RetriesLeft, [Next]_vars
  PROVE  [Lifecycle!LNext]_(Lifecycle!lifecycle)
<1>1. CASE UNCHANGED <<state, tries, recalls>>
  BY <1>1, NothingMoves
<1>2. ASSUME NEW S \in SUBSET JobId,
             Lifecycle!Arrive(S) \/ Lifecycle!Deliver(S) \/ Lifecycle!Forget(S) \/ Lifecycle!GiveUp(S, {})
      PROVE  Lifecycle!LNext
  BY <1>2 DEF Lifecycle!LNext
<1>3. ASSUME NEW w \in Worker, Claiming(w), ~UNCHANGED <<state, tries, recalls>> PROVE Lifecycle!LNext
  <2>1. Claim(w)
    BY <1>3 DEF Claiming, FetchesNothing, LockNext, ClaimFails, vars, recalls
  <2>2. ~UNCHANGED <<state, tries>>
    BY <1>3, <2>1 DEF Claim
  <2> QED
    BY <1>2, <2>1, <2>2, ClaimDelivers DEF TypeOK
<1>4. ASSUME NEW w \in Worker, Settlement(w) PROVE Lifecycle!LNext
  <2>1. /\ Settling(w) \in SUBSET JobId /\ UNCHANGED <<tries, recalls>>
        /\ \A j \in Settling(w) : state[j] = "active"
    BY <1>4 DEF Settlement, Complete, Fail, Settling, TypeOK
  <2>2. CASE Complete(w)
    <3>1. Lifecycle!Forget(Settling(w))
      BY <2>1, <2>2, EndingForgets DEF Complete
    <3> QED
      BY <1>2, <2>1, <3>1
  <2>3. CASE Fail(w)
    <3>1. Lifecycle!GiveUp(Settling(w), {})
      BY <2>1, <2>3, FailingGivesUp DEF Fail
    <3> QED
      BY <1>2, <2>1, <3>1
  <2> QED
    BY <1>4, <2>2, <2>3 DEF Settlement
<1>5. ASSUME NEW w \in Worker, Drop(w) PROVE UNCHANGED <<state, tries, recalls>>
  BY <1>5 DEF Drop
<1>6. ASSUME NEW j \in JobId, Recover(j) PROVE Lifecycle!LNext
  <2>1. /\ state' = [i \in JobId |-> IF i \in {j} THEN RetryOrFail(i) ELSE state[i]]
        /\ \A i \in {j} : state[i] = "active"
    BY <1>6 DEF Recover, TypeOK
  <2>2. Lifecycle!GiveUp({j}, {})
    BY <1>6, <2>1, FailingGivesUp DEF Recover
  <2> QED
    BY <1>2, <2>2
<1>10. ASSUME NEW j \in JobId, Call(j), ~UNCHANGED <<state, tries, recalls>>
       PROVE  Lifecycle!LNext
  BY <1>10, CallsMap DEF Lifecycle!LNext
<1>7. ASSUME NEW j \in JobId, DelayEnds(j) PROVE UNCHANGED <<state, tries, recalls>>
  BY <1>7 DEF DelayEnds
<1>8. CASE UNCHANGED vars
  BY <1>1, <1>8 DEF vars, recalls
<1>9. CASE Next
  BY <1>1, <1>3, <1>4, <1>5, <1>6, <1>7, <1>9, <1>10 DEF Next
<1> QED
  BY <1>8, <1>9

\* A failed delivery is retried only while one is left, and only a claim counts one.
LEMMA RetriesLeftKept ==
  ASSUME TypeOK, TypeOK', RetriesLeft, [Next]_vars
  PROVE  RetriesLeft'
<1>0. \A j \in JobId : /\ tries[j] \in Nat /\ limit[j] \in Nat /\ resumes[j] \in Nat
                       /\ tries'[j] \in Nat /\ limit'[j] \in Nat /\ resumes'[j] \in Nat
  BY DEF TypeOK
<1>1. ASSUME UNCHANGED <<tries, recalls>>,
             \A j \in JobId : \/ state'[j] \in {state[j], "ended"}
                              \/ state[j] = "active" /\ state'[j] = RetryOrFail(j)
                              \/ state[j] = "absent" /\ state'[j] = "created"
                              \/ /\ state[j] \in {"created", "retry", "active"}
                                 /\ state'[j] = "cancelled"
      PROVE  RetriesLeft'
  <2>1. tries' = tries /\ limit' = limit /\ resumes' = resumes
    BY <1>1 DEF recalls
  <2>2. \A j \in JobId : \/ RetryOrFail(j) = "failed"
                         \/ RetryOrFail(j) = "retry" /\ tries[j] <= limit[j]
    BY DEF RetryOrFail
  <2> QED
    BY <1>0, <1>1, <2>1, <2>2 DEF RetriesLeft
<1>2. CASE UNCHANGED <<state, tries, recalls>>
  BY <1>1, <1>2
<1>4. ASSUME NEW w \in Worker, Claim(w), ~UNCHANGED <<state, tries>> PROVE RetriesLeft'
  <2>1. /\ UNCHANGED <<limit, resumes>>
        /\ \A j \in JobId : /\ state'[j] = IF j \in locked[w] THEN "active" ELSE state[j]
                            /\ tries'[j] = IF j \in locked[w] THEN tries[j] + 1 ELSE tries[j]
    BY <1>4 DEF Claim, recalls
  <2>2. \A j \in locked[w] : state[j] \in {"created", "retry"}
    BY DEF TypeOK
  <2> QED
    BY <1>0, <2>1, <2>2 DEF RetriesLeft
<1>5. ASSUME NEW w \in Worker, Settlement(w) PROVE RetriesLeft'
  <2>1. UNCHANGED <<tries, recalls>>
    BY <1>5 DEF Settlement, Complete, Fail
  <2>2. \A j \in JobId : \/ state'[j] \in {state[j], "ended"}
                         \/ state[j] = "active" /\ state'[j] = RetryOrFail(j)
    BY <1>5 DEF Settlement, Complete, Fail, Settling
  <2> QED
    BY <1>1, <2>1, <2>2
<1>6. ASSUME NEW j \in JobId, Recover(j) \/ Send(j) \/ Cancel(j) \/ Delete(j) PROVE RetriesLeft'
  <2>1. UNCHANGED <<tries, recalls>> /\ \A i \in JobId \ {j} : state'[i] = state[i]
    BY <1>6 DEF Recover, Send, Cancel, Delete, TypeOK
  <2>2. \/ state[j] = "active" /\ state'[j] = RetryOrFail(j)
        \/ state'[j] = "ended"
        \/ state[j] = "absent" /\ state'[j] = "created"
        \/ state[j] \in {"created", "retry", "active"} /\ state'[j] = "cancelled"
    BY <1>6 DEF Recover, Send, Cancel, Delete, TypeOK
  <2> QED
    BY <1>1, <2>1, <2>2
<1>7. ASSUME NEW j \in JobId, Resume(j) PROVE RetriesLeft'
  <2>1. /\ tries' = tries /\ limit' = limit /\ resumes'[j] = resumes[j] + 1
        /\ state[j] = "cancelled" /\ state'[j] = "created"
        /\ \A i \in JobId \ {j} : state'[i] = state[i] /\ resumes'[i] = resumes[i]
    BY <1>7 DEF Resume, TypeOK
  <2> QED
    BY <1>0, <2>1 DEF RetriesLeft
<1>8. ASSUME NEW j \in JobId, Retry(j) PROVE RetriesLeft'
  <2>1. /\ tries' = tries /\ resumes' = resumes /\ limit'[j] = limit[j] + 1
        /\ state[j] = "failed" /\ state'[j] = "retry"
        /\ \A i \in JobId \ {j} : state'[i] = state[i] /\ limit'[i] = limit[i]
    BY <1>8 DEF Retry, TypeOK
  <2> QED
    BY <1>0, <2>1 DEF RetriesLeft
<1>9. CASE Next /\ ~UNCHANGED <<state, tries, recalls>>
  <2>1. ASSUME NEW w \in Worker, Claiming(w) PROVE RetriesLeft'
    <3>1. Claim(w) /\ ~UNCHANGED <<state, tries>>
      BY <1>9, <2>1 DEF Claiming, FetchesNothing, LockNext, Claim, ClaimFails, vars, recalls
    <3> QED
      BY <1>4, <3>1
  <2>2. \A w \in Worker : ~Drop(w)
    BY <1>9 DEF Drop
  <2>3. \A j \in JobId : ~DelayEnds(j)
    BY <1>9 DEF DelayEnds
  <2> QED
    BY <1>5, <1>6, <1>7, <1>8, <1>9, <2>1, <2>2, <2>3 DEF Next, Call
<1> QED
  BY <1>2, <1>9 DEF vars, recalls

\* For any queue policy, jobs, keys, workers and batch size, the claims of
\* PolicyFetch and what comes after them are a behaviour of the abstract life
\* cycle: no job is delivered more often than its retry limit and the calls of
\* resume() and retry() allow, whatever another claim's locks, the refusals of the
\* index, late handlers and cancellations do to the order.
THEOREM PolicyLifecycleImplemented == Spec => ImplementsLifecycle
<1>1. Init => RetriesLeft
  BY PolicyAssumption DEF Init, RetriesLeft
<1>2. Init => Lifecycle!LInit
  BY DEF Init, Lifecycle!LInit, Phases, Queued, TriesLeft
<1>3. RetriesLeft /\ TypeOK /\ TypeOK' /\ [Next]_vars => RetriesLeft'
  BY RetriesLeftKept
<1>4. RetriesLeft /\ TypeOK /\ TypeOK' /\ [Next]_vars => [Lifecycle!LNext]_(Lifecycle!lifecycle)
  BY StepImplements
<1> QED
  BY PolicyTypesOK, <1>1, <1>2, <1>3, <1>4, PTL DEF Spec, ImplementsLifecycle, Lifecycle!LSpec
=============================================================================
