----------------------------- MODULE GroupFetch -----------------------------
(***************************************************************************)
(* The claim with a group limit: fetch_next_job with group_concurrency.    *)
(* The statement counts the active jobs of each group on its snapshot,     *)
(* locks the first candidates that nobody else has locked, ranks them      *)
(* within their group, and updates those that stay below the limit.  Other *)
(* claims may commit between these steps.                                  *)
(***************************************************************************)
EXTENDS Naturals, FiniteSets

CONSTANTS
  JobId,             \* jobs, numbered as the claim orders them (priority, age, id)
  IdRank,            \* [JobId -> Nat]: the order of the ids themselves (uuids)
  Group,             \* group ids
  NoGroup,           \* group_id IS NULL
  GroupOf,           \* [JobId -> Group \cup {NoGroup}]
  Claimer,           \* workers and fetch() callers of all nodes, with this limit
  GroupConcurrency,  \* WorkOptions.group_concurrency ($3)
  BatchSize,         \* WorkOptions.batch_size ($2)
  MaxTries,          \* bound on the deliveries of a job
  SerialClaims       \* TRUE: claims of this queue never overlap

ASSUME GroupAssumption ==
  /\ JobId \subseteq Nat /\ IsFiniteSet(JobId)
  /\ IdRank \in [JobId -> Nat]
  /\ \A i, j \in JobId : IdRank[i] = IdRank[j] => i = j
  /\ NoGroup \notin Group
  /\ GroupOf \in [JobId -> Group \cup {NoGroup}]
  /\ GroupConcurrency \in Nat \ {0} /\ BatchSize \in Nat \ {0} /\ MaxTries \in Nat
  /\ SerialClaims \in BOOLEAN

VARIABLES
  state,   \* "absent", "queued" (created or retry, and due), "active", or
           \* "finished", which stands for a retry that waits for its start, too
  tries,   \* deliveries of each job
  step,    \* how far the statement of each claimer has come
  counts,  \* its active_group_counts
  seen,    \* the queued jobs of its snapshot
  locked   \* the rows it has locked (CTE next)

vars == <<state, tries, step, counts, seen, locked>>
claim == <<step, counts, seen, locked>>

TypeOK ==
  /\ state \in [JobId -> {"absent", "queued", "active", "finished"}]
  /\ tries \in [JobId -> Nat]
  /\ step \in [Claimer -> {"idle", "counted", "locked"}]
  /\ counts \in [Claimer -> [Group -> Nat]]
  /\ seen \in [Claimer -> SUBSET JobId]
  /\ locked \in [Claimer -> SUBSET JobId]

ActiveIn(g) == {j \in JobId : GroupOf[j] = g /\ state[j] = "active"}

Init ==
  /\ state = [j \in JobId |-> "absent"]
  /\ tries = [j \in JobId |-> 0]
  /\ step = [c \in Claimer |-> "idle"]
  /\ counts = [c \in Claimer |-> [g \in Group |-> 0]]
  /\ seen = [c \in Claimer |-> {}]
  /\ locked = [c \in Claimer |-> {}]

-----------------------------------------------------------------------------
(* The claim. *)

\* The statement starts: its snapshot fixes the counts and the rows it can see.
Count(c) ==
  /\ step[c] = "idle"
  /\ SerialClaims => \A d \in Claimer : step[d] = "idle"
  /\ step' = [step EXCEPT ![c] = "counted"]
  /\ counts' = [counts EXCEPT ![c] = [g \in Group |-> Cardinality(ActiveIn(g))]]
  /\ seen' = [seen EXCEPT ![c] = {j \in JobId : state[j] = "queued"}]
  /\ UNCHANGED <<state, tries, locked>>

\* Mutant: no look at the group before the batch is cut.
CandidatesOfAnyGroup(c) ==
  {j \in seen[c] : state[j] = "queued" /\ \A d \in Claimer : j \notin locked[d]}

\* Rows of the snapshot that are still queued when they are locked, are not
\* locked by another claim (SKIP LOCKED), and whose group was below the limit.
Candidates(c) ==
  {j \in seen[c] :
     /\ state[j] = "queued"
     /\ \A d \in Claimer : j \notin locked[d]
     /\ GroupOf[j] \in Group => counts[c][GroupOf[j]] < GroupConcurrency}

\* ORDER BY ... LIMIT: the first BatchSize of them.
NextJobs(c) ==
  {j \in Candidates(c) : Cardinality({i \in Candidates(c) : i < j}) < BatchSize}

LockNext(c) ==
  /\ step[c] = "counted"
  /\ step' = [step EXCEPT ![c] = "locked"]
  /\ locked' = [locked EXCEPT ![c] = NextJobs(c)]
  /\ UNCHANGED <<state, tries, counts, seen>>

\* ROW_NUMBER() OVER (PARTITION BY group_id ORDER BY id).
GroupRank(c, j) ==
  Cardinality({i \in locked[c] : GroupOf[i] = GroupOf[j] /\ IdRank[i] <= IdRank[j]})

\* Mutant: counts the group's active jobs, not those of this batch before it.
GroupFilteredByCount(c) ==
  {j \in locked[c] :
     GroupOf[j] \in Group => counts[c][GroupOf[j]] + 1 <= GroupConcurrency}

GroupFiltered(c) ==
  {j \in locked[c] :
     GroupOf[j] \in Group => counts[c][GroupOf[j]] + GroupRank(c, j) <= GroupConcurrency}

\* The end of the statement, with or without its UPDATE, releases the locks.
Release(c) ==
  /\ step' = [step EXCEPT ![c] = "idle"]
  /\ counts' = [counts EXCEPT ![c] = [g \in Group |-> 0]]
  /\ seen' = [seen EXCEPT ![c] = {}]
  /\ locked' = [locked EXCEPT ![c] = {}]

Claim(c) ==
  /\ step[c] = "locked"
  /\ state' = [j \in JobId |-> IF j \in GroupFiltered(c) THEN "active" ELSE state[j]]
  /\ tries' = [j \in JobId |-> IF j \in GroupFiltered(c) THEN tries[j] + 1 ELSE tries[j]]
  /\ Release(c)

\* The process dies, or the statement raises.
Rollback(c) ==
  /\ step[c] # "idle"
  /\ Release(c)
  /\ UNCHANGED <<state, tries>>

-----------------------------------------------------------------------------
(* Everyone else, as far as the claim can tell: JobQueue has the detail. *)

Send(j) ==
  /\ state[j] = "absent"
  /\ state' = [state EXCEPT ![j] = "queued"]
  /\ UNCHANGED <<tries, claim>>

\* A worker or a sweep settles an active job.
Settle(j) ==
  /\ state[j] = "active"
  /\ \/ state' = [state EXCEPT ![j] = "finished"]
     \/ tries[j] < MaxTries /\ state' = [state EXCEPT ![j] = "queued"]
  /\ UNCHANGED <<tries, claim>>

\* cancel() of a queued job waits for a claim that has locked it.
Withdraw(j) ==
  /\ state[j] = "queued" /\ \A c \in Claimer : j \notin locked[c]
  /\ state' = [state EXCEPT ![j] = "finished"]
  /\ UNCHANGED <<tries, claim>>

\* resume(), retry(), or the end of a retry delay.
Return(j) ==
  /\ state[j] = "finished" /\ tries[j] < MaxTries
  /\ state' = [state EXCEPT ![j] = "queued"]
  /\ UNCHANGED <<tries, claim>>

-----------------------------------------------------------------------------
Next ==
  \/ \E c \in Claimer : Count(c) \/ LockNext(c) \/ Claim(c) \/ Rollback(c)
  \/ \E j \in JobId : Send(j) \/ Settle(j) \/ Withdraw(j) \/ Return(j)

Spec == Init /\ [][Next]_vars

\* Claimers keep polling, and a claim that is started again and again is not killed
\* each time.  A worker polls between its batches, a caller of fetch() at any time:
\* this assumes one that is not kept by a handler for ever, not that jobs end.
ClaimSpec ==
  Spec /\ \A c \in Claimer : SF_vars(Count(c)) /\ SF_vars(LockNext(c)) /\ SF_vars(Claim(c))

-----------------------------------------------------------------------------
Full(g) == Cardinality(ActiveIn(g)) >= GroupConcurrency

\* At most group_concurrency jobs of a group are active at once, across all
\* nodes (the comment on WorkOptions.group_concurrency).
GroupCap == \A g \in Group : Cardinality(ActiveIn(g)) <= GroupConcurrency

\* Jobs of a group at its limit do not hold up the others: a queued job leaves the
\* queue, or its own group is full, even if no active job ever ends (the test of
\* active_cnt inside next, before LIMIT cuts the batch).
NoHeadOfLineBlocking ==
  \A j \in JobId :
    (state[j] = "queued") ~> (state[j] # "queued" \/ (GroupOf[j] \in Group /\ Full(GroupOf[j])))
=============================================================================
