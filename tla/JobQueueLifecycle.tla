------------------------- MODULE JobQueueLifecycle -------------------------
(***************************************************************************)
(* JobQueue implements JobLifecycle: the phase of a job is read off its    *)
(* row's state, and what is left of its tries off retry_limit and the      *)
(* number of claims.                                                       *)
(***************************************************************************)
EXTENDS JobQueue

PhaseOf(row) ==
  IF row = Unused THEN "absent"
  ELSE IF row = Deleted THEN "gone"
  ELSE IF row.state \in Queued THEN "queued"
  ELSE row.state

Phases == [j \in JobId |-> PhaseOf(job[j])]

Tries ==
  [j \in JobId |-> IF j \in Rows(job) THEN job[j].retry_limit + 1 - claims[j] ELSE 0]

Lifecycle == INSTANCE JobLifecycle WITH phase <- Phases, tries <- Tries, extras <- resumes

\* Every behaviour of the tables, whatever workers, sweeps and administrators
\* do, is a behaviour of the abstract life cycle.
ImplementsLifecycle == Lifecycle!LSpec
=============================================================================
