---------------------------- MODULE JobLifecycle ----------------------------
(***************************************************************************)
(* What the queue promises about a job, with no tables, clocks, leases or  *)
(* workers: the phases a job goes through, and how often it can be         *)
(* delivered.  A batch operation moves a set of jobs at once.              *)
(***************************************************************************)
EXTENDS Integers, Functions

CONSTANT JobId

VARIABLES
  phase,  \* "absent", "queued", "active", a finished phase, or "gone"
  tries,  \* deliveries its retry limit still allows (below 0: extras were used)
  extras  \* deliveries granted by resuming it

lifecycle == <<phase, tries, extras>>

In(S, ph) == \A j \in S : phase[j] = ph

Move(S, ph) == phase' = [j \in JobId |-> IF j \in S THEN ph ELSE phase[j]]

LInit ==
  /\ phase = [j \in JobId |-> "absent"]
  /\ tries = [j \in JobId |-> 0]
  /\ extras = [j \in JobId |-> 0]

\* A job that arrives with retry limit n may be delivered n + 1 times.
Endow(S) ==
  /\ tries' \in [JobId -> Int]
  /\ \A j \in JobId : IF j \in S THEN tries'[j] > 0 ELSE tries'[j] = tries[j]

Arrive(S) ==
  /\ In(S, "absent")
  /\ Move(S, "queued")
  /\ Endow(S)
  /\ UNCHANGED extras

Deliver(S) ==
  /\ In(S, "queued")
  /\ \A j \in S : tries[j] + extras[j] > 0
  /\ Move(S, "active")
  /\ tries' = [j \in JobId |-> IF j \in S THEN tries[j] - 1 ELSE tries[j]]
  /\ UNCHANGED extras

Finish(S) == In(S, "active") /\ Move(S, "completed") /\ UNCHANGED <<tries, extras>>

\* The jobs of S failed: one with tries left is queued again, one without has
\* failed, and each of those leaves at most one job in its place (its dead letter).
GiveUp(S, Letters) ==
  LET failed == {j \in S : tries[j] <= 0} IN
  /\ In(S, "active") /\ In(Letters, "absent")
  /\ \E source \in [Letters -> failed] : IsInjective(source)
  /\ phase' = [j \in JobId |-> CASE j \in failed -> "failed"
                                 [] j \in (S \ failed) \cup Letters -> "queued"
                                 [] OTHER -> phase[j]]
  /\ Endow(Letters)
  /\ UNCHANGED extras

Cancel(j) ==
  /\ phase[j] \in {"queued", "active"}
  /\ phase' = [phase EXCEPT ![j] = "cancelled"]
  /\ UNCHANGED <<tries, extras>>

Resume(j) ==
  /\ phase[j] = "cancelled"
  /\ phase' = [phase EXCEPT ![j] = "queued"]
  /\ extras' = [extras EXCEPT ![j] = @ + 1]
  /\ UNCHANGED tries

Retry(j) ==
  /\ phase[j] = "failed"
  /\ phase' = [phase EXCEPT ![j] = "queued"]
  /\ tries' = [tries EXCEPT ![j] = @ + 1]
  /\ UNCHANGED extras

\* The row is deleted; nothing is known of the job any more.
Forget(S) ==
  /\ \A j \in S : phase[j] \notin {"absent", "gone"}
  /\ Move(S, "gone")
  /\ tries' = [j \in JobId |-> IF j \in S THEN 0 ELSE tries[j]]
  /\ UNCHANGED extras

LNext ==
  \/ \E S \in SUBSET JobId : Arrive(S) \/ Deliver(S) \/ Finish(S) \/ Forget(S)
  \/ \E S, Letters \in SUBSET JobId : GiveUp(S, Letters)
  \/ \E j \in JobId : Cancel(j) \/ Resume(j) \/ Retry(j)

LSpec == LInit /\ [][LNext]_lifecycle

=============================================================================
