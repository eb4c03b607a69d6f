--------------------------- MODULE SchedulerProofs ---------------------------
(***************************************************************************)
(* A firing enters the send-it queue once, and its send is made, given up  *)
(* or owed to a fault, for any number of nodes, schedules and faults and   *)
(* for any skew of their clocks.  None is missed, when the due window is   *)
(* wide enough for the faults of one window, the lateness and the skew:    *)
(* which it is not at the default interval, see the run MissedFirings.     *)
(***************************************************************************)
EXTENDS Scheduler, FiniteSetTheorems, TLAPS

\* A firing is being sent at the slot of the clock it was found due at.
FiringDue(d) == Slot(d.clock) = d.firing

DueJob == [schedule : Schedule, firing : Int, clock : Int]

\* The loops, with what each knows of the firing it is sending.
LoopInv ==
  /\ now \in Nat /\ cron_on \in Nat \cup {NULL}
  /\ schedule \subseteq Schedule /\ since \in [Schedule -> Nat]
  /\ loop \in [Node -> {"down", "idle", "won", "sending"}]
  /\ wakeAt \in [Node -> Nat]
  /\ rows \in [Node -> SUBSET Schedule]
  /\ due \in [Node -> DueJob \cup {NULL}]
  /\ \A n \in Node : loop[n] = "sending" => due[n] \in DueJob /\ FiringDue(due[n])

\* A job that is not stray sits in the slot of its firing.
InSlot == \A j \in DOMAIN job : ~job[j].stray => j[2] = job[j].firing

Held(j) == \E n \in Node : j \in batch[n]

\* Each try makes one send at most; a try beyond the first is owed to a fault, as
\* is the try to come of a job that is to be retried or that nobody holds.
Tries ==
  \A j \in DOMAIN job :
    /\ job[j].state = "created" => job[j].tries = 0
    /\ job[j].sent <= job[j].tries /\ job[j].tries <= 1 + faults
    /\ job[j].state = "retry" \/ (job[j].state = "active" /\ ~Held(j))
         => job[j].tries <= faults
    /\ job[j].state = "completed" => job[j].sent + job[j].lost > 0

\* A worker holds its batch alone.  It has still to send what it has not come to,
\* and has sent, or given up, the rest.
Batches ==
  \A n \in Node :
    /\ batch[n] \subseteq DOMAIN job /\ todo[n] \subseteq batch[n]
    /\ \A j \in batch[n] :
         /\ job[j].state = "active"
         /\ IF j \in todo[n] THEN job[j].sent < job[j].tries
            ELSE job[j].sent + job[j].lost > 0
         /\ \A m \in Node : j \in batch[m] => m = n

JobInv ==
  /\ DOMAIN job \subseteq Schedule \X Int
  /\ \A j \in DOMAIN job : job[j] \in SendItJob
  /\ batch \in [Node -> SUBSET DOMAIN job] /\ todo \in [Node -> SUBSET DOMAIN job]
  /\ faults \in Nat
  /\ InSlot /\ Tries /\ Batches

\* The faults of the current window are no more than a window may have.
HitsInv == hits \in 0 .. FaultsPerWindow

SchedulerInv == LoopInv /\ JobInv /\ HitsInv

-----------------------------------------------------------------------------
\* A nonempty set of naturals has a least element, and Min is it: strict inclusion of
\* the intervals below its members is well-founded.
LEMMA MinIn ==
  ASSUME NEW S \in SUBSET Nat, S # {}
  PROVE  Min(S) \in S /\ \A s \in S : Min(S) <= s
<1> PICK b \in S : TRUE
  OBVIOUS
<1> DEFINE Below == {0 .. s : s \in S}
           R == StrictSubsetOrdering(0 .. b)
<1> DEFINE T == {U \in Below : U \subseteq 0 .. b}
<1>1. IsWellFoundedOn(R, FiniteSubsetsOf(0 .. b))
  BY FS_StrictSubsetOrderingWellFounded
<1>2. T \subseteq FiniteSubsetsOf(0 .. b) /\ T # {}
  <2>1. IsFiniteSet(0 .. b)
    BY FS_Interval
  <2>2. 0 .. b \in T
    OBVIOUS
  <2>3. T \subseteq SUBSET (0 .. b)
    OBVIOUS
  <2> HIDE DEF T
  <2> QED
    BY <2>1, <2>2, <2>3, FS_FiniteSubsetsOfFinite
<1>3. \E U \in T : \A V \in T : ~ (<<V, U>> \in R)
  <2> HIDE DEF T, R
  <2> QED BY <1>1, <1>2, WFMin
<1>4. PICK x \in S : 0 .. x \in T /\ \A V \in T : ~ (<<V, 0 .. x>> \in R)
  BY <1>3
<1>5. \A y \in S : x <= y
  <2> SUFFICES ASSUME NEW y \in S, y < x PROVE FALSE
    OBVIOUS
  <2>1. 0 .. y \in T
    BY <1>4
  <2>2. <<0 .. y, 0 .. x>> \in R
    BY <1>4, <2>1 DEF StrictSubsetOrdering
  <2> QED BY <1>4, <2>1, <2>2
<1> QED
  BY <1>5 DEF Min

\* A nonempty set of naturals with a bound has a greatest element, and Max is it.
LEMMA MaxIn ==
  ASSUME NEW S \in SUBSET Nat, S # {}, NEW t \in Int, \A s \in S : s <= t
  PROVE  Max(S) \in S /\ \A s \in S : Max(S) >= s
<1> DEFINE D == {t - s : s \in S}
<1>1. D \in SUBSET Nat /\ D # {}
  <2>1. \A s \in S : t - s \in Nat
    OBVIOUS
  <2> QED BY <2>1
<1>2. Min(D) \in D /\ \A d \in D : Min(D) <= d
  <2> HIDE DEF D
  <2> QED BY <1>1, MinIn
<1>3. PICK m \in S : Min(D) = t - m
  BY <1>2
<1>4. \A s \in S : m >= s
  <2> SUFFICES ASSUME NEW s \in S PROVE m >= s
    OBVIOUS
  <2>1. t - s \in D
    OBVIOUS
  <2>2. Min(D) <= t - s
    BY <1>2, <2>1
  <2>3. m \in Int /\ s \in Int
    OBVIOUS
  <2> HIDE DEF D
  <2> QED BY <1>3, <2>2, <2>3
<1> QED
  BY <1>4 DEF Max

\* A firing on a whole window, within the window before t, is the slot of t.
LEMMA SlotOfFiring ==
  ASSUME NEW W \in Nat \ {0}, NEW f \in Nat, NEW t \in Int,
         f % W = 0, f < t, t - f < W
  PROVE  W * (t \div W) = f
<1> DEFINE q == f \div W
<1>1. q \in Int /\ f = W * q + (f % W)
  OBVIOUS
<1>2. f = W * q
  BY <1>1
<1>3. t \div W = q
  <2> HIDE DEF q
  <2>1. t = W * q + (t - f) /\ t - f \in 0 .. W - 1
    BY <1>1, <1>2
  <2> QED BY <1>1, <2>1
<1> QED
  BY <1>2, <1>3

\* Two whole windows less than a window apart are in order.
LEMMA WindowsApart ==
  ASSUME NEW W \in Nat \ {0}, NEW f \in Nat, NEW t \in Nat,
         f % W = 0, t % W = 0, t < f + W
  PROVE  t <= f
<1>1. ASSUME f < t PROVE W * (t \div W) = f
  <2>1. t \in Int /\ t - f < W
    OBVIOUS
  <2> QED BY <1>1, <2>1, SlotOfFiring
<1> DEFINE q == t \div W
           r == W * q
<1>2. q \in Int /\ t = r + (t % W)
  OBVIOUS
<1>3. f < t => r = f
  BY <1>1
<1> HIDE DEF q
<1>4. r \in Int
  BY <1>2
<1> HIDE DEF r
<1> QED
  BY <1>2, <1>3, <1>4

\* The slot of a time is a time.
LEMMA SlotType ==
  ASSUME NEW W \in Nat \ {0}, NEW t \in Int
  PROVE  W * (t \div W) \in Int /\ (t \in Nat => W * (t \div W) \in Nat)
<1>1. t \div W \in Int /\ (t \in Nat => t \div W \in Nat)
  OBVIOUS
<1> DEFINE q == t \div W
<1> HIDE DEF q
<1>2. q \in Int => W * q \in Int
  OBVIOUS
<1>3. q \in Nat => W * q \in Nat
  OBVIOUS
<1> QED
  BY <1>1, <1>2, <1>3 DEF q

LEMMA SlotInt ==
  ASSUME NEW t \in Int
  PROVE  Slot(t) \in Int /\ (t \in Nat => Slot(t) \in Nat)
BY SlotType, SchedulerAssumption DEF Slot

\* What _should_send finds due is the slot of the clock.
LEMMA DueFiring ==
  ASSUME NEW s \in Schedule, NEW t \in Int, ShouldSend(s, t)
  PROVE  Previous(s, t) \in Int /\ Slot(t) = Previous(s, t)
<1> DEFINE past == {f \in FiresAt[s] : f < t}
           f == Previous(s, t)
<1>1. past \in SUBSET Nat /\ past # {} /\ f = Max(past) /\ t - f < Window
  BY SchedulerAssumption DEF ShouldSend, Previous
<1>2. f \in past
  <2>1. \A p \in past : p <= t
    BY <1>1
  <2> HIDE DEF past, f
  <2> QED BY <1>1, <2>1, MaxIn
<1>3. f \in Nat /\ f < t /\ f % Window = 0
  BY <1>2, SchedulerAssumption
<1> HIDE DEF f
<1>4. Slot(t) = f
  BY <1>1, <1>3, SlotOfFiring, SchedulerAssumption DEF Slot
<1> QED
  BY <1>3, <1>4 DEF f

LEMMA ClockInt == ASSUME LoopInv, NEW n \in Node PROVE Clock(n) \in Int
BY SchedulerAssumption DEF LoopInv, Clock

-----------------------------------------------------------------------------
(***************************************************************************)
(* The loops                                                               *)
(***************************************************************************)
LEMMA RestOK ==
  ASSUME LoopInv, NEW n \in Node, Rest(n),
         UNCHANGED <<now, schedule, since>>, cron_on' \in Nat \cup {NULL}
  PROVE  LoopInv'
BY SchedulerAssumption DEF LoopInv, Rest, FiringDue, DueJob, Slot

LEMMA ProceedOK ==
  ASSUME LoopInv, NEW n \in Node, NEW todoRows \in SUBSET Schedule, Proceed(n, todoRows),
         UNCHANGED <<now, cron_on, schedule, since>>
  PROVE  LoopInv'
<1> DEFINE Reached == {s \in todoRows : \A b \in todoRows \cap Broken : s < b}
           found == {s \in Reached : ShouldSend(s, Clock(n))}
           next == Min(found)
           d == [schedule |-> next, firing |-> Previous(next, Clock(n)), clock |-> Clock(n)]
<1>1. CASE found = {}
  BY <1>1, RestOK DEF LoopInv, Proceed
<1>2. CASE found # {}
  <2>1. found \in SUBSET Nat /\ found \subseteq Schedule
    BY SchedulerAssumption
  <2>2. next \in found
    <3> HIDE DEF found
    <3> QED BY <1>2, <2>1, MinIn
  <2>3. next \in Schedule /\ ShouldSend(next, Clock(n))
    BY <2>2
  <2>4. /\ loop' = [loop EXCEPT ![n] = "sending"]
        /\ rows' = [rows EXCEPT ![n] = {s \in todoRows : next < s}]
        /\ due' = [due EXCEPT ![n] = d] /\ wakeAt' = wakeAt
    BY <1>2 DEF Proceed
  <2> HIDE DEF next
  <2>5. d \in DueJob /\ d.clock = Clock(n) /\ d.firing = Previous(next, Clock(n))
        /\ Previous(next, Clock(n)) = Slot(Clock(n))
    BY <2>3, ClockInt, DueFiring DEF DueJob
  <2> HIDE DEF d
  <2>6. d \in DueJob /\ FiringDue(d)
    BY <2>5 DEF FiringDue
  <2> QED
    BY <2>4, <2>6 DEF LoopInv, FiringDue, Slot
<1> QED
  BY <1>1, <1>2

\* The upserted row counts from a whole window.
LEMMA UserOK ==
  ASSUME LoopInv, NEW s \in Schedule, Upsert(s) \/ Unschedule(s)
  PROVE  LoopInv'
<1>1. Slot(now + Window - 1) \in Nat
  BY SlotInt, SchedulerAssumption DEF LoopInv
<1>2. /\ schedule' \subseteq Schedule /\ since' \in [Schedule -> Nat]
      /\ UNCHANGED <<now, cron_on, loopVars>>
  BY <1>1 DEF LoopInv, Upsert, Unschedule
<1> QED
  BY <1>2 DEF LoopInv, FiringDue, Slot, loopVars

LEMMA TickOK ==
  ASSUME LoopInv, NEW n \in Node, Tick(n)
  PROVE  LoopInv'
<1>1. CASE TickOpen
  BY <1>1 DEF LoopInv, Tick, FiringDue, Slot
<1>2. CASE ~TickOpen
  BY <1>2, RestOK DEF LoopInv, Tick
<1> QED
  BY <1>1, <1>2

LEMMA NodeLoopOK ==
  ASSUME LoopInv, NEW n \in Node, Start(n) \/ Ticking(n) \/ Crash(n)
  PROVE  LoopInv'
<1>1. CASE Start(n) \/ Crash(n)
  BY <1>1 DEF LoopInv, Start, Crash, FiringDue, Slot
<1>2. CASE Tick(n)
  BY <1>2, TickOK
<1>3. CASE FetchSchedules(n)
  BY <1>3, ProceedOK DEF LoopInv, FetchSchedules
<1>4. CASE Enqueue(n)
  <2>1. rows[n] \in SUBSET Schedule /\ Proceed(n, rows[n])
    BY <1>4 DEF LoopInv, Enqueue
  <2> QED
    BY <1>4, <2>1, ProceedOK DEF Enqueue
<1>5. CASE TickFails(n)
  BY <1>5, RestOK DEF LoopInv, TickFails
<1> QED
  BY <1>1, <1>2, <1>3, <1>4, <1>5 DEF Ticking

\* What the send-it workers do leaves the loops alone.
LEMMA LoopFrame ==
  ASSUME LoopInv,
         \/ \E n \in Node : Relaying(n)
         \/ Recover \/ UNCHANGED vars
  PROVE  LoopInv'
<1>1. UNCHANGED <<now, cron_on, schedule, since, loopVars>>
  BY DEF Relaying, ClaimSendIt, Relay, CompleteSendIt, Settle, DropBatch, Recover, vars
<1> QED
  BY <1>1 DEF LoopInv, FiringDue, Slot, loopVars

LEMMA AdvanceOK == ASSUME LoopInv, Advance PROVE LoopInv'
BY DEF LoopInv, Advance, FiringDue, Slot, loopVars

LEMMA LoopInvStep == LoopInv /\ [Next]_vars => LoopInv'
BY UserOK, NodeLoopOK, LoopFrame, AdvanceOK DEF Next

-----------------------------------------------------------------------------
(***************************************************************************)
(* The send-it queue                                                       *)
(***************************************************************************)
\* What the loops do to the queue is Enqueue's; a fault only adds to the count.
LEMMA JobFrame ==
  ASSUME JobInv, UNCHANGED <<job, batch, todo>>, faults' \in Nat, faults' >= faults
  PROVE  JobInv'
<1>1. \A j \in DOMAIN job : job[j].tries \in Nat
  BY DEF JobInv, SendItJob
<1>2. Tries'
  BY <1>1 DEF JobInv, Tries, Held
<1> QED
  BY <1>2 DEF JobInv, InSlot, Batches

LEMMA EnqueueOK ==
  ASSUME LoopInv, JobInv, NEW n \in Node, Enqueue(n)
  PROVE  JobInv'
<1> DEFINE id == <<due[n].schedule, Slot(now)>>
           new == [state |-> "created", firing |-> due[n].firing,
                   stray |-> Slot(now) # Slot(due[n].clock),
                   tries |-> 0, sent |-> 0, lost |-> 0]
<1>1. UNCHANGED <<batch, todo, faults>>
  BY DEF Enqueue, workerVars
<1>2. CASE id \in DOMAIN job
  <2>1. job' = job
    BY <1>2 DEF Enqueue
  <2> QED
    BY <1>1, <2>1, JobFrame DEF JobInv
<1>3. CASE id \notin DOMAIN job
  <2>1. job' = [j \in DOMAIN job \cup {id} |-> IF j = id THEN new ELSE job[j]]
    BY <1>3 DEF Enqueue
  <2>2. due[n] \in DueJob /\ FiringDue(due[n])
    BY DEF LoopInv, Enqueue
  <2>3. id \in Schedule \X Int
    BY <2>2, SlotInt DEF LoopInv, DueJob
  <2>4. new \in SendItJob /\ (~new.stray => id[2] = new.firing)
    BY <2>2 DEF SendItJob, DueJob, FiringDue
  <2>5. new.state = "created" /\ new.tries = 0 /\ new.sent = 0
    OBVIOUS
  <2> HIDE DEF id, new
  <2>6. /\ DOMAIN job' = DOMAIN job \cup {id} /\ job'[id] = new
        /\ \A j \in DOMAIN job : job'[j] = job[j]
    BY <1>3, <2>1
  <2>7. InSlot'
    BY <2>4, <2>6 DEF JobInv, InSlot
  <2>8. Tries'
    BY <1>1, <2>5, <2>6 DEF JobInv, Tries, Held
  <2>9. Batches'
    BY <1>1, <2>6 DEF JobInv, Batches
  <2> QED
    BY <1>1, <2>3, <2>4, <2>6, <2>7, <2>8, <2>9 DEF JobInv
<1> QED
  BY <1>2, <1>3

\* A claim starts a try, and nothing else of the row.
LEMMA ClaimedJob ==
  ASSUME NEW r \in SendItJob
  PROVE  LET claimed == [r EXCEPT !.state = "active", !.tries = @ + 1]
         IN /\ claimed.state = "active" /\ claimed.tries = r.tries + 1
            /\ claimed.sent = r.sent /\ claimed.lost = r.lost
            /\ claimed.stray = r.stray /\ claimed.firing = r.firing
            /\ claimed \in SendItJob
<1> DEFINE claimed == [r EXCEPT !.state = "active", !.tries = @ + 1]
           next == r.tries + 1
<1>1. next \in Nat
  BY DEF SendItJob
<1> HIDE DEF next
<1>2. [r EXCEPT !.state = "active", !.tries = next] \in SendItJob
  BY <1>1 DEF SendItJob
<1>3. claimed = [r EXCEPT !.state = "active", !.tries = next]
  BY DEF next, SendItJob
<1>4. claimed.state = "active" /\ claimed.tries = r.tries + 1
  BY DEF SendItJob
<1>5. /\ claimed.sent = r.sent /\ claimed.lost = r.lost
      /\ claimed.stray = r.stray /\ claimed.firing = r.firing
  BY DEF SendItJob
<1> QED
  BY <1>2, <1>3, <1>4, <1>5

LEMMA ClaimSendItOK ==
  ASSUME JobInv, NEW n \in Node, ClaimSendIt(n)
  PROVE  JobInv'
<1>1. PICK B \in SUBSET Waiting :
        /\ batch' = [batch EXCEPT ![n] = B] /\ todo' = [todo EXCEPT ![n] = B]
        /\ job' = [j \in DOMAIN job |->
                     IF j \in B THEN [job[j] EXCEPT !.state = "active", !.tries = @ + 1]
                     ELSE job[j]]
  BY DEF ClaimSendIt
<1>2. UNCHANGED faults /\ batch[n] = {}
  BY DEF ClaimSendIt
<1>3. \A j \in B : j \in DOMAIN job /\ job[j].state \in {"created", "retry"}
  BY DEF Waiting
<1>4. /\ DOMAIN job' = DOMAIN job
      /\ \A j \in DOMAIN job : j \notin B => job'[j] = job[j]
      /\ \A j \in B : /\ job'[j].state = "active" /\ job'[j].tries = job[j].tries + 1
                      /\ job'[j].sent = job[j].sent /\ job'[j].lost = job[j].lost
                      /\ job'[j].stray = job[j].stray /\ job'[j].firing = job[j].firing
                      /\ job'[j] \in SendItJob
  <2>1. DOMAIN job' = DOMAIN job /\ \A j \in DOMAIN job : j \notin B => job'[j] = job[j]
    BY <1>1
  <2> SUFFICES ASSUME NEW j \in B
               PROVE  /\ job'[j].state = "active" /\ job'[j].tries = job[j].tries + 1
                      /\ job'[j].sent = job[j].sent /\ job'[j].lost = job[j].lost
                      /\ job'[j].stray = job[j].stray /\ job'[j].firing = job[j].firing
                      /\ job'[j] \in SendItJob
    BY <2>1
  <2>2. job'[j] = [job[j] EXCEPT !.state = "active", !.tries = @ + 1]
    BY <1>1, <1>3
  <2>3. job[j] \in SendItJob
    BY <1>3 DEF JobInv
  <2> QED
    BY <2>2, <2>3, ClaimedJob
<1>5. \A j \in DOMAIN job : job[j] \in SendItJob /\ job[j].sent \in Nat /\ job[j].tries \in Nat
  BY DEF JobInv, SendItJob
<1>6. \A j \in B : \A m \in Node : j \notin batch[m]
  BY <1>3 DEF JobInv, Batches
<1>7. /\ batch' \in [Node -> SUBSET DOMAIN job] /\ todo' \in [Node -> SUBSET DOMAIN job]
      /\ batch'[n] = B /\ todo'[n] = B
      /\ \A m \in Node : m # n => batch'[m] = batch[m] /\ todo'[m] = todo[m]
  BY <1>1, <1>3 DEF JobInv
<1>8. \A j \in DOMAIN job : Held(j)' <=> Held(j) \/ j \in B
  BY <1>2, <1>7 DEF Held
<1>9. InSlot'
  BY <1>4 DEF JobInv, InSlot
<1>10. Tries'
  <2> SUFFICES ASSUME NEW j \in DOMAIN job
               PROVE  /\ job'[j].state = "created" => job'[j].tries = 0
                      /\ job'[j].sent <= job'[j].tries /\ job'[j].tries <= 1 + faults
                      /\ job'[j].state = "retry" \/ (job'[j].state = "active" /\ ~Held(j)')
                           => job'[j].tries <= faults
                      /\ job'[j].state = "completed" => job'[j].sent + job'[j].lost > 0
    BY <1>2, <1>4 DEF Tries
  <2>1. CASE j \in B
    BY <2>1, <1>3, <1>4, <1>5, <1>8 DEF JobInv, Tries
  <2>2. CASE j \notin B
    BY <2>2, <1>4, <1>8 DEF JobInv, Tries
  <2> QED
    BY <2>1, <2>2
<1>11. Batches'
  <2> SUFFICES ASSUME NEW m \in Node
               PROVE  /\ batch'[m] \subseteq DOMAIN job /\ todo'[m] \subseteq batch'[m]
                      /\ \A j \in batch'[m] :
                           /\ job'[j].state = "active"
                           /\ IF j \in todo'[m] THEN job'[j].sent < job'[j].tries
                              ELSE job'[j].sent + job'[j].lost > 0
                           /\ \A k \in Node : j \in batch'[k] => k = m
    BY <1>4 DEF Batches
  <2>1. CASE m = n
    <3>1. \A j \in B : job'[j].sent < job'[j].tries
      BY <1>3, <1>4, <1>5 DEF JobInv, Tries
    <3> QED
      BY <2>1, <3>1, <1>3, <1>4, <1>6, <1>7
  <2>2. CASE m # n
    BY <2>2, <1>4, <1>6, <1>7 DEF JobInv, Batches
  <2> QED
    BY <2>1, <2>2
<1> QED
  BY <1>2, <1>4, <1>5, <1>7, <1>9, <1>10, <1>11 DEF JobInv

LEMMA RelayOK ==
  ASSUME JobInv, NEW n \in Node, Relay(n)
  PROVE  JobInv'
<1>1. PICK j \in todo[n] :
        /\ todo' = [todo EXCEPT ![n] = @ \ {j}] /\ batch' = batch
        /\ \/ job' = [job EXCEPT ![j].sent = @ + 1] /\ UNCHANGED faults
           \/ job' = [job EXCEPT ![j].lost = @ + 1] /\ Fault
  BY DEF Relay
<1>2. j \in DOMAIN job /\ j \in batch[n] /\ job[j] \in SendItJob /\ job[j].sent < job[j].tries
  BY DEF JobInv, Batches
<1>3. faults' \in Nat /\ faults' >= faults
  BY <1>1 DEF JobInv, Fault
<1>4. \A i \in DOMAIN job : /\ job[i].sent \in Nat /\ job[i].lost \in Nat
                            /\ job[i].tries \in Nat
  BY DEF JobInv, SendItJob
<1>5. /\ DOMAIN job' = DOMAIN job
      /\ \A i \in DOMAIN job :
           /\ job'[i] \in SendItJob
           /\ job'[i].state = job[i].state /\ job'[i].tries = job[i].tries
           /\ job'[i].stray = job[i].stray /\ job'[i].firing = job[i].firing
           /\ i # j => job'[i] = job[i]
  BY <1>1, <1>2 DEF JobInv, SendItJob
<1>6. /\ job'[j].sent <= job[j].tries /\ job'[j].sent + job'[j].lost > 0
      /\ job'[j].sent \in Nat
  BY <1>1, <1>2, <1>4 DEF SendItJob
<1>7. /\ todo' \in [Node -> SUBSET DOMAIN job] /\ todo'[n] = todo[n] \ {j}
      /\ \A m \in Node : m # n => todo'[m] = todo[m]
  BY <1>1 DEF JobInv
<1>8. InSlot'
  BY <1>5 DEF JobInv, InSlot
<1>9. Tries'
  <2>1. \A i \in DOMAIN job : Held(i)' <=> Held(i)
    BY <1>1 DEF Held
  <2> SUFFICES ASSUME NEW i \in DOMAIN job
               PROVE  /\ job[i].state = "created" => job[i].tries = 0
                      /\ job'[i].sent <= job[i].tries /\ job[i].tries <= 1 + faults'
                      /\ job[i].state = "retry" \/ (job[i].state = "active" /\ ~Held(i))
                           => job[i].tries <= faults'
                      /\ job[i].state = "completed" => job'[i].sent + job'[i].lost > 0
    BY <1>5, <2>1 DEF Tries
  <2>2. /\ job[i].state = "created" => job[i].tries = 0
        /\ job[i].sent <= job[i].tries /\ job[i].tries <= 1 + faults
        /\ job[i].state = "retry" \/ (job[i].state = "active" /\ ~Held(i))
             => job[i].tries <= faults
        /\ job[i].state = "completed" => job[i].sent + job[i].lost > 0
    BY DEF JobInv, Tries
  <2>3. faults \in Nat
    BY DEF JobInv
  <2> QED
    BY <1>3, <1>4, <1>5, <1>6, <2>2, <2>3
<1>10. Batches'
  <2> SUFFICES ASSUME NEW m \in Node, NEW i \in batch[m]
               PROVE  IF i \in todo'[m] THEN job'[i].sent < job'[i].tries
                      ELSE job'[i].sent + job'[i].lost > 0
    BY <1>1, <1>5, <1>7 DEF JobInv, Batches
  <2>1. CASE i = j
    BY <2>1, <1>2, <1>6, <1>7 DEF JobInv, Batches
  <2>2. CASE i # j
    BY <2>2, <1>5, <1>7 DEF JobInv, Batches
  <2> QED
    BY <2>1, <2>2
<1> QED
  BY <1>1, <1>3, <1>5, <1>7, <1>8, <1>9, <1>10 DEF JobInv

LEMMA CompleteSendItOK ==
  ASSUME JobInv, NEW n \in Node, CompleteSendIt(n)
  PROVE  JobInv'
<1>1. /\ UNCHANGED faults /\ todo[n] = {}
      /\ batch' = [batch EXCEPT ![n] = {}] /\ todo' = [todo EXCEPT ![n] = {}]
      /\ job' = [j \in DOMAIN job |->
                   IF j \in batch[n] /\ job[j].state = "active"
                   THEN [job[j] EXCEPT !.state = "completed"] ELSE job[j]]
  BY DEF CompleteSendIt, Settle
<1>2. \A j \in batch[n] : /\ j \in DOMAIN job /\ job[j].state = "active"
                          /\ job[j].sent + job[j].lost > 0
                          /\ \A m \in Node : j \in batch[m] => m = n
  BY <1>1 DEF JobInv, Batches
<1>3. /\ DOMAIN job' = DOMAIN job
      /\ \A j \in DOMAIN job :
           /\ job'[j] \in SendItJob
           /\ job'[j].tries = job[j].tries /\ job'[j].sent = job[j].sent
           /\ job'[j].lost = job[j].lost
           /\ job'[j].stray = job[j].stray /\ job'[j].firing = job[j].firing
           /\ job'[j].state = IF j \in batch[n] THEN "completed" ELSE job[j].state
  BY <1>1, <1>2 DEF JobInv, SendItJob
<1>4. /\ batch' \in [Node -> SUBSET DOMAIN job] /\ todo' \in [Node -> SUBSET DOMAIN job]
      /\ batch'[n] = {} /\ todo'[n] = {}
      /\ \A m \in Node : m # n => batch'[m] = batch[m] /\ todo'[m] = todo[m]
  BY <1>1 DEF JobInv
<1>5. \A j \in DOMAIN job : j \notin batch[n] => (Held(j)' <=> Held(j))
  BY <1>4 DEF Held
<1>6. InSlot'
  BY <1>3 DEF JobInv, InSlot
<1>7. Tries'
  BY <1>1, <1>2, <1>3, <1>5 DEF JobInv, Tries
<1>8. Batches'
  <2> SUFFICES ASSUME NEW m \in Node, m # n
               PROVE  /\ batch[m] \subseteq DOMAIN job /\ todo[m] \subseteq batch[m]
                      /\ \A j \in batch[m] :
                           /\ job'[j].state = "active"
                           /\ IF j \in todo[m] THEN job'[j].sent < job'[j].tries
                              ELSE job'[j].sent + job'[j].lost > 0
                           /\ \A k \in Node : j \in batch[k] => k = m
    BY <1>3, <1>4 DEF Batches
  <2>1. \A j \in batch[m] : j \in DOMAIN job /\ j \notin batch[n]
    BY <1>2 DEF JobInv
  <2> QED
    BY <1>3, <2>1 DEF JobInv, Batches
<1> QED
  BY <1>1, <1>3, <1>4, <1>6, <1>7, <1>8 DEF JobInv

\* A node that dies, or whose settlement fails, leaves its batch to the sweep.
LEMMA AbandonOK ==
  ASSUME JobInv, NEW n \in Node, DropBatch(n) \/ Crash(n)
  PROVE  JobInv'
<1>1. /\ job' = job /\ faults' = faults + 1
      /\ batch' = [batch EXCEPT ![n] = {}] /\ todo'[n] = {}
      /\ todo' \in [Node -> SUBSET DOMAIN job]
      /\ \A m \in Node : m # n => todo'[m] = todo[m]
  BY DEF JobInv, DropBatch, Crash, Fault
<1>2. /\ batch' \in [Node -> SUBSET DOMAIN job] /\ batch'[n] = {}
      /\ \A m \in Node : m # n => batch'[m] = batch[m]
  BY <1>1 DEF JobInv
<1>3. Tries'
  BY <1>1 DEF JobInv, Tries, SendItJob
<1>4. Batches'
  BY <1>1, <1>2 DEF JobInv, Batches
<1> QED
  BY <1>1, <1>2, <1>3, <1>4 DEF JobInv, InSlot

LEMMA RecoverOK ==
  ASSUME JobInv, Recover
  PROVE  JobInv'
<1>1. PICK j \in Abandoned :
        job' = [job EXCEPT ![j].state = IF job[j].tries <= RetryLimit THEN "retry" ELSE "failed"]
  BY DEF Recover
<1>2. UNCHANGED <<batch, todo, faults>>
  BY DEF Recover, workerVars
<1>3. /\ j \in DOMAIN job /\ job[j].state = "active" /\ ~Held(j)
      /\ \A n \in Node : j \notin batch[n]
  BY DEF Abandoned, Held
<1>4. /\ DOMAIN job' = DOMAIN job
      /\ \A i \in DOMAIN job :
           /\ job'[i] \in SendItJob
           /\ job'[i].tries = job[i].tries /\ job'[i].sent = job[i].sent
           /\ job'[i].lost = job[i].lost
           /\ job'[i].stray = job[i].stray /\ job'[i].firing = job[i].firing
           /\ i # j => job'[i] = job[i]
      /\ job'[j].state \in {"retry", "failed"}
  BY <1>1, <1>3 DEF JobInv, SendItJob
<1>5. Tries'
  <2>1. \A i \in DOMAIN job : Held(i)' <=> Held(i)
    BY <1>2 DEF Held
  <2> QED
    BY <1>2, <1>3, <1>4, <2>1 DEF JobInv, Tries
<1>6. Batches'
  BY <1>2, <1>3, <1>4 DEF JobInv, Batches
<1>7. InSlot'
  BY <1>4 DEF JobInv, InSlot
<1> QED
  BY <1>2, <1>4, <1>5, <1>6, <1>7 DEF JobInv

LEMMA JobInvStep == LoopInv /\ JobInv /\ [Next]_vars => JobInv'
<1> SUFFICES ASSUME LoopInv, JobInv, [Next]_vars PROVE JobInv'
  OBVIOUS
<1>1. CASE \/ \E s \in Schedule : Upsert(s) \/ Unschedule(s)
           \/ \E n \in Node : Start(n) \/ Tick(n) \/ FetchSchedules(n) \/ TickFails(n)
           \/ Advance \/ UNCHANGED vars
  <2>1. UNCHANGED <<job, batch, todo>> /\ faults' \in Nat /\ faults' >= faults
    BY <1>1 DEF Upsert, Unschedule, Start, Tick, FetchSchedules, TickFails, Advance, Fault,
                JobInv, vars, workerVars
  <2> QED
    BY <2>1, JobFrame
<1>2. CASE \E n \in Node : Enqueue(n)
  BY <1>2, EnqueueOK
<1>3. CASE \E n \in Node : Relaying(n) \/ Crash(n)
  BY <1>3, ClaimSendItOK, RelayOK, CompleteSendItOK, AbandonOK DEF Relaying
<1>4. CASE Recover
  BY <1>4, RecoverOK
<1> QED
  BY <1>1, <1>2, <1>3, <1>4 DEF Next, Ticking

-----------------------------------------------------------------------------
LEMMA HitsInvStep == HitsInv /\ [Next]_vars => HitsInv'
<1> SUFFICES ASSUME HitsInv, [Next]_vars PROVE HitsInv'
  OBVIOUS
<1> USE SchedulerAssumption DEF HitsInv
<1>1. CASE UNCHANGED hits \/ Fault
  BY <1>1 DEF Fault
<1>2. CASE Advance
  BY <1>2 DEF Advance
<1>3. CASE \/ \E s \in Schedule : Upsert(s) \/ Unschedule(s)
           \/ \E n \in Node : Start(n) \/ Ticking(n) \/ Relaying(n) \/ Crash(n)
           \/ Recover \/ UNCHANGED vars
  BY <1>1, <1>3 DEF Upsert, Unschedule, Start, Ticking, Tick, FetchSchedules, Enqueue, TickFails,
                    Relaying, ClaimSendIt, Relay, CompleteSendIt, Settle, DropBatch, Crash,
                    Recover, vars
<1> QED
  BY <1>2, <1>3 DEF Next

LEMMA SchedulerInitOK == Init => SchedulerInv
<1> SUFFICES ASSUME Init PROVE SchedulerInv
  OBVIOUS
<1>1. LoopInv
  BY DEF Init, LoopInv
<1>2. JobInv
  BY DEF Init, JobInv, InSlot, Tries, Batches
<1>3. HitsInv
  BY SchedulerAssumption DEF Init, HitsInv
<1> QED
  BY <1>1, <1>2, <1>3 DEF SchedulerInv

LEMMA SchedulerInvariant == Spec => []SchedulerInv
<1>1. SchedulerInv /\ [Next]_vars => SchedulerInv'
  BY LoopInvStep, JobInvStep, HitsInvStep DEF SchedulerInv
<1> QED
  BY <1>1, SchedulerInitOK, PTL DEF Spec

\* Every variable of the scheduler stays within its type, and a worker only holds
\* jobs that are active.
THEOREM SchedulerTypesOK == Spec => []TypeOK
<1>1. SchedulerInv => TypeOK
  BY DEF SchedulerInv, LoopInv, JobInv, HitsInv, Batches, TypeOK, DueJob
<1> QED
  BY <1>1, SchedulerInvariant, PTL

\* No two send-it jobs of one schedule carry the same firing, unless a slow tick
\* or a wrong clock put one of them in another slot.
THEOREM FiringsOnce == Spec => []EachFiringOnce
<1>1. SchedulerInv => EachFiringOnce
  <2> SUFFICES ASSUME SchedulerInv, NEW j \in DOMAIN job, NEW k \in DOMAIN job,
                      j[1] = k[1], job[j].firing = job[k].firing,
                      ~job[j].stray, ~job[k].stray
               PROVE  j = k
    BY DEF EachFiringOnce
  <2>1. j[2] = k[2]
    BY DEF SchedulerInv, JobInv, InSlot
  <2>2. j \in Schedule \X Int /\ k \in Schedule \X Int
    BY DEF SchedulerInv, JobInv
  <2> QED
    BY <2>1, <2>2
<1> QED
  BY <1>1, SchedulerInvariant, PTL

\* A send-it job is completed only after its send was made or given up, and it is
\* sent at most once more than there were faults.
THEOREM SendsAccounted == Spec => []RelayAccounting
<1>1. SchedulerInv => RelayAccounting
  <2> SUFFICES ASSUME SchedulerInv, NEW j \in DOMAIN job
               PROVE  /\ job[j].state = "completed" => job[j].sent + job[j].lost > 0
                      /\ job[j].sent <= 1 + faults
    BY DEF RelayAccounting
  <2>1. job[j].sent \in Nat /\ job[j].tries \in Nat /\ faults \in Nat
    BY DEF SchedulerInv, JobInv, SendItJob
  <2> QED
    BY <2>1 DEF SchedulerInv, JobInv, Tries
<1> QED
  BY <1>1, SchedulerInvariant, PTL
-----------------------------------------------------------------------------
(***************************************************************************)
(* No firing is missed.  The last tick won is never older than a Gap, as   *)
(* long as one node stays up; and for a firing whose job is still owed,    *)
(* the ticks won since it came due number no more than the faults of its   *)
(* window, but for one that is under way and has not passed its row.  Time *)
(* leaves the window only when nothing is owed in it, so that the count of *)
(* faults may start again.                                                 *)
(***************************************************************************)
\* The loop of m is on time: it sleeps two intervals past the last tick won at the
\* most, and wakes up at most MaxLate later.  So does every loop that is up.
Punctual(m) ==
  /\ \A n \in Node : loop[n] # "down" => now <= wakeAt[n] + MaxLate
  /\ loop[m] # "down"
  /\ IF cron_on = NULL THEN loop[m] = "idle" /\ wakeAt[m] = 0
     ELSE /\ cron_on <= now
          /\ loop[m] = "idle" => wakeAt[m] <= cron_on + 2 * TickInterval
          /\ loop[m] # "idle" => wakeAt[m] <= cron_on

\* There is a send-it job for the firing f of s, or a stray one took its slot.
Caught(s, f) ==
  \E j \in DOMAIN job : /\ j[1] = s
                        /\ \/ job[j].firing = f
                           \/ job[j].stray /\ j[2] = f

Owed(s, f) ==
  /\ s \in schedule /\ \A b \in Broken : s < b
  /\ f \in FiresAt[s] /\ since[s] <= f
  /\ ~Caught(s, f)

\* The tick of n has not come to s yet, or is sending the firing f of s.
ToCome(n, s, f) ==
  \/ loop[n] = "won"
  \/ /\ loop[n] = "sending"
     /\ s \in rows[n] \/ (due[n].schedule = s /\ due[n].firing = f)

\* When the last tick was won at the latest, i gaps after f came due for every clock.
LastTick(Behind, f, i) == f + Behind + i * Gap

InHand(Behind) ==
  \A s \in Schedule : \A f \in FiresAt[s] : Owed(s, f) =>
    /\ now < f + Window
    /\ \/ cron_on = NULL
       \/ cron_on <= LastTick(Behind, f, hits)
       \/ /\ cron_on <= LastTick(Behind, f, hits + 1)
          /\ \E n \in Node : ToCome(n, s, f) /\ wakeAt[n] = cron_on

CatchInv(m, Behind) == SchedulerInv /\ Punctual(m) /\ InHand(Behind)

-----------------------------------------------------------------------------
\* The bound on the last tick grows by one gap with each fault.
LEMMA LastTickGrows ==
  ASSUME NEW Behind \in Nat, NEW f \in Nat, NEW i \in Nat, NEW k \in Nat, i <= k
  PROVE  /\ LastTick(Behind, f, i) \in Nat
         /\ f + Behind <= LastTick(Behind, f, i)
         /\ LastTick(Behind, f, i) <= LastTick(Behind, f, k)
         /\ LastTick(Behind, f, i + 1) = LastTick(Behind, f, i) + Gap
<1>1. Gap \in Nat
  BY SchedulerAssumption DEF Gap
<1>2. \A g \in Nat : i * g \in Nat /\ i * g <= k * g /\ (i + 1) * g = i * g + g
  <2> SUFFICES ASSUME NEW g \in Nat
               PROVE  i * g \in Nat /\ i * g <= k * g /\ (i + 1) * g = i * g + g
    OBVIOUS
  <2>1. i * g \in Nat /\ (k - i) * g \in Nat /\ k * g \in Nat
    OBVIOUS
  <2>2. k * g = i * g + (k - i) * g /\ (i + 1) * g = i * g + g
    OBVIOUS
  <2> QED BY <2>1, <2>2
<1> DEFINE x == i * Gap
           y == k * Gap
           z == (i + 1) * Gap
<1>3. x \in Nat /\ y \in Nat /\ x <= y /\ z = x + Gap
  <2>1. k * Gap \in Nat
    BY <1>1
  <2> QED BY <1>1, <1>2, <2>1
<1> HIDE DEF x, y, z
<1>4. /\ LastTick(Behind, f, i) = f + Behind + x
      /\ LastTick(Behind, f, k) = f + Behind + y
      /\ LastTick(Behind, f, i + 1) = f + Behind + z
  BY DEF LastTick, x, y, z
<1> QED
  BY <1>1, <1>3, <1>4

LEMMA LastTickNext ==
  ASSUME NEW Behind \in Nat, NEW f \in Nat, NEW i \in Nat
  PROVE  /\ LastTick(Behind, f, i) \in Nat
         /\ f + Behind <= LastTick(Behind, f, i)
         /\ Gap \in Nat /\ LastTick(Behind, f, i + 1) = LastTick(Behind, f, i) + Gap
<1>1. \A k \in Nat : i <= k =>
        /\ LastTick(Behind, f, i) \in Nat
        /\ f + Behind <= LastTick(Behind, f, i)
        /\ LastTick(Behind, f, i + 1) = LastTick(Behind, f, i) + Gap
  BY LastTickGrows
<1>2. Gap \in Nat
  BY SchedulerAssumption DEF Gap
<1> QED
  BY <1>1, <1>2

\* The last tick after any number of faults is won, and over, within the window.
LEMMA LastTickInWindow ==
  ASSUME NEW m, NEW Behind, NEW Ahead, WellTimed(m, Behind, Ahead),
         NEW f \in Nat, NEW i \in Nat, i <= FaultsPerWindow
  PROVE  LastTick(Behind, f, i + 1) + MaxLate + Ahead < f + Window
<1>1. /\ Behind \in Nat /\ Ahead \in Nat /\ FaultsPerWindow \in Nat /\ MaxLate \in Nat
      /\ Window \in Nat /\ Gap \in Nat
  BY SchedulerAssumption DEF WellTimed, Gap
<1> DEFINE gaps == (FaultsPerWindow + 1) * Gap
           last == LastTick(Behind, f, i + 1)
           end == LastTick(Behind, f, FaultsPerWindow + 1)
<1>2. last \in Nat /\ last <= end
  <2>1. i + 1 \in Nat /\ FaultsPerWindow + 1 \in Nat /\ i + 1 <= FaultsPerWindow + 1
    BY <1>1
  <2> QED BY <1>1, <2>1, LastTickGrows
<1>3. gaps \in Nat
  BY <1>1
<1>4. Behind + gaps + MaxLate + Ahead < Window
  BY DEF WellTimed
<1>5. end = f + Behind + gaps
  BY DEF LastTick
<1> HIDE DEF gaps, last, end
<1>6. last + MaxLate + Ahead < f + Window
  BY <1>1, <1>2, <1>3, <1>4, <1>5
<1> QED
  BY <1>6 DEF last

\* A firing less than a window ago is the one _should_send finds.
LEMMA FiringFound ==
  ASSUME NEW s \in Schedule, NEW f \in FiresAt[s], NEW t \in Int, f < t, t - f < Window
  PROVE  ShouldSend(s, t) /\ Previous(s, t) = f
<1> DEFINE past == {g \in FiresAt[s] : g < t}
           p == Max(past)
<1>1. past \in SUBSET Nat /\ f \in past /\ \A g \in past : g <= t
  BY SchedulerAssumption
<1>2. p \in past /\ p >= f
  <2> HIDE DEF past
  <2> QED BY <1>1, MaxIn
<1>3. p \in Nat /\ p < t /\ p % Window = 0 /\ f \in Nat /\ f % Window = 0
  BY <1>1, <1>2, SchedulerAssumption
<1>4. Previous(s, t) = p
  BY <1>1 DEF Previous
<1> HIDE DEF p
<1>5. Window * (t \div Window) = p
  <2>1. t - p < Window
    BY <1>2, <1>3, SchedulerAssumption
  <2> QED BY <1>3, <2>1, SlotOfFiring, SchedulerAssumption
<1>6. Window * (t \div Window) = f
  BY <1>3, SlotOfFiring, SchedulerAssumption
<1>7. f # NULL
  BY <1>3, SchedulerAssumption
<1> QED
  BY <1>4, <1>5, <1>6, <1>7 DEF ShouldSend

\* A row counts from no earlier than its insertion.
LEMMA WholeWindowLater ==
  ASSUME NEW t \in Nat
  PROVE  Slot(t + Window - 1) >= t
<1> DEFINE u == t + Window - 1
           q == u \div Window
<1>1. u \in Int /\ Window \in Nat \ {0}
  BY SchedulerAssumption
<1>2. q \in Int /\ u = Window * q + (u % Window) /\ u % Window <= Window - 1
  <2> HIDE DEF u
  <2> QED BY <1>1
<1> DEFINE r == Window * q
<1>3. r \in Int
  BY <1>1, <1>2
<1>4. Slot(u) = r
  BY DEF Slot
<1> HIDE DEF r, q
<1> QED
  BY <1>1, <1>2, <1>3, <1>4 DEF u, r

\* A send-it job stays, for its firing and in its slot.
LEMMA SendItJobsStay ==
  ASSUME JobInv, Next
  PROVE  \A j \in DOMAIN job : /\ j \in DOMAIN job'
                               /\ job'[j].firing = job[j].firing
                               /\ job'[j].stray = job[j].stray
<1>1. ASSUME NEW n \in Node, Enqueue(n)
      PROVE  \A j \in DOMAIN job : j \in DOMAIN job' /\ job'[j] = job[j]
  BY <1>1 DEF Enqueue
<1>2. ASSUME NEW n \in Node, Relaying(n)
      PROVE  \A j \in DOMAIN job : /\ j \in DOMAIN job'
                                   /\ job'[j].firing = job[j].firing
                                   /\ job'[j].stray = job[j].stray
  <2>1. CASE ClaimSendIt(n)
    <3>1. PICK B \in SUBSET Waiting :
            job' = [j \in DOMAIN job |->
                      IF j \in B THEN [job[j] EXCEPT !.state = "active", !.tries = @ + 1]
                      ELSE job[j]]
      BY <2>1 DEF ClaimSendIt
    <3> SUFFICES ASSUME NEW j \in DOMAIN job
                 PROVE  /\ j \in DOMAIN job' /\ job'[j].firing = job[j].firing
                        /\ job'[j].stray = job[j].stray
      OBVIOUS
    <3>2. job[j] \in SendItJob
      BY DEF JobInv
    <3>3. /\ j \in DOMAIN job'
          /\ job'[j] = IF j \in B THEN [job[j] EXCEPT !.state = "active", !.tries = @ + 1]
                       ELSE job[j]
      BY <3>1
    <3>4. CASE j \in B
      BY <3>2, <3>3, <3>4, ClaimedJob
    <3>5. CASE j \notin B
      BY <3>3, <3>5
    <3> QED
      BY <3>4, <3>5
  <2>2. CASE Relay(n)
    BY <2>2 DEF Relay, JobInv, SendItJob
  <2>3. CASE CompleteSendIt(n) \/ DropBatch(n)
    BY <2>3 DEF CompleteSendIt, Settle, DropBatch, JobInv, SendItJob
  <2> QED
    BY <1>2, <2>1, <2>2, <2>3 DEF Relaying
<1>3. CASE Recover
  BY <1>3 DEF Recover, Abandoned, JobInv, SendItJob
<1>4. CASE \/ \E s \in Schedule : Upsert(s) \/ Unschedule(s)
           \/ \E n \in Node : Start(n) \/ Tick(n) \/ FetchSchedules(n) \/ TickFails(n) \/ Crash(n)
           \/ Advance
  BY <1>4 DEF Upsert, Unschedule, Start, Tick, FetchSchedules, TickFails, Crash, Advance
<1> QED
  BY <1>1, <1>2, <1>3, <1>4 DEF Next, Ticking

LEMMA CaughtStays ==
  ASSUME JobInv, Next, NEW s, NEW f, Caught(s, f)
  PROVE  Caught(s, f)'
BY SendItJobsStay DEF Caught

\* What a step of a tick does to its loop.
LEMMA ProceedLoop ==
  ASSUME NEW n \in Node, NEW todoRows, Proceed(n, todoRows)
  PROVE  \/ Rest(n)
         \/ loop' = [loop EXCEPT ![n] = "sending"] /\ UNCHANGED wakeAt
BY DEF Proceed

LEMMA PunctualStep ==
  ASSUME NEW m, NEW Behind, NEW Ahead, WellTimed(m, Behind, Ahead),
         LoopInv, Punctual(m), [Next]_vars
  PROVE  Punctual(m)'
<1> USE DEF LoopInv, Punctual
<1>1. /\ m \in Node /\ m \notin MayCrash /\ MaxLate <= TickInterval
      /\ MaxLate \in Nat /\ TickInterval \in Nat
  BY SchedulerAssumption DEF WellTimed
<1>2. ASSUME NEW n \in Node, Rest(n), UNCHANGED <<now, cron_on>>,
             loop[n] # "idle" \/ (cron_on # NULL /\ now <= cron_on + TickInterval),
             loop[n] # "down"
      PROVE  Punctual(m)'
  <2>1. /\ loop'[n] = "idle" /\ wakeAt'[n] = now + TickInterval
        /\ \A k \in Node : k # n => loop'[k] = loop[k] /\ wakeAt'[k] = wakeAt[k]
    BY <1>2 DEF Rest
  <2>2. CASE n = m
    <3>1. cron_on # NULL /\ cron_on \in Nat /\ now <= cron_on + TickInterval
      BY <1>1, <1>2, <2>2
    <3> QED
      BY <1>1, <1>2, <2>1, <2>2, <3>1
  <2>3. CASE n # m
    BY <1>1, <1>2, <2>1, <2>3
  <2> QED
    BY <2>2, <2>3
<1>3. ASSUME NEW n \in Node, Tick(n) PROVE Punctual(m)'
  <2>1. CASE TickOpen
    <3>1. /\ cron_on' = now /\ now' = now
          /\ loop' = [loop EXCEPT ![n] = "won"] /\ wakeAt' = [wakeAt EXCEPT ![n] = now]
      BY <1>3, <2>1 DEF Tick
    <3>2. now # NULL /\ cron_on' # NULL
      BY <3>1, SchedulerAssumption
    <3>3. n # m /\ loop[m] = "idle" => wakeAt[m] <= now + 2 * TickInterval
      BY <1>1
    <3>4. n # m /\ loop[m] # "idle" => wakeAt[m] <= now
      BY <1>1
    <3> QED
      BY <1>1, <3>1, <3>2, <3>3, <3>4
  <2>2. CASE ~TickOpen
    <3>1. cron_on \in Nat /\ now <= cron_on + TickInterval
      BY <1>1, <2>2 DEF TickOpen
    <3>2. cron_on # NULL
      BY <3>1, SchedulerAssumption
    <3> QED
      BY <1>2, <1>3, <2>2, <3>1, <3>2 DEF Tick
  <2> QED
    BY <2>1, <2>2
<1>4. ASSUME NEW n \in Node, FetchSchedules(n) \/ Enqueue(n) PROVE Punctual(m)'
  <2>1. /\ loop[n] \in {"won", "sending"} /\ UNCHANGED <<now, cron_on>>
        /\ \E todoRows : Proceed(n, todoRows)
    BY <1>4 DEF FetchSchedules, Enqueue
  <2>2. CASE Rest(n)
    BY <1>2, <2>1, <2>2
  <2>3. CASE loop' = [loop EXCEPT ![n] = "sending"] /\ UNCHANGED wakeAt
    <3>1. cron_on = NULL => n # m
      BY <1>1, <2>1
    <3> QED
      BY <1>1, <2>1, <2>3, <3>1
  <2> QED
    BY <2>1, <2>2, <2>3, ProceedLoop
<1>5. ASSUME NEW n \in Node, TickFails(n) PROVE Punctual(m)'
  BY <1>1, <1>2, <1>5 DEF TickFails
<1>6. ASSUME NEW n \in Node, Start(n) \/ Crash(n) PROVE Punctual(m)'
  <2>1. /\ n # m /\ UNCHANGED <<now, cron_on>>
        /\ loop'[n] = "down" \/ (loop'[n] = "idle" /\ wakeAt'[n] = now)
        /\ \A k \in Node : k # n => loop'[k] = loop[k] /\ wakeAt'[k] = wakeAt[k]
    BY <1>1, <1>6 DEF Start, Crash
  <2> QED
    BY <1>1, <2>1
<1>7. CASE Advance
  <2>1. /\ now' = now + 1 /\ UNCHANGED <<cron_on, loop, wakeAt>>
        /\ \A n \in Node : loop[n] # "down" => now < wakeAt[n] + MaxLate
    BY <1>7 DEF Advance, loopVars
  <2> QED
    BY <1>1, <2>1
<1>8. CASE \/ \E s \in Schedule : Upsert(s) \/ Unschedule(s)
           \/ \E n \in Node : Relaying(n)
           \/ Recover \/ UNCHANGED vars
  <2>1. UNCHANGED <<now, cron_on, loop, wakeAt>>
    BY <1>8 DEF Upsert, Unschedule, Relaying, ClaimSendIt, Relay, CompleteSendIt,
                Settle, DropBatch, Recover, vars, loopVars
  <2> QED
    BY <2>1
<1> QED
  BY <1>3, <1>4, <1>5, <1>6, <1>7, <1>8 DEF Next, Ticking

\* While m is up, the last tick won is never older than a gap.
LEMMA TicksComeInTime ==
  ASSUME NEW m, NEW Behind, NEW Ahead, WellTimed(m, Behind, Ahead), LoopInv, Punctual(m)
  PROVE  IF cron_on = NULL THEN now <= MaxLate ELSE now <= cron_on + Gap
<1>1. /\ m \in Node /\ MaxLate <= TickInterval
      /\ MaxLate \in Nat /\ TickInterval \in Nat
  BY SchedulerAssumption DEF WellTimed
<1>2. now \in Nat /\ wakeAt[m] \in Nat /\ now <= wakeAt[m] + MaxLate
  BY <1>1 DEF LoopInv, Punctual
<1>3. CASE cron_on = NULL
  BY <1>1, <1>2, <1>3 DEF Punctual
<1>4. CASE cron_on # NULL
  <2>1. cron_on \in Nat /\ wakeAt[m] <= cron_on + 2 * TickInterval
    BY <1>1, <1>2, <1>4 DEF LoopInv, Punctual
  <2> QED
    BY <1>1, <1>2, <1>4, <2>1 DEF Gap
<1> QED
  BY <1>3, <1>4

-----------------------------------------------------------------------------
\* A firing still owed was owed before the step, unless its row has been inserted
\* just now, before the firing.
LEMMA OwedBefore ==
  ASSUME LoopInv, JobInv, Next, NEW s \in Schedule, NEW f \in FiresAt[s], Owed(s, f)'
  PROVE  Owed(s, f) \/ (now <= f /\ UNCHANGED <<cron_on, hits>>)
<1>1. ~Caught(s, f)
  BY CaughtStays DEF Owed
<1>2. s \in schedule' /\ since'[s] <= f /\ \A b \in Broken : s < b
  BY DEF Owed
<1>3. CASE \E r \in Schedule : Upsert(r)
  <2>1. PICK r \in Schedule : Upsert(r)
    BY <1>3
  <2>2. CASE r = s
    <3>1. since'[s] = Slot(now + Window - 1) /\ UNCHANGED <<cron_on, hits>>
      BY <2>1, <2>2 DEF Upsert, LoopInv
    <3>2. Slot(now + Window - 1) >= now /\ Slot(now + Window - 1) \in Int /\ now \in Nat
      BY WholeWindowLater, SlotInt, SchedulerAssumption DEF LoopInv
    <3>3. f \in Nat
      BY SchedulerAssumption
    <3> QED
      BY <1>2, <3>1, <3>2, <3>3
  <2>3. CASE r # s
    BY <1>1, <1>2, <2>1, <2>3 DEF Upsert, LoopInv, Owed
  <2> QED
    BY <2>2, <2>3
<1>4. CASE \E r \in Schedule : Unschedule(r)
  <2>1. PICK r \in Schedule : Unschedule(r)
    BY <1>4
  <2>2. r # s /\ s \in schedule /\ since'[s] = since[s]
    BY <1>2, <2>1 DEF Unschedule, LoopInv
  <2> QED
    BY <1>1, <1>2, <2>2 DEF Owed
<1>5. CASE \/ \E n \in Node : Start(n) \/ Ticking(n) \/ Relaying(n) \/ Crash(n)
           \/ Recover \/ Advance
  <2>1. UNCHANGED <<schedule, since>>
    BY <1>5 DEF Start, Ticking, Tick, FetchSchedules, Enqueue, TickFails, Relaying,
                ClaimSendIt, Relay, CompleteSendIt, Settle, DropBatch, Crash, Recover, Advance
  <2> QED
    BY <1>1, <1>2, <2>1 DEF Owed
<1> QED
  BY <1>3, <1>4, <1>5 DEF Next

\* A tick that has s before it, while f is less than a window old on its clock and
\* no row up to s raises, sends f or keeps s before it.
LEMMA ProceedReaches ==
  ASSUME LoopInv, NEW n \in Node, NEW todoRows \in SUBSET Schedule, Proceed(n, todoRows),
         NEW s \in todoRows, \A b \in Broken : s < b,
         NEW f \in FiresAt[s], f < Clock(n), Clock(n) - f < Window
  PROVE  ToCome(n, s, f)' /\ UNCHANGED wakeAt
<1> DEFINE Reached == {r \in todoRows : \A b \in todoRows \cap Broken : r < b}
           found == {r \in Reached : ShouldSend(r, Clock(n))}
           next == Min(found)
           d == [schedule |-> next, firing |-> Previous(next, Clock(n)), clock |-> Clock(n)]
<1>1. s \in Schedule /\ ShouldSend(s, Clock(n)) /\ Previous(s, Clock(n)) = f
  BY ClockInt, FiringFound
<1>2. s \in found /\ found \in SUBSET Nat /\ found # {}
  BY <1>1, SchedulerAssumption
<1>3. next \in Nat /\ next <= s
  <2> HIDE DEF found
  <2> QED BY <1>2, MinIn
<1>4. /\ loop' = [loop EXCEPT ![n] = "sending"]
      /\ rows' = [rows EXCEPT ![n] = {r \in todoRows : next < r}]
      /\ due' = [due EXCEPT ![n] = d] /\ wakeAt' = wakeAt
  BY <1>2 DEF Proceed
<1> HIDE DEF next
<1>5. /\ loop'[n] = "sending" /\ rows'[n] = {r \in todoRows : next < r}
      /\ due'[n].schedule = next /\ due'[n].firing = Previous(next, Clock(n))
  BY <1>4 DEF LoopInv
<1>6. s \in Nat
  BY SchedulerAssumption
<1>7. CASE next = s
  BY <1>1, <1>4, <1>5, <1>7 DEF ToCome
<1>8. CASE next < s
  BY <1>4, <1>5, <1>8 DEF ToCome
<1> QED
  BY <1>3, <1>6, <1>7, <1>8

\* A step of one loop leaves the ticks of the others where they are.
LEMMA OtherTicksStay ==
  ASSUME NEW n \in Node, Start(n) \/ Tick(n) \/ FetchSchedules(n) \/ Enqueue(n),
         LoopInv, NEW k \in Node, k # n, NEW s, NEW f, ToCome(k, s, f)
  PROVE  ToCome(k, s, f)' /\ wakeAt'[k] = wakeAt[k]
<1>1. /\ loop'[k] = loop[k] /\ wakeAt'[k] = wakeAt[k]
      /\ rows'[k] = rows[k] /\ due'[k] = due[k]
  BY DEF Start, Tick, FetchSchedules, Enqueue, Proceed, Rest, LoopInv
<1> QED
  BY <1>1 DEF ToCome

\* The tick under way for f reads a clock on which f is less than a window old, and
\* sends at a time in the slot of f.
LEMMA ClocksWithinWindow ==
  ASSUME NEW m, NEW Behind, NEW Ahead, WellTimed(m, Behind, Ahead),
         LoopInv, Punctual(m), HitsInv, NEW n \in Node, NEW f \in Nat,
         loop[n] # "down", wakeAt[n] = cron_on, cron_on # NULL,
         ~(cron_on <= LastTick(Behind, f, hits)), cron_on <= LastTick(Behind, f, hits + 1)
  PROVE  /\ f < Clock(n) /\ Clock(n) - f < Window
         /\ f < now /\ now - f < Window
<1>1. /\ Behind \in Nat /\ Ahead \in Nat /\ FaultsPerWindow \in Nat /\ MaxLate \in Nat
      /\ Window \in Nat /\ Skew[n] \in Int /\ -Behind <= Skew[n] /\ Skew[n] <= Ahead
      /\ m \in Node
  BY SchedulerAssumption DEF WellTimed
<1>2. /\ cron_on \in Nat /\ now \in Nat /\ hits \in Nat /\ hits + 1 <= FaultsPerWindow + 1
      /\ cron_on <= now /\ now <= cron_on + MaxLate
  BY <1>1 DEF LoopInv, Punctual, HitsInv
<1> DEFINE low == LastTick(Behind, f, hits)
           high == LastTick(Behind, f, hits + 1)
<1>3. low \in Nat /\ f + Behind <= low /\ high \in Nat
  BY <1>1, <1>2, LastTickNext
<1>4. high + MaxLate + Ahead < f + Window
  BY <1>1, <1>2, LastTickInWindow
<1> HIDE DEF low, high
<1>5. low < cron_on /\ cron_on <= high
  BY <1>2, <1>3 DEF low, high
<1>6. f + Behind < now /\ now + Ahead < f + Window
  BY <1>1, <1>2, <1>3, <1>4, <1>5
<1> QED
  BY <1>1, <1>2, <1>6 DEF Clock

\* While f is owed, the send of a tick that comes to it does not go unnoticed: it
\* puts the job in, or finds the slot of f taken.
LEMMA EnqueueCatches ==
  ASSUME LoopInv, JobInv, NEW n \in Node, Enqueue(n), NEW s \in Schedule, NEW f \in FiresAt[s],
         due[n].schedule = s, due[n].firing = f, f < now, now - f < Window
  PROVE  Caught(s, f)'
<1> DEFINE id == <<s, f>>
<1>1. Slot(now) = f
  <2>1. /\ Window \in Nat \ {0} /\ f \in Nat /\ f % Window = 0 /\ now \in Int
    BY SchedulerAssumption DEF LoopInv
  <2> QED
    BY <2>1, SlotOfFiring DEF Slot
<1>2. CASE id \in DOMAIN job
  <2>1. job' = job
    BY <1>1, <1>2 DEF Enqueue
  <2>2. job[id].firing = f \/ job[id].stray
    BY <1>2 DEF JobInv, InSlot, SendItJob
  <2> QED
    BY <1>2, <2>1, <2>2 DEF Caught
<1>3. CASE id \notin DOMAIN job
  <2>1. id \in DOMAIN job' /\ job'[id].firing = f
    BY <1>1, <1>3 DEF Enqueue
  <2> QED
    BY <2>1 DEF Caught
<1> QED
  BY <1>2, <1>3

\* A step that a tick under way makes while f is owed: f is still before it.
LEMMA TickKeepsFiring ==
  ASSUME NEW m, NEW Behind, NEW Ahead, WellTimed(m, Behind, Ahead),
         LoopInv, JobInv, Punctual(m), HitsInv, NEW n \in Node,
         FetchSchedules(n) \/ Enqueue(n),
         NEW s \in Schedule, NEW f \in FiresAt[s], Owed(s, f), Owed(s, f)',
         ToCome(n, s, f), wakeAt[n] = cron_on, cron_on # NULL,
         ~(cron_on <= LastTick(Behind, f, hits)), cron_on <= LastTick(Behind, f, hits + 1)
  PROVE  ToCome(n, s, f)' /\ UNCHANGED wakeAt
<1>1. f \in Nat
  BY SchedulerAssumption
<1>2. loop[n] # "down"
  BY DEF ToCome
<1>3. /\ f < Clock(n) /\ Clock(n) - f < Window
      /\ f < now /\ now - f < Window
  BY <1>1, <1>2, ClocksWithinWindow
<1>4. s \in schedule /\ \A b \in Broken : s < b
  BY DEF Owed
<1>5. CASE FetchSchedules(n)
  <2>1. Proceed(n, schedule) /\ schedule \in SUBSET Schedule
    BY <1>5 DEF FetchSchedules, LoopInv
  <2> QED
    BY <1>3, <1>4, <2>1, ProceedReaches
<1>6. CASE Enqueue(n)
  <2>1. Proceed(n, rows[n]) /\ rows[n] \in SUBSET Schedule /\ loop[n] = "sending"
    BY <1>6 DEF Enqueue, LoopInv
  <2>2. s \in rows[n]
    <3>1. ~Caught(s, f)'
      BY DEF Owed
    <3> QED
      BY <1>3, <1>6, <2>1, <3>1, EnqueueCatches DEF ToCome
  <2> QED
    BY <1>3, <1>4, <2>1, <2>2, ProceedReaches
<1> QED
  BY <1>5, <1>6

\* A tick that is won opens a new gap: the ticks won before it, since f came due,
\* are each owed to a fault.
LEMMA WonTickInHand ==
  ASSUME NEW m, NEW Behind, NEW Ahead, WellTimed(m, Behind, Ahead),
         LoopInv, Punctual(m), HitsInv, InHand(Behind), NEW n \in Node, Tick(n), TickOpen,
         NEW s \in Schedule, NEW f \in FiresAt[s], Owed(s, f)
  PROVE  /\ cron_on' <= LastTick(Behind, f, hits' + 1)
         /\ ToCome(n, s, f)' /\ wakeAt'[n] = cron_on'
<1>1. /\ cron_on' = now /\ loop'[n] = "won" /\ wakeAt'[n] = now /\ hits' = hits
  BY DEF Tick, LoopInv
<1>2. /\ Behind \in Nat /\ f \in Nat /\ hits \in Nat /\ now \in Nat
      /\ MaxLate \in Nat /\ TickInterval \in Nat /\ MaxLate <= TickInterval
  BY SchedulerAssumption DEF WellTimed, HitsInv, LoopInv
<1> DEFINE low == LastTick(Behind, f, hits)
           high == LastTick(Behind, f, hits + 1)
<1>3. low \in Nat /\ high = low + Gap
  BY <1>2, LastTickNext
<1> HIDE DEF low, high
<1>4. now <= high
  <2>1. CASE cron_on = NULL
    <3>1. now <= MaxLate
      BY <2>1, TicksComeInTime
    <3> QED
      BY <1>2, <1>3, <3>1 DEF Gap
  <2>2. CASE cron_on # NULL /\ cron_on <= low
    <3>1. now <= cron_on + Gap /\ cron_on \in Nat /\ Gap \in Nat
      BY <1>2, <2>2, TicksComeInTime DEF LoopInv, Gap
    <3> QED
      BY <1>2, <1>3, <2>2, <3>1
  <2>3. CASE cron_on # NULL /\ ~(cron_on <= low)
    <3>1. PICK k \in Node : ToCome(k, s, f) /\ wakeAt[k] = cron_on
      BY <2>3 DEF InHand, low
    <3>2. now <= cron_on + MaxLate /\ cron_on \in Nat
      BY <2>3, <3>1 DEF ToCome, Punctual, LoopInv
    <3>3. now - cron_on > TickInterval
      BY <2>3 DEF TickOpen
    <3> QED
      BY <1>2, <3>2, <3>3
  <2> QED
    BY <2>1, <2>2, <2>3
<1> QED
  BY <1>1, <1>4 DEF ToCome, high

\* Time does not pass the window of a firing that is owed: the last tick won for it
\* is one gap old at the most.
LEMMA AdvanceInHand ==
  ASSUME NEW m, NEW Behind, NEW Ahead, WellTimed(m, Behind, Ahead),
         LoopInv, Punctual(m), HitsInv, InHand(Behind), Advance,
         NEW s \in Schedule, NEW f \in FiresAt[s], Owed(s, f)
  PROVE  now' < f + Window
<1>1. /\ m \in Node /\ Behind \in Nat /\ Ahead \in Nat /\ MaxLate \in Nat
      /\ TickInterval \in Nat /\ MaxLate <= TickInterval /\ Gap = 2 * TickInterval + MaxLate
      /\ f \in Nat /\ Window \in Nat /\ hits \in Nat /\ hits <= FaultsPerWindow
  BY SchedulerAssumption DEF WellTimed, HitsInv, Gap
<1>2. /\ now' = now + 1 /\ now \in Nat /\ wakeAt \in [Node -> Nat]
      /\ \A n \in Node : loop[n] # "down" => now < wakeAt[n] + MaxLate
  BY DEF Advance, LoopInv
<1>3. now < wakeAt[m] + MaxLate
  BY <1>1, <1>2 DEF Punctual
<1> DEFINE low == LastTick(Behind, f, hits)
           high == LastTick(Behind, f, hits + 1)
<1>4. low \in Nat /\ f + Behind <= low /\ high = low + Gap
  BY <1>1, LastTickNext
<1>5. high + MaxLate + Ahead < f + Window
  BY <1>1, LastTickInWindow
<1>6. \/ cron_on = NULL
      \/ cron_on # NULL /\ cron_on <= low
      \/ /\ cron_on <= high
         /\ \E n \in Node : ToCome(n, s, f) /\ wakeAt[n] = cron_on
  BY DEF InHand
<1> HIDE DEF low, high
<1>7. CASE cron_on = NULL
  <2>1. wakeAt[m] = 0
    BY <1>7 DEF Punctual
  <2> QED
    BY <1>1, <1>2, <1>3, <1>4, <1>5, <2>1
<1>8. CASE cron_on # NULL /\ cron_on <= low
  <2>1. cron_on \in Nat /\ wakeAt[m] <= cron_on + 2 * TickInterval
    BY <1>1, <1>2, <1>8 DEF Punctual, LoopInv
  <2> QED
    BY <1>1, <1>2, <1>3, <1>4, <1>5, <1>8, <2>1
<1>9. CASE /\ cron_on <= high
           /\ \E n \in Node : ToCome(n, s, f) /\ wakeAt[n] = cron_on
  <2>1. PICK n \in Node : ToCome(n, s, f) /\ wakeAt[n] = cron_on
    BY <1>9
  <2>2. now < cron_on + MaxLate /\ cron_on \in Nat
    BY <1>2, <2>1 DEF ToCome
  <2> QED
    BY <1>1, <1>2, <1>4, <1>5, <1>9, <2>2
<1> QED
  BY <1>6, <1>7, <1>8, <1>9

\* A window that begins has no faults yet, and no tick for its firing.
LEMMA WindowBegins ==
  ASSUME LoopInv, HitsInv, Advance, NEW f \in Nat, f % Window = 0, now' < f + Window
  PROVE  hits' = hits \/ (hits' = 0 /\ now < f)
<1>1. now' = now + 1 /\ now \in Nat /\ hits' = IF now' % Window = 0 THEN 0 ELSE hits
  BY DEF Advance, LoopInv
<1>2. CASE now' % Window = 0
  <2>1. Window \in Nat \ {0} /\ now' \in Nat
    BY <1>1, SchedulerAssumption
  <2>2. now' <= f
    BY <1>2, <2>1, WindowsApart
  <2> QED
    BY <1>1, <1>2, <2>2
<1> QED
  BY <1>1, <1>2

LEMMA InHandStep ==
  ASSUME NEW m, NEW Behind, NEW Ahead, WellTimed(m, Behind, Ahead),
         LoopInv, JobInv, Punctual(m), HitsInv, InHand(Behind), [Next]_vars
  PROVE  InHand(Behind)'
<1>1. CASE UNCHANGED vars
  BY <1>1 DEF InHand, Owed, Caught, ToCome, vars, loopVars
<1>2. CASE Advance
  <2> SUFFICES ASSUME NEW s \in Schedule, NEW f \in FiresAt[s], Owed(s, f)'
               PROVE  /\ now' < f + Window
                      /\ \/ cron_on' = NULL
                         \/ cron_on' <= LastTick(Behind, f, hits')
                         \/ /\ cron_on' <= LastTick(Behind, f, hits' + 1)
                            /\ \E n \in Node : ToCome(n, s, f)' /\ wakeAt'[n] = cron_on'
    BY DEF InHand, LastTick
  <2>1. /\ UNCHANGED <<cron_on, loop, wakeAt, rows, due, job, schedule, since>>
        /\ Owed(s, f)
    BY <1>2 DEF Advance, loopVars, Owed, Caught
  <2>2. now' < f + Window
    BY <1>2, <2>1, AdvanceInHand
  <2>3. \/ cron_on = NULL
        \/ cron_on <= LastTick(Behind, f, hits)
        \/ /\ cron_on <= LastTick(Behind, f, hits + 1)
           /\ \E n \in Node : ToCome(n, s, f) /\ wakeAt[n] = cron_on
    BY <2>1 DEF InHand
  <2>4. f \in Nat /\ f % Window = 0 /\ Behind \in Nat /\ now \in Nat
    BY SchedulerAssumption DEF WellTimed, LoopInv
  <2>5. CASE hits' = hits
    BY <2>1, <2>2, <2>3, <2>5 DEF ToCome
  <2>6. CASE hits' = 0 /\ now < f
    <3>1. f + Behind <= LastTick(Behind, f, 0) /\ LastTick(Behind, f, 0) \in Nat
      BY <2>4, LastTickNext
    <3>2. cron_on' = NULL \/ (cron_on' \in Nat /\ cron_on' <= now)
      BY <2>1 DEF LoopInv, Punctual
    <3> QED
      BY <2>2, <2>4, <2>6, <3>1, <3>2
  <2> QED
    BY <1>2, <2>2, <2>4, <2>5, <2>6, WindowBegins
<1>3. CASE Next /\ ~Advance
  <2> SUFFICES ASSUME NEW s \in Schedule, NEW f \in FiresAt[s], Owed(s, f)'
               PROVE  /\ now' < f + Window
                      /\ cron_on' # NULL /\ ~(cron_on' <= LastTick(Behind, f, hits'))
                         => /\ cron_on' <= LastTick(Behind, f, hits' + 1)
                            /\ \E n \in Node : ToCome(n, s, f)' /\ wakeAt'[n] = cron_on'
    BY DEF InHand, LastTick
  <2>1. /\ Behind \in Nat /\ f \in Nat /\ hits \in Nat /\ now \in Nat /\ Window \in Nat \ {0}
        /\ cron_on \in Nat \cup {NULL} /\ (cron_on # NULL => cron_on <= now)
    BY SchedulerAssumption DEF WellTimed, Punctual, HitsInv, LoopInv
  <2>2. now' = now
    BY <1>3 DEF Next, Upsert, Unschedule, Start, Ticking, Tick, FetchSchedules, Enqueue, TickFails,
                Relaying, ClaimSendIt, Relay, CompleteSendIt, Settle, DropBatch, Crash, Recover
  <2>3. now' < f + Window
    <3>1. Owed(s, f) => now < f + Window
      BY DEF InHand
    <3> QED
      BY <1>3, <2>1, <2>2, <3>1, OwedBefore
  <2> SUFFICES ASSUME cron_on' # NULL, ~(cron_on' <= LastTick(Behind, f, hits'))
               PROVE  /\ cron_on' <= LastTick(Behind, f, hits' + 1)
                      /\ \E n \in Node : ToCome(n, s, f)' /\ wakeAt'[n] = cron_on'
    BY <2>3
  <2>4. Owed(s, f)
    <3>1. SUFFICES ASSUME now <= f, UNCHANGED <<cron_on, hits>> PROVE FALSE
      BY <1>3, OwedBefore
    <3>2. f + Behind <= LastTick(Behind, f, hits) /\ LastTick(Behind, f, hits) \in Nat
      BY <2>1, LastTickNext
    <3> QED
      BY <2>1, <3>1, <3>2
  <2>5. CASE \E n \in Node : Tick(n) /\ TickOpen
    BY <2>4, <2>5, WonTickInHand
  <2>6. CASE cron_on' = cron_on /\ hits' = hits
    <3>1. PICK k \in Node : ToCome(k, s, f) /\ wakeAt[k] = cron_on
      BY <2>4, <2>6 DEF InHand
    <3>2. cron_on <= LastTick(Behind, f, hits + 1)
      BY <2>4, <2>6 DEF InHand
    <3>3. ToCome(k, s, f)' /\ wakeAt'[k] = wakeAt[k]
      <4>1. CASE \E n \in Node : FetchSchedules(n) \/ Enqueue(n)
        <5>1. PICK n \in Node : FetchSchedules(n) \/ Enqueue(n)
          BY <4>1
        <5>2. CASE n = k
          BY <2>4, <2>6, <3>1, <3>2, <5>1, <5>2, TickKeepsFiring
        <5>3. CASE n # k
          BY <3>1, <5>1, <5>3, OtherTicksStay
        <5> QED BY <5>2, <5>3
      <4>2. CASE \E n \in Node : Start(n) \/ Tick(n)
        <5>1. PICK n \in Node : Start(n) \/ Tick(n)
          BY <4>2
        <5>2. n # k
          BY <3>1, <5>1 DEF ToCome, Start, Tick
        <5> QED
          BY <3>1, <5>1, <5>2, OtherTicksStay
      <4>3. CASE \E n \in Node : TickFails(n) \/ Crash(n)
        <5>1. hits' = hits + 1
          BY <4>3 DEF TickFails, Crash, Fault
        <5> QED
          BY <2>1, <2>6, <5>1
      <4>4. CASE \/ \E r \in Schedule : Upsert(r) \/ Unschedule(r)
                 \/ \E n \in Node : Relaying(n)
                 \/ Recover
        <5>1. UNCHANGED <<loop, wakeAt, rows, due>>
          BY <4>4 DEF Upsert, Unschedule, Relaying, ClaimSendIt, Relay, CompleteSendIt,
                      Settle, DropBatch, Recover, loopVars
        <5> QED
          BY <3>1, <5>1 DEF ToCome
      <4> QED
        BY <1>3, <4>1, <4>2, <4>3, <4>4 DEF Next, Ticking
    <3> QED
      BY <2>6, <3>1, <3>2, <3>3
  <2>7. CASE cron_on' = cron_on /\ hits' = hits + 1
    <3>1. cron_on <= LastTick(Behind, f, hits + 1)
      <4>1. \/ cron_on <= LastTick(Behind, f, hits)
            \/ cron_on <= LastTick(Behind, f, hits + 1)
        BY <2>4, <2>7 DEF InHand
      <4>2. /\ LastTick(Behind, f, hits) \in Nat /\ Gap \in Nat
            /\ LastTick(Behind, f, hits + 1) = LastTick(Behind, f, hits) + Gap
        BY <2>1, LastTickNext
      <4>3. LastTick(Behind, f, hits + 1) \in Nat
        BY <4>2
      <4>4. cron_on \in Nat
        BY <2>1, <2>7
      <4> QED
        BY <4>1, <4>2, <4>3, <4>4
    <3> QED
      BY <2>7, <3>1
  <2>8. \/ \E n \in Node : Tick(n) /\ TickOpen
        \/ cron_on' = cron_on /\ (hits' = hits \/ hits' = hits + 1)
    <3>1. ASSUME NEW n \in Node, Tick(n)
          PROVE  TickOpen \/ (cron_on' = cron_on /\ hits' = hits)
      BY <3>1 DEF Tick
    <3>2. ASSUME NEW n \in Node, Start(n) \/ FetchSchedules(n) \/ Enqueue(n) \/ TickFails(n)
                                 \/ Crash(n)
          PROVE  cron_on' = cron_on /\ (hits' = hits \/ hits' = hits + 1)
      BY <3>2 DEF Start, FetchSchedules, Enqueue, TickFails, Crash, Fault
    <3>3. ASSUME NEW n \in Node, Relaying(n)
          PROVE  cron_on' = cron_on /\ (hits' = hits \/ hits' = hits + 1)
      BY <3>3 DEF Relaying, ClaimSendIt, Relay, CompleteSendIt, Settle, DropBatch, Fault
    <3>4. CASE (\E r \in Schedule : Upsert(r) \/ Unschedule(r)) \/ Recover
      BY <3>4 DEF Upsert, Unschedule, Recover
    <3> QED
      BY <1>3, <3>1, <3>2, <3>3, <3>4 DEF Next, Ticking
  <2> QED
    BY <2>5, <2>6, <2>7, <2>8
<1> QED
  BY <1>1, <1>2, <1>3

\* No firing is missed: once its window is over there is a send-it job for it, or a
\* stray one took its slot, whatever nodes die and however often in the long run,
\* provided that the window is as wide as WellTimed asks: more than twice the
\* interval for each fault of one window and once more.  The default interval, as
\* long as the window, is not of those: firings are missed then without any fault.
THEOREM FiringsCaught ==
  ASSUME NEW m, NEW Behind, NEW Ahead, WellTimed(m, Behind, Ahead)
  PROVE  Spec => []NoFiringMissed
<1>1. Init => CatchInv(m, Behind)
  <2> SUFFICES ASSUME Init PROVE CatchInv(m, Behind)
    OBVIOUS
  <2>1. Punctual(m)
    BY SchedulerAssumption DEF Init, Punctual, WellTimed
  <2>2. InHand(Behind)
    BY SchedulerAssumption DEF Init, InHand
  <2> QED
    BY <2>1, <2>2, SchedulerInitOK DEF CatchInv
<1>2. CatchInv(m, Behind) /\ [Next]_vars => CatchInv(m, Behind)'
  BY LoopInvStep, JobInvStep, HitsInvStep, PunctualStep, InHandStep DEF CatchInv, SchedulerInv
<1>3. CatchInv(m, Behind) => NoFiringMissed
  <2> SUFFICES ASSUME CatchInv(m, Behind), NEW s \in schedule, NEW f \in FiresAt[s], Owed(s, f),
                      f + Window <= now
               PROVE  FALSE
    BY DEF NoFiringMissed, Owed, Caught
  <2>1. LoopInv /\ InHand(Behind)
    BY DEF CatchInv, SchedulerInv
  <2>2. now \in Nat /\ s \in Schedule
    BY <2>1 DEF LoopInv
  <2>3. f \in Nat /\ Window \in Nat
    BY <2>2, SchedulerAssumption
  <2>4. now < f + Window
    BY <2>1, <2>2 DEF InHand
  <2> QED
    BY <2>2, <2>3, <2>4
<1> QED
  BY <1>1, <1>2, <1>3, PTL DEF Spec
=============================================================================
