------------------------------ MODULE Scheduler ------------------------------
(* The cron scheduler.  Every node ticks on an interval of its own; the row  *)
(* version.cron_on lets one of them win a tick, and the winner puts a job    *)
(* into the send-it queue for every schedule that fired within the last      *)
(* Window seconds of its own clock.  A worker on that queue, one per node,   *)
(* performs the real send.  The throttle index keeps one send-it job per     *)
(* schedule and window of the database's clock.                              *)
(*                                                                           *)
(* Schedules are numbered as get_schedules orders them.                      *)
EXTENDS Integers, FiniteSets, FiniteSetsExt

CONSTANTS
  Node,           \* processes with scheduling enabled
  Schedule,       \* the rows (name, key) that may be in the table, as numbers
  FiresAt,        \* FiresAt[s]: the times the cron expression of s names
  Broken,         \* schedules whose evaluation raises (an unknown timezone)
  Window,         \* _DUE_WINDOW_SECONDS, also the throttle slot of a send-it job
  TickInterval,   \* cron_interval_seconds
  Skew,           \* Skew[n]: the clock of n less the clock of the database
  RetryLimit,     \* retry_limit of the send-it queue
  NULL,
  MayCrash,       \* nodes that may die, or fail to start for a while
  MaxLate,        \* bound: how late a loop wakes up, and how long a tick takes
  FaultsPerWindow, \* crashes, failed statements and failed sends in one window at most
  MaxFaults,      \* bound: those faults, in all
  MaxTime         \* bound: the clock stops here

ASSUME SchedulerAssumption ==
  /\ Window \in Nat \ {0} /\ TickInterval \in Nat \ {0} /\ RetryLimit \in Nat
  /\ {MaxLate, FaultsPerWindow, MaxFaults, MaxTime} \subseteq Nat
  /\ Schedule \subseteq Nat /\ Broken \subseteq Schedule
  /\ MayCrash \subseteq Node /\ Skew \in [Node -> Int]
  \* A cron expression of five fields fires on whole minutes.
  /\ FiresAt \in [Schedule -> SUBSET Nat]
  /\ \A s \in Schedule : \A f \in FiresAt[s] : f % Window = 0
  /\ NULL \notin Int

VARIABLES
  now,        \* the clock of the database
  cron_on,    \* version.cron_on: when the last tick was won, or NULL
  schedule,   \* the rows of the schedule table
  since,      \* history: the first whole window since row s was last inserted
  loop,       \* loop[n]: where Scheduler._run of n is
  wakeAt,     \* wakeAt[n]: when n wakes from _idle, or began its tick
  rows,       \* rows[n]: schedules the tick of n has fetched and not yet passed
  due,        \* due[n]: the firing whose send-it job n is sending, or NULL
  job,        \* the rows of the send-it queue, by schedule and throttle slot
  batch,      \* batch[n]: the send-it jobs the worker of n holds
  todo,       \* todo[n]: those its handler has not yet come to
  faults,     \* history: what went wrong so far
  hits        \* history: what went wrong in the current window of the database's clock

loopVars == <<loop, wakeAt, rows, due>>
workerVars == <<batch, todo>>
vars == <<now, cron_on, schedule, since, loopVars, job, workerVars, faults, hits>>

Slot(t) == Window * (t \div Window)

Clock(n) == now + Skew[n]

\* The last firing of s before t, by the cron expression alone.
Previous(s, t) ==
  LET past == {f \in FiresAt[s] : f < t}
  IN IF past = {} THEN NULL ELSE Max(past)

\* _should_send.  A mutant: the far end of the window is taken for a part of it.
ShouldSendInclusive(s, t) ==
  LET f == Previous(s, t) IN f # NULL /\ t - f <= Window

ShouldSend(s, t) ==
  LET f == Previous(s, t) IN f # NULL /\ t - f < Window

(***************************************************************************)
(* Types                                                                   *)
(***************************************************************************)
SendItJob ==
  [state : {"created", "active", "retry", "completed", "failed"},
   firing : Int,      \* the firing it was sent for
   stray : BOOLEAN,   \* history: not in the slot its firing was found due in
   tries : Nat, sent : Nat, lost : Nat]

TypeOK ==
  /\ now \in Nat /\ cron_on \in Nat \cup {NULL}
  /\ schedule \subseteq Schedule /\ since \in [Schedule -> Nat]
  /\ loop \in [Node -> {"down", "idle", "won", "sending"}]
  /\ wakeAt \in [Node -> Nat]
  /\ rows \in [Node -> SUBSET Schedule]
  /\ due \in [Node -> [schedule : Schedule, firing : Int, clock : Int] \cup {NULL}]
  /\ DOMAIN job \subseteq Schedule \X Int
  /\ \A j \in DOMAIN job : job[j] \in SendItJob
  /\ \A n \in Node : /\ batch[n] \subseteq DOMAIN job
                     /\ todo[n] \subseteq batch[n]
                     /\ \A j \in batch[n] : job[j].state = "active"
  /\ faults \in Nat /\ hits \in 0 .. FaultsPerWindow

Init ==
  /\ now = 0 /\ cron_on = NULL
  /\ schedule \in SUBSET Schedule /\ since = [s \in Schedule |-> 0]
  /\ loop = [n \in Node |-> IF n \in MayCrash THEN "down" ELSE "idle"]
  /\ wakeAt = [n \in Node |-> 0]
  /\ rows = [n \in Node |-> {}] /\ due = [n \in Node |-> NULL]
  /\ job = [j \in {} |-> NULL]
  /\ batch = [n \in Node |-> {}] /\ todo = [n \in Node |-> {}]
  /\ faults = 0 /\ hits = 0

Fault ==
  /\ hits < FaultsPerWindow /\ hits' = hits + 1
  /\ faults < MaxFaults /\ faults' = faults + 1

(***************************************************************************)
(* Calls of the user                                                       *)
(***************************************************************************)
\* An upsert of a row that is there replaces it; its cron stays FiresAt[s].
Upsert(s) ==
  /\ s \notin schedule
  /\ schedule' = schedule \cup {s} /\ since' = [since EXCEPT ![s] = Slot(now + Window - 1)]
  /\ UNCHANGED <<now, cron_on, loopVars, job, workerVars, faults, hits>>

Unschedule(s) ==
  /\ s \in schedule
  /\ schedule' = schedule \ {s} /\ since' = [since EXCEPT ![s] = 0]
  /\ UNCHANGED <<now, cron_on, loopVars, job, workerVars, faults, hits>>

(***************************************************************************)
(* The loop: Start, then ticks with TickInterval between them              *)
(***************************************************************************)
Start(n) ==
  /\ loop[n] = "down"
  /\ loop' = [loop EXCEPT ![n] = "idle"] /\ wakeAt' = [wakeAt EXCEPT ![n] = now]
  /\ UNCHANGED <<now, cron_on, schedule, since, rows, due, job, workerVars, faults, hits>>

\* The tick is over, well or badly: the loop idles.
Rest(n) ==
  /\ loop' = [loop EXCEPT ![n] = "idle"]
  /\ wakeAt' = [wakeAt EXCEPT ![n] = now + TickInterval]
  /\ rows' = [rows EXCEPT ![n] = {}] /\ due' = [due EXCEPT ![n] = NULL]

\* From one await to the next: _enqueue_due passes over what is not due, and
\* ends at the first row that raises or when no row is left.
Proceed(n, todoRows) ==
  LET Reached == {s \in todoRows : \A b \in todoRows \cap Broken : s < b}
      found == {s \in Reached : ShouldSend(s, Clock(n))}
      next == Min(found)
  IN IF found = {} THEN Rest(n)
     ELSE /\ loop' = [loop EXCEPT ![n] = "sending"]
          /\ rows' = [rows EXCEPT ![n] = {s \in todoRows : next < s}]
          /\ due' = [due EXCEPT ![n] =
                       [schedule |-> next, firing |-> Previous(next, Clock(n)),
                        clock |-> Clock(n)]]
          /\ UNCHANGED wakeAt

\* try_set_cron_time.  A mutant: the tick is debounced by the due window.
TickOpenPerWindow == cron_on = NULL \/ now - cron_on > Window

TickOpen == cron_on = NULL \/ now - cron_on > TickInterval

Tick(n) ==
  /\ loop[n] = "idle" /\ now >= wakeAt[n]
  /\ IF TickOpen
     THEN /\ cron_on' = now
          /\ loop' = [loop EXCEPT ![n] = "won"]
          /\ wakeAt' = [wakeAt EXCEPT ![n] = now]
          /\ UNCHANGED <<rows, due>>
     ELSE Rest(n) /\ UNCHANGED cron_on
  /\ UNCHANGED <<now, schedule, since, job, workerVars, faults, hits>>

FetchSchedules(n) ==
  /\ loop[n] = "won"
  /\ Proceed(n, schedule)
  /\ UNCHANGED <<now, cron_on, schedule, since, job, workerVars, faults, hits>>

\* The send into the send-it queue: ON CONFLICT DO NOTHING on the slot.
Enqueue(n) ==
  LET id == <<due[n].schedule, Slot(now)>>
      new == [state |-> "created", firing |-> due[n].firing,
              stray |-> Slot(now) # Slot(due[n].clock),
              tries |-> 0, sent |-> 0, lost |-> 0]
  IN /\ loop[n] = "sending"
     /\ job' = IF id \in DOMAIN job THEN job
               ELSE [j \in DOMAIN job \cup {id} |-> IF j = id THEN new ELSE job[j]]
     /\ Proceed(n, rows[n])
     /\ UNCHANGED <<now, cron_on, schedule, since, workerVars, faults, hits>>

\* A statement of the tick raised: _run logs it and goes on.
TickFails(n) ==
  /\ loop[n] \in {"won", "sending"} /\ Fault
  /\ Rest(n)
  /\ UNCHANGED <<now, cron_on, schedule, since, job, workerVars>>

(***************************************************************************)
(* The send-it worker: a Worker whose handler is _on_send_it               *)
(***************************************************************************)
\* A mutant: only jobs never tried are claimed.
Untried == {j \in DOMAIN job : job[j].state = "created"}

Waiting == {j \in DOMAIN job : job[j].state \in {"created", "retry"}}

ClaimSendIt(n) ==
  /\ loop[n] # "down" /\ batch[n] = {}
  /\ \E B \in SUBSET Waiting \ {{}} :
       /\ batch' = [batch EXCEPT ![n] = B] /\ todo' = [todo EXCEPT ![n] = B]
       /\ job' = [j \in DOMAIN job |->
                    IF j \in B THEN [job[j] EXCEPT !.state = "active", !.tries = @ + 1]
                    ELSE job[j]]
  /\ UNCHANGED <<now, cron_on, schedule, since, loopVars, faults, hits>>

\* The real send of one job of the batch; an exception is logged and forgotten.
Relay(n) ==
  \E j \in todo[n] :
    /\ todo' = [todo EXCEPT ![n] = @ \ {j}]
    /\ \/ job' = [job EXCEPT ![j].sent = @ + 1] /\ UNCHANGED <<faults, hits>>
       \/ job' = [job EXCEPT ![j].lost = @ + 1] /\ Fault
    /\ UNCHANGED <<now, cron_on, schedule, since, loopVars, batch>>

\* complete_jobs for the whole batch (without the guard, a mutant: the batch is
\* settled while the handler still has jobs to send).
Settle(n) ==
  /\ batch[n] # {}
  /\ batch' = [batch EXCEPT ![n] = {}] /\ todo' = [todo EXCEPT ![n] = {}]
  /\ job' = [j \in DOMAIN job |->
               IF j \in batch[n] /\ job[j].state = "active"
               THEN [job[j] EXCEPT !.state = "completed"] ELSE job[j]]
  /\ UNCHANGED <<now, cron_on, schedule, since, loopVars, faults, hits>>

CompleteSendIt(n) == todo[n] = {} /\ Settle(n)

\* The completing statement raised: the batch is dropped.
DropBatch(n) ==
  /\ batch[n] # {} /\ todo[n] = {} /\ Fault
  /\ batch' = [batch EXCEPT ![n] = {}]
  /\ UNCHANGED <<now, cron_on, schedule, since, loopVars, job, todo>>

Crash(n) ==
  /\ n \in MayCrash /\ loop[n] # "down" /\ Fault
  /\ loop' = [loop EXCEPT ![n] = "down"] /\ wakeAt' = [wakeAt EXCEPT ![n] = 0]
  /\ rows' = [rows EXCEPT ![n] = {}] /\ due' = [due EXCEPT ![n] = NULL]
  /\ batch' = [batch EXCEPT ![n] = {}] /\ todo' = [todo EXCEPT ![n] = {}]
  /\ UNCHANGED <<now, cron_on, schedule, since, job>>

\* Active jobs whose lease may lapse: nobody holds them.  (A mutant: whatever is
\* active, as if a relay could outlive its lease of fifteen minutes.)
ActiveJobs == {j \in DOMAIN job : job[j].state = "active"}

Abandoned == {j \in DOMAIN job : /\ job[j].state = "active"
                                 /\ \A n \in Node : j \notin batch[n]}

\* The sweep, some minutes later.
Recover ==
  /\ \E j \in Abandoned :
       job' = [job EXCEPT ![j].state = IF job[j].tries <= RetryLimit THEN "retry" ELSE "failed"]
  /\ UNCHANGED <<now, cron_on, schedule, since, loopVars, workerVars, faults, hits>>

\* Time passes; a loop that is up is at most MaxLate late with its next step.
Advance ==
  /\ now < MaxTime /\ now' = now + 1
  /\ \A n \in Node : loop[n] # "down" => now < wakeAt[n] + MaxLate
  /\ hits' = IF now' % Window = 0 THEN 0 ELSE hits
  /\ UNCHANGED <<cron_on, schedule, since, loopVars, job, workerVars, faults>>

Ticking(n) == Tick(n) \/ FetchSchedules(n) \/ Enqueue(n) \/ TickFails(n)

Relaying(n) == ClaimSendIt(n) \/ Relay(n) \/ CompleteSendIt(n) \/ DropBatch(n)

Next ==
  \/ \E s \in Schedule : Upsert(s) \/ Unschedule(s)
  \/ \E n \in Node : Start(n) \/ Ticking(n) \/ Relaying(n) \/ Crash(n)
  \/ Recover
  \/ Advance

Spec == Init /\ [][Next]_vars

\* While a node is up its send-it worker polls, and its handler ends; somewhere
\* a sweep runs.
FairSpec ==
  /\ Spec
  /\ \A n \in Node : WF_vars(ClaimSendIt(n) \/ Relay(n) \/ CompleteSendIt(n))
  /\ WF_vars(Recover)

(***************************************************************************)
(* Properties                                                              *)
(***************************************************************************)
\* One firing, one send-it job: two ticks of one node or of two, however close,
\* never enqueue a firing twice (module docstring, "a schedule fires at most
\* once per minute even if ticks overlap").  Only a job that reached the
\* table in another slot than the one its node found it due in (a slow tick, a
\* wrong clock) may double another.
EachFiringOnce ==
  \A j, k \in DOMAIN job :
    /\ j[1] = k[1] /\ job[j].firing = job[k].firing
    /\ ~job[j].stray /\ ~job[k].stray
    => j = k

\* The longest time from one tick won to the next while m is up: m may come a
\* moment too early, once, and wakes up late.
Gap == 2 * TickInterval + MaxLate

\* What the window has to hold, for NoFiringMissed to be more than luck: m never
\* dies, a tick is over before the next is open, no clock is more than Behind
\* behind the database's or Ahead of it, and one gap for each tick a window may
\* lose, one for the tick that is not lost, and its duration fit in the window.
\* The default interval, 60 seconds in a window of 60, is not well timed.
WellTimed(m, Behind, Ahead) ==
  /\ m \in Node \ MayCrash /\ Behind \in Nat /\ Ahead \in Nat
  /\ \A n \in Node : -Behind <= Skew[n] /\ Skew[n] <= Ahead
  /\ MaxLate <= TickInterval
  /\ Behind + (FaultsPerWindow + 1) * Gap + MaxLate + Ahead < Window

\* Once the due window of a firing is over there is a send-it job for it, if
\* its row was there all the time and no row before it raises: late loops,
\* ticks won by a node that then dies and a tick cut short by an error leave
\* no gap as wide as the window (module docstring, "on each tick one node ...
\* enqueues a job ... for every schedule whose cron fired within the last
\* minute").  The one exception is a slot taken by a stray job of another firing.
NoFiringMissed ==
  \A s \in schedule : (\A b \in Broken : s < b) =>
    \A f \in FiresAt[s] : since[s] <= f /\ f + Window <= now =>
      \E j \in DOMAIN job : /\ j[1] = s
                            /\ \/ job[j].firing = f
                               \/ job[j].stray /\ j[2] = f

\* A send-it job counts as completed only when its send was made or was given
\* up with an error, and every extra send is owed to a fault.
RelayAccounting ==
  \A j \in DOMAIN job :
    /\ job[j].state = "completed" => job[j].sent + job[j].lost > 0
    /\ job[j].sent <= 1 + faults

\* Every send-it job comes to an end, whatever becomes of the nodes that hold it.
Relayed ==
  \A id \in (Schedule \ Broken) \X {Slot(t) : t \in 0 .. MaxTime} :
    id \in DOMAIN job ~> id \in DOMAIN job /\ job[id].state \in {"completed", "failed"}
=============================================================================
