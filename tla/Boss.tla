-------------------------------- MODULE Boss --------------------------------
(* One Underboss object, from start() to stop(), over a database that other  *)
(* processes provision at the same time.  One task calls start() and stop(), *)
(* in any order and number; others call work(), stop_worker() and            *)
(* notify_worker() meanwhile.  An action ends where the code awaits.         *)
EXTENDS Provision, WorkerLoop, FiniteSets

CONSTANTS
  me,           \* the process of this object
  SendIt,       \* the workers Scheduler.start may make; the rest are work()'s
  NULL,
  MaxStarts     \* bound: calls of start(), by this and the other processes

Loop == {"maintenance", "cron"}

ASSUME BossAssumption ==
  /\ me \in Node /\ SendIt \subseteq Worker /\ NULL \notin Worker
  /\ MaxStarts \in Nat

VARIABLES
  pool,       \* Database._pool: "none", "open", or "closing"
  started,    \* _started
  call,       \* where the call of start() or stop() is
  starts,     \* history: calls of start(), by all processes
  loop,       \* loop[l]: the task of a background loop
  loopStop,   \* the loops whose _stopping is set
  sendIt,     \* Scheduler._worker
  registry,   \* _workers
  taken,      \* the local copy of it in stop()
  quitting,   \* workers a stop_worker() waits for
  unseen      \* history: workers that the stop() to come, or under way, does not see

bossVars == <<pool, started, call, starts, loop, loopStop, sendIt,
              registry, taken, quitting, unseen>>
vars == <<provVars, workerVars, bossVars>>

Usable == pool = "open"

BossTypeOK ==
  /\ ProvisionTypeOK /\ WorkerTypeOK
  /\ pool \in {"none", "open", "closing"} /\ started \in BOOLEAN
  /\ call \in {"none", "provision", "queue", "maintenance", "cron", "send-it",
               "workers", "close"}
  /\ starts \in 0 .. MaxStarts
  /\ loop \in [Loop -> {"none", "running", "ended"}] /\ loopStop \subseteq Loop
  /\ sendIt \in SendIt \cup {NULL}
  /\ {registry, taken, quitting} \subseteq SUBSET (Worker \ SendIt)
  /\ unseen \subseteq Worker
  \* A worker is stopped by one caller only.
  /\ registry \cap taken = {} /\ quitting \cap (registry \cup taken) = {}

Init ==
  /\ ProvisionInit /\ WorkerInit
  /\ pool = "none" /\ started = FALSE /\ call = "none"
  /\ starts = 0
  /\ loop = [l \in Loop |-> "none"] /\ loopStop = {}
  /\ sendIt = NULL /\ registry = {} /\ taken = {} /\ quitting = {} /\ unseen = {}

\* Send-it workers not made yet.
Unused == {s \in SendIt : wpc[s] = "new"}

(***************************************************************************)
(* start()                                                                 *)
(***************************************************************************)
\* open() keeps a pool that is there.  The next stop() sees what is in the registry.
Open ==
  /\ call = "none" /\ starts < MaxStarts /\ Unused # {}
  /\ call' = "provision" /\ pool' = "open" /\ starts' = starts + 1
  /\ Begin(me)
  /\ unseen' = unseen \ registry
  /\ UNCHANGED <<workerVars, loop, loopStop, sendIt, registry, taken, quitting>>

\* A mutant: the flag is set before the schema is there.
StartMarked == Open /\ started' = TRUE

Start == Open /\ UNCHANGED started

Provisioned ==
  /\ call = "provision" /\ prov[me] \in {"ok", "failed"}
  /\ IF prov[me] = "ok" THEN started' = TRUE /\ call' = "queue"
     ELSE call' = "none" /\ UNCHANGED started
  /\ UNCHANGED <<provVars, workerVars, pool, starts, loop, loopStop, sendIt,
                 registry, taken, quitting, unseen>>

\* create_queue of the send-it queue, then the send-it worker and both loops.
\* An error raises out of start() with _started set.  The worker of an earlier start()
\* is dropped and runs on.
QueueCreated ==
  /\ call = "queue" /\ call' = "none"
  /\ LET s == CHOOSE w \in Unused : TRUE IN Spawn(s) /\ sendIt' = s
  /\ loop' = [l \in Loop |-> "running"]
  /\ unseen' = unseen \cup ({sendIt} \ {NULL})
  /\ UNCHANGED <<provVars, pool, started, starts, loopStop, registry, taken, quitting>>

QueueFails ==
  /\ call = "queue" /\ call' = "none"
  /\ UNCHANGED <<provVars, workerVars, pool, started, starts, loop, loopStop,
                 sendIt, registry, taken, quitting, unseen>>

\* A loop looks at its flag between two rounds; what a round raises is logged.
LoopEnds(l) ==
  /\ l \in loopStop /\ loop[l] = "running"
  /\ loop' = [loop EXCEPT ![l] = "ended"]
  /\ UNCHANGED <<provVars, workerVars, pool, started, call, starts, loopStop, sendIt,
                 registry, taken, quitting, unseen>>

(***************************************************************************)
(* stop()                                                                  *)
(***************************************************************************)
Stop ==
  /\ call = "none"
  /\ call' = "maintenance"
  /\ loopStop' = loopStop \cup {"maintenance"}
  /\ UNCHANGED <<provVars, workerVars, pool, started, starts, loop, sendIt, registry,
                 taken, quitting, unseen>>

\* The wait for a loop is over: it ended, or was cancelled after 30 seconds.
MaintenanceStopped ==
  /\ call = "maintenance" /\ call' = "cron"
  /\ loop' = [loop EXCEPT !["maintenance"] = "none"]
  /\ loopStop' = loopStop \cup {"cron"}
  /\ UNCHANGED <<provVars, workerVars, pool, started, starts, sendIt, registry,
                 taken, quitting, unseen>>

CronStopped ==
  /\ call = "cron" /\ call' = "send-it"
  /\ loop' = [loop EXCEPT !["cron"] = "none"]
  /\ Signal({sendIt} \ {NULL})
  /\ UNCHANGED <<provVars, pool, started, starts, loopStop, sendIt, registry,
                 taken, quitting, unseen>>

\* The wait in Worker.stop is over: the task ended, or timed out and was
\* cancelled.  Mutants: stop() does not wait; it waits without a timeout.
NotWaited(w) == UNCHANGED wpc

WaitedForEver(w) == wpc[w] = "ended" /\ UNCHANGED wpc

Waited(w) == Await(w, "ended")

\* The next worker of the list is told to stop; after the last, the pool closes
\* (if there is one).
StopNext(W) ==
  IF W = {}
  THEN /\ call' = "close" /\ taken' = {}
       /\ pool' = IF pool = "open" THEN "closing" ELSE pool
       /\ UNCHANGED <<stopping, wake, nudged>>
  ELSE /\ call' = "workers" /\ taken' = W
       /\ LET first == CHOOSE w \in W : TRUE
          IN stopping' = stopping \cup {first} /\ wake' = wake \cup {first}
       /\ UNCHANGED <<pool, nudged>>

\* stop() takes the list of workers and clears it, without an await between.
SendItStopped ==
  /\ call = "send-it"
  /\ IF sendIt = NULL THEN UNCHANGED wpc ELSE Waited(sendIt)
  /\ sendIt' = NULL /\ registry' = {} /\ StopNext(registry)
  /\ UNCHANGED <<provVars, started, starts, loop, loopStop, quitting, unseen>>

WorkerStopped ==
  /\ call = "workers"
  /\ LET first == CHOOSE w \in taken : TRUE
     IN Waited(first) /\ StopNext(taken \ {first})
  /\ UNCHANGED <<provVars, started, starts, loop, loopStop, sendIt, registry,
                 quitting, unseen>>

\* asyncpg's close() waits until every connection is back.
Closed ==
  /\ call = "close" /\ \A w \in Worker : wpc[w] \notin {"fetch", "settle"}
  /\ call' = "none" /\ pool' = "none" /\ started' = FALSE
  /\ UNCHANGED <<provVars, workerVars, starts, loop, loopStop, sendIt, registry,
                 taken, quitting, unseen>>

(***************************************************************************)
(* work(), stop_worker(), notify_worker()                                  *)
(***************************************************************************)
\* stop() has its list of workers already, or not yet.
Work(w) ==
  /\ started /\ w \notin SendIt
  /\ Spawn(w) /\ registry' = registry \cup {w}
  /\ unseen' = IF call \in {"workers", "close"} THEN unseen \cup {w} ELSE unseen
  /\ UNCHANGED <<provVars, pool, started, call, starts, loop, loopStop, sendIt,
                 taken, quitting>>

\* pop, not get: a worker is stopped by one caller only.  A mutant: get.
StopWorkerGet(w) ==
  /\ w \in registry
  /\ Signal({w}) /\ quitting' = quitting \cup {w}
  /\ UNCHANGED <<provVars, pool, started, call, starts, loop, loopStop, sendIt,
                 registry, taken, unseen>>

StopWorker(w) ==
  /\ w \in registry /\ registry' = registry \ {w}
  /\ Signal({w}) /\ quitting' = quitting \cup {w}
  /\ UNCHANGED <<provVars, pool, started, call, starts, loop, loopStop, sendIt,
                 taken, unseen>>

WorkerQuit(w) ==
  /\ w \in quitting /\ quitting' = quitting \ {w}
  /\ Waited(w)
  /\ UNCHANGED <<provVars, stopping, wake, nudged, pool, started, call, starts,
                 loop, loopStop, sendIt, registry, taken, unseen>>

NotifyWorker(w) ==
  /\ started /\ w \in registry /\ Nudge(w)
  /\ UNCHANGED <<provVars, bossVars>>

WorkerRuns(w) == WorkerStep(w, Usable) /\ UNCHANGED <<provVars, bossVars>>

\* Provisioning of this process within start(), of the others at any time.
MyProvisioning ==
  /\ call = "provision" /\ Provisioning(me) /\ UNCHANGED <<workerVars, bossVars>>

PeerStart(n) ==
  /\ n # me /\ starts < MaxStarts /\ starts' = starts + 1
  /\ Begin(n)
  /\ UNCHANGED <<workerVars, pool, started, call, loop, loopStop, sendIt, registry,
                 taken, quitting, unseen>>

PeerProvisioning(n) == n # me /\ Provisioning(n) /\ UNCHANGED <<workerVars, bossVars>>

Starting == Start \/ Provisioned \/ QueueCreated \/ QueueFails

Stopping == \/ MaintenanceStopped \/ CronStopped \/ SendItStopped
            \/ WorkerStopped \/ Closed

Next ==
  \/ Starting \/ Stop \/ Stopping
  \/ \E l \in Loop : LoopEnds(l)
  \/ \E w \in Worker : \/ Work(w) \/ StopWorker(w) \/ WorkerQuit(w)
                       \/ NotifyWorker(w) \/ WorkerRuns(w)
  \/ MyProvisioning
  \/ \E n \in Node : PeerStart(n) \/ PeerProvisioning(n)

Spec == Init /\ [][Next]_vars

\* The event loop runs what is ready, waits have timeouts, fetches and
\* settlements return.  Nothing is assumed of handlers, of the poll delay, of
\* provisioning or of the callers.
FairSpec ==
  /\ Spec
  /\ WF_vars(Stopping)
  /\ \A w \in Worker :
       WF_vars(Prompt(w, Usable) /\ UNCHANGED <<provVars, bossVars>>)

(***************************************************************************)
(* Properties                                                              *)
(***************************************************************************)
\* _require_started lets a call through only when there is a pool with a complete
\* schema of this version behind it, whatever other processes do meanwhile.  Without
\* transactional DDL one start() can be wrong about it: one that met a version
\* table without its row, see ProvisionedComplete.
ReadyWhenStarted ==
  started => /\ pool # "none"
             /\ transactional \/ me \notin blind =>
                  objects = Everything /\ SCHEMA_VERSION \in versions

\* Once stop() begins to close the pool, and until the next start(), no worker is
\* left running (stop, "every worker, then close"): each has ended, its batch
\* settled through the pool or cut off by the timeout.  But for those stop() does
\* not wait for: a worker some stop_worker() is still waiting for, one that work()
\* added when stop() had taken its list, and a send-it worker that a second start()
\* has replaced.
WorkersEndBeforePool ==
  pool # "open" =>
    \A w \in Worker : wpc[w] \notin {"new", "ended"} => w \in quitting \cup unseen

\* stop() returns, even if a handler never does: it is cancelled after 30 seconds,
\* and lets the cancellation through.
StopReturns == call \in {"maintenance", "cron", "send-it", "workers", "close"}
                 ~> call = "none"

\* A notify leads to another fetch, whenever it comes: in the handler it counts
\* once the handler is done.
NotifyHeeded ==
  \A w \in Worker \ SendIt :
    w \in nudged ~> w \notin nudged \/ wpc[w] \in {"handler", "ended"}
=============================================================================
