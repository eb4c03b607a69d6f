----------------------------- MODULE BossProofs -----------------------------
(***************************************************************************)
(* start() and stop() keep their promises for any number of workers,       *)
(* processes and calls.                                                    *)
(***************************************************************************)
EXTENDS Boss, ProvisionProofs

Ready == me \in blind \/ Complete

Known == registry \cup taken \cup quitting \cup ({sendIt} \ {NULL})

\* What BossTypeOK says of the variables of WorkerLoop and Boss.
Types ==
  /\ WorkerTypeOK
  /\ pool \in {"none", "open", "closing"} /\ started \in BOOLEAN
  /\ call \in {"none", "provision", "queue", "maintenance", "cron", "send-it",
               "workers", "close"}
  /\ starts \in 0 .. MaxStarts
  /\ loop \in [Loop -> {"none", "running", "ended"}] /\ loopStop \subseteq Loop
  /\ sendIt \in SendIt \cup {NULL}
  /\ registry \subseteq Worker \ SendIt /\ taken \subseteq Worker \ SendIt
  /\ quitting \subseteq Worker \ SendIt /\ unseen \subseteq Worker
  /\ registry \cap taken = {} /\ quitting \cap (registry \cup taken) = {}

\* A worker anybody knows has been spawned; one that will be is left.
Spawned == \A w \in Known : wpc[w] # "new"

\* What each point of start() and stop() has achieved.
Calls ==
  /\ call \in {"provision", "queue"} => pool = "open" /\ Unused # {}
  /\ call = "queue" => Ready
  /\ started => pool # "none" /\ Ready
  /\ pool = "closing" => call = "close"
  /\ call = "close" => pool # "open"
  /\ taken # {} <=> call = "workers"

Running(w) == wpc[w] \notin {"new", "ended"}

\* Whoever runs is known or unseen; and who is known when the pool is not open, or
\* when stop() has its list, is unseen too.
Listed ==
  /\ \A w \in Worker : Running(w) => w \in Known \cup unseen
  /\ pool # "open" => sendIt = NULL /\ registry \cup taken \subseteq unseen
  /\ call \in {"workers", "close"} => sendIt = NULL /\ registry \subseteq unseen

BossInv == ProvisionInv /\ Types /\ Spawned /\ Calls /\ Listed

-----------------------------------------------------------------------------
\* Every step of Boss is a step of Provision or leaves its variables alone.
LEMMA StepsProvision == [Next]_vars => [ProvisionNext]_provVars
<1> SUFFICES ASSUME [Next]_vars PROVE [ProvisionNext]_provVars
  OBVIOUS
<1>1. CASE Starting
  BY <1>1, BossAssumption
     DEF Starting, Start, Open, Provisioned, QueueCreated, QueueFails, ProvisionNext
<1>2. CASE Stop \/ Stopping
  BY <1>2 DEF Stop, Stopping, MaintenanceStopped, CronStopped, SendItStopped,
              WorkerStopped, Closed
<1>3. CASE \E l \in Loop : LoopEnds(l)
  BY <1>3 DEF LoopEnds
<1>4. CASE \E w \in Worker : \/ Work(w) \/ StopWorker(w) \/ WorkerQuit(w)
                             \/ NotifyWorker(w) \/ WorkerRuns(w)
  BY <1>4 DEF Work, StopWorker, WorkerQuit, NotifyWorker, WorkerRuns
<1>5. CASE MyProvisioning \/ \E n \in Node : PeerStart(n) \/ PeerProvisioning(n)
  BY <1>5, BossAssumption
     DEF MyProvisioning, PeerStart, PeerProvisioning, ProvisionNext
<1>6. CASE UNCHANGED vars
  BY <1>6 DEF vars
<1> QED
  BY <1>1, <1>2, <1>3, <1>4, <1>5, <1>6 DEF Next

\* What has been created stays: a ready process stays ready.
LEMMA ReadyStays ==
  ASSUME ProvisionInv, ProvisionInv', [ProvisionNext]_provVars, Ready
  PROVE  Ready'
<1>1. objects \subseteq objects' /\ versions \subseteq versions' /\ blind \subseteq blind'
  BY DEF ProvisionNext, Provisioning, provVars, Begin, Check, RunStatement, RunScript,
         Verify, Fail, DuplicateObject, Execute
<1> QED
  BY <1>1 DEF Ready, Complete, ProvisionInv, ProvisionTypeOK

\* A worker that has ended stays so, and none but Spawn makes a new one.
LEMMA WorkersMove ==
  ASSUME WorkerTypeOK, NEW w \in Worker, NEW p \in BOOLEAN, WorkerStep(w, p)
  PROVE  /\ WorkerTypeOK'
         /\ \A v \in Worker : /\ wpc[v] = "ended" => wpc'[v] = "ended"
                              /\ wpc[v] = "new" <=> wpc'[v] = "new"
<1>1. /\ wpc[w] \notin {"new", "ended"}
      /\ \E what \in {"fetch", "handler", "settle", "idle", "ended"} :
           wpc' = [wpc EXCEPT ![w] = what]
  BY DEF WorkerStep, FirstTurn, FetchReturns, HandlerEnds, Settled, Wakes, PollElapses,
         Top, Await
<1>2. stopping' \subseteq Worker /\ wake' \subseteq Worker /\ nudged' \subseteq Worker
  BY DEF WorkerTypeOK, WorkerStep, FirstTurn, FetchReturns, HandlerEnds, Settled, Wakes,
         PollElapses, Top
<1> QED
  BY <1>1, <1>2 DEF WorkerTypeOK

\* Frame: a step that leaves Boss and the workers alone.
LEMMA FrameOK ==
  ASSUME BossInv, ProvisionInv', [ProvisionNext]_provVars,
         UNCHANGED <<workerVars, pool, started, call, loop, loopStop, sendIt,
                     registry, taken, quitting, unseen>>,
         starts' \in 0 .. MaxStarts
  PROVE  BossInv'
<1>1. Ready => Ready'
  BY ReadyStays DEF BossInv
<1>2. Types' /\ Spawned' /\ Listed'
  BY DEF BossInv, Types, WorkerTypeOK, Spawned, Known, Running, Listed, workerVars
<1>3. Calls'
  BY <1>1 DEF BossInv, Calls, Unused, workerVars
<1> QED
  BY <1>2, <1>3 DEF BossInv

LEMMA BossInitOK == Init => BossInv
<1> SUFFICES ASSUME Init PROVE BossInv
  OBVIOUS
<1>1. ProvisionInv
  BY ProvisionInitOK DEF Init
<1>2. Types
  <2>1. WorkerTypeOK
    BY DEF Init, WorkerInit, WorkerTypeOK
  <2>2. starts \in 0 .. MaxStarts
    BY BossAssumption DEF Init
  <2>3. loop \in [Loop -> {"none", "running", "ended"}]
    BY DEF Init
  <2> QED
    BY <2>1, <2>2, <2>3 DEF Init, Types
<1>4. Spawned
  BY DEF Init, Spawned, Known
<1>3. Calls /\ Listed
  BY DEF Init, WorkerInit, Calls, Running, Known, Listed
<1> QED
  BY <1>1, <1>2, <1>3, <1>4 DEF BossInv

-----------------------------------------------------------------------------
(***************************************************************************)
(* start()                                                                 *)
(***************************************************************************)
LEMMA StartOK ==
  ASSUME BossInv, ProvisionInv', [ProvisionNext]_provVars, Start
  PROVE  BossInv'
<1>1. Ready => Ready'
  BY ReadyStays DEF BossInv
<1>2. Types'
  <2>1. starts' \in 0 .. MaxStarts
    BY BossAssumption DEF BossInv, Types, Start, Open
  <2> QED
    BY <2>1 DEF BossInv, Types, WorkerTypeOK, Start, Open, workerVars
<1>3. Spawned' /\ Listed'
  BY DEF BossInv, Types, Spawned, Known, Running, Listed, Start, Open, workerVars
<1>4. Calls'
  BY <1>1 DEF BossInv, Calls, Unused, Start, Open, workerVars
<1> QED
  BY <1>2, <1>3, <1>4 DEF BossInv

LEMMA ProvisionedOK ==
  ASSUME BossInv, ProvisionInv', Provisioned
  PROVE  BossInv'
<1>1. prov[me] = "ok" => Ready
  BY BossAssumption DEF BossInv, ProvisionInv, ProvisionedComplete, Ready, Complete
<1>2. Ready' <=> Ready
  BY DEF Provisioned, provVars, Ready, Complete
<1>3. Types' /\ Spawned' /\ Listed'
  BY DEF BossInv, Types, WorkerTypeOK, Spawned, Known, Running, Listed, Provisioned, workerVars
<1>4. Calls'
  BY <1>1, <1>2 DEF BossInv, Types, Calls, Unused, Provisioned, workerVars
<1> QED
  BY <1>3, <1>4 DEF BossInv

LEMMA QueueCreatedOK ==
  ASSUME BossInv, ProvisionInv', QueueCreated
  PROVE  BossInv'
<1> DEFINE s == CHOOSE w \in Unused : TRUE
<1>1. s \in SendIt /\ wpc[s] = "new" /\ s \in Worker /\ s # NULL
  <2>1. s \in Unused
    BY DEF BossInv, Calls, QueueCreated
  <2> QED
    BY <2>1, BossAssumption DEF Unused
<1>2. /\ sendIt' = s /\ wpc' = [wpc EXCEPT ![s] = "ready"]
      /\ UNCHANGED <<stopping, wake, nudged>>
  BY DEF QueueCreated, Spawn, Await
<1> HIDE DEF s
<1>3. Ready' <=> Ready
  BY DEF QueueCreated, provVars, Ready, Complete
<1>4. Types'
  BY <1>1, <1>2, BossAssumption DEF BossInv, Types, WorkerTypeOK, QueueCreated
<1>5. Spawned'
  <2>1. Known' \subseteq Known \cup {s}
    BY <1>2 DEF Known, QueueCreated
  <2>2. \A w \in Known : wpc[w] # "new" /\ w # s
    BY <1>1 DEF BossInv, Spawned
  <2>3. wpc \in [Worker -> {"new", "ready", "fetch", "handler", "settle", "idle", "ended"}]
    BY DEF BossInv, Types, WorkerTypeOK
  <2>4. wpc'[s] = "ready" /\ \A w \in Known : wpc'[w] = wpc[w]
    BY <1>1, <1>2, <2>2, <2>3
  <2> QED
    BY <2>1, <2>2, <2>4 DEF Spawned
<1>6. Listed'
  BY <1>1, <1>2 DEF BossInv, Types, WorkerTypeOK, Calls, Running, Known, Listed, QueueCreated
<1>7. Calls'
  BY <1>3 DEF BossInv, Calls, QueueCreated
<1> QED
  BY <1>4, <1>5, <1>6, <1>7 DEF BossInv

LEMMA QueueFailsOK ==
  ASSUME BossInv, ProvisionInv', QueueFails
  PROVE  BossInv'
<1>1. Ready' <=> Ready
  BY DEF QueueFails, provVars, Ready, Complete
<1>2. Types' /\ Spawned' /\ Listed'
  BY DEF BossInv, Types, WorkerTypeOK, Spawned, Known, Running, Listed, QueueFails, workerVars
<1>3. Calls'
  BY <1>1 DEF BossInv, Types, Calls, Unused, QueueFails, workerVars
<1> QED
  BY <1>2, <1>3 DEF BossInv

LEMMA LoopEndsOK ==
  ASSUME BossInv, ProvisionInv', NEW l \in Loop, LoopEnds(l)
  PROVE  BossInv'
<1>1. Ready' <=> Ready
  BY DEF LoopEnds, provVars, Ready, Complete
<1>2. Types' /\ Spawned' /\ Listed'
  BY DEF BossInv, Types, WorkerTypeOK, Spawned, Known, Running, Listed, LoopEnds,
         workerVars
<1>3. Calls'
  BY <1>1 DEF BossInv, Types, Calls, Unused, LoopEnds, workerVars
<1> QED
  BY <1>2, <1>3 DEF BossInv

(***************************************************************************)
(* stop()                                                                  *)
(***************************************************************************)
LEMMA StopOK ==
  ASSUME BossInv, ProvisionInv', Stop
  PROVE  BossInv'
<1>1. Ready' <=> Ready
  BY DEF Stop, provVars, Ready, Complete
<1>2. /\ UNCHANGED <<wpc, stopping, wake, nudged, pool, started, starts, loop, sendIt,
                     registry, taken, quitting, unseen>>
      /\ call' = "maintenance" /\ loopStop' = loopStop \cup {"maintenance"}
  BY DEF Stop, workerVars
<1>3. Types' /\ Spawned' /\ Listed'
  BY <1>2, BossAssumption DEF BossInv, Types, WorkerTypeOK, Spawned, Known, Running, Listed, Loop
<1>4. Calls'
  BY <1>1, <1>2 DEF BossInv, Types, Calls, Unused, Stop
<1> QED
  BY <1>3, <1>4 DEF BossInv

LEMMA MaintenanceStoppedOK ==
  ASSUME BossInv, ProvisionInv', MaintenanceStopped
  PROVE  BossInv'
<1>1. Ready' <=> Ready
  BY DEF MaintenanceStopped, provVars, Ready, Complete
<1>2. Types' /\ Spawned' /\ Listed'
  BY DEF BossInv, Types, WorkerTypeOK, Spawned, Known, Running, Listed, Loop, MaintenanceStopped,
         workerVars
<1>3. Calls'
  BY <1>1 DEF BossInv, Types, Calls, Unused, MaintenanceStopped, workerVars
<1> QED
  BY <1>2, <1>3 DEF BossInv

LEMMA CronStoppedOK ==
  ASSUME BossInv, ProvisionInv', CronStopped
  PROVE  BossInv'
<1>1. Ready' <=> Ready
  BY DEF CronStopped, provVars, Ready, Complete
<1>2. /\ stopping' \subseteq Worker /\ wake' \subseteq Worker
      /\ UNCHANGED <<wpc, nudged>>
  BY BossAssumption DEF BossInv, Types, WorkerTypeOK, CronStopped, Signal
<1>3. Types' /\ Spawned' /\ Listed'
  BY <1>2 DEF BossInv, Types, WorkerTypeOK, Spawned, Known, Running, Listed, Loop, CronStopped
<1>4. Calls'
  BY <1>1, <1>2 DEF BossInv, Types, Calls, Unused, CronStopped
<1> QED
  BY <1>3, <1>4 DEF BossInv

\* What StopNext leaves to the next step: the workers of W, or a closing pool.
LEMMA StopNextDoes ==
  ASSUME NEW W \in SUBSET (Worker \ SendIt), WorkerTypeOK,
         pool \in {"none", "open"}, StopNext(W)
  PROVE  /\ taken' = W /\ call' = IF W = {} THEN "close" ELSE "workers"
         /\ pool' = IF W = {} /\ pool = "open" THEN "closing" ELSE pool
         /\ stopping' \subseteq Worker /\ wake' \subseteq Worker /\ nudged' = nudged
<1>1. CASE W = {}
  BY <1>1 DEF StopNext, WorkerTypeOK
<1>2. CASE W # {}
  <2> DEFINE first == CHOOSE w \in W : TRUE
  <2>1. first \in Worker
    BY <1>2
  <2> QED
    BY <1>2, <2>1 DEF StopNext, WorkerTypeOK
<1> QED
  BY <1>1, <1>2

LEMMA SendItStoppedOK ==
  ASSUME BossInv, ProvisionInv', SendItStopped
  PROVE  BossInv'
<1>1. Ready' <=> Ready
  BY DEF SendItStopped, provVars, Ready, Complete
<1>2. /\ pool \in {"none", "open"}
      /\ registry \in SUBSET (Worker \ SendIt) /\ WorkerTypeOK
  BY DEF BossInv, Types, Calls, SendItStopped
<1>3. /\ taken' = registry /\ call' = IF registry = {} THEN "close" ELSE "workers"
      /\ pool' = IF registry = {} /\ pool = "open" THEN "closing" ELSE pool
      /\ stopping' \subseteq Worker /\ wake' \subseteq Worker /\ nudged' = nudged
  BY <1>2, StopNextDoes DEF SendItStopped
<1>4. /\ WorkerTypeOK'
      /\ \A w \in Worker : /\ wpc[w] = "ended" => wpc'[w] = "ended"
                           /\ wpc'[w] = "new" => wpc[w] = "new"
      /\ sendIt # NULL => sendIt \in Worker /\ wpc'[sendIt] = "ended"
      /\ \A w \in SendIt : sendIt = NULL => wpc'[w] = wpc[w]
  BY <1>2, <1>3, BossAssumption
     DEF BossInv, Types, WorkerTypeOK, SendItStopped, Waited, Await
<1>5. Types'
  BY <1>2, <1>3, <1>4, BossAssumption DEF BossInv, Types, SendItStopped
<1>6. Spawned'
  BY <1>2, <1>3, <1>4 DEF BossInv, Types, Spawned, Known, SendItStopped
<1>7. Listed'
  <2>1. \A w \in Worker : wpc'[w] \in {wpc[w], "ended"}
    BY <1>2, BossAssumption DEF WorkerTypeOK, SendItStopped, Waited, Await
  <2>2. /\ sendIt' = NULL /\ registry' = {} /\ quitting' = quitting /\ unseen' = unseen
        /\ taken = {}
    BY DEF BossInv, Calls, SendItStopped
  <2>3. ASSUME NEW w \in Worker, Running(w)' PROVE w \in registry \cup quitting \cup unseen
    <3>1. Running(w) /\ w # sendIt
      BY <1>4, <2>1, <2>3, BossAssumption DEF Running
    <3> QED
      BY <2>2, <3>1 DEF BossInv, Listed, Known
  <2>4. pool' # "open" => registry \subseteq unseen
    BY <1>3 DEF BossInv, Listed
  <2> QED
    BY <1>3, <2>2, <2>3, <2>4 DEF Listed, Known
<1>8. Calls'
  BY <1>1, <1>2, <1>3 DEF BossInv, Types, Calls, SendItStopped
<1> QED
  BY <1>5, <1>6, <1>7, <1>8 DEF BossInv

LEMMA WorkerStoppedOK ==
  ASSUME BossInv, ProvisionInv', WorkerStopped
  PROVE  BossInv'
<1> DEFINE first == CHOOSE w \in taken : TRUE
<1>1. Ready' <=> Ready
  BY DEF WorkerStopped, provVars, Ready, Complete
<1>2. /\ pool \in {"none", "open"} /\ first \in taken /\ first \in Worker
      /\ taken \ {first} \in SUBSET (Worker \ SendIt) /\ WorkerTypeOK
  BY DEF BossInv, Types, Calls, WorkerStopped
<1>3. Waited(first) /\ StopNext(taken \ {first})
  BY DEF WorkerStopped
<1> HIDE DEF first
<1>4. /\ taken' = taken \ {first}
      /\ call' = IF taken \ {first} = {} THEN "close" ELSE "workers"
      /\ pool' = IF taken \ {first} = {} /\ pool = "open" THEN "closing" ELSE pool
      /\ stopping' \subseteq Worker /\ wake' \subseteq Worker /\ nudged' = nudged
  BY <1>2, <1>3, StopNextDoes
<1>5. /\ WorkerTypeOK'
      /\ \A w \in Worker : /\ wpc[w] = "ended" => wpc'[w] = "ended"
                           /\ wpc'[w] = "new" => wpc[w] = "new"
      /\ wpc'[first] = "ended"
  BY <1>2, <1>3, <1>4 DEF WorkerTypeOK, Waited, Await
<1>6. Types'
  BY <1>2, <1>4, <1>5 DEF BossInv, Types, WorkerStopped
<1>7. Spawned'
  BY <1>2, <1>4, <1>5, BossAssumption DEF BossInv, Types, Spawned, Known, WorkerStopped
<1>8. Listed'
  <2>1. \A w \in Worker : wpc'[w] \in {wpc[w], "ended"}
    BY <1>2, <1>3 DEF WorkerTypeOK, Waited, Await
  <2>2. /\ call = "workers" /\ UNCHANGED <<sendIt, registry, quitting, unseen>>
    BY DEF WorkerStopped
  <2>3. ASSUME NEW w \in Worker, Running(w)' PROVE w \in Known' \cup unseen
    <3>1. Running(w) /\ w # first
      BY <1>5, <2>1, <2>3 DEF Running
    <3> QED
      BY <1>4, <2>2, <3>1 DEF BossInv, Listed, Known
  <2> QED
    BY <1>4, <2>2, <2>3 DEF BossInv, Listed
<1>9. Calls'
  BY <1>1, <1>2, <1>4 DEF BossInv, Types, Calls, WorkerStopped
<1> QED
  BY <1>6, <1>7, <1>8, <1>9 DEF BossInv

LEMMA ClosedOK ==
  ASSUME BossInv, ProvisionInv', Closed
  PROVE  BossInv'
<1>1. Types' /\ Spawned' /\ Listed'
  BY DEF BossInv, Types, WorkerTypeOK, Spawned, Known, Running, Listed, Calls, Closed, workerVars
<1>2. Calls'
  BY DEF BossInv, Types, Calls, Closed
<1> QED
  BY <1>1, <1>2 DEF BossInv

(***************************************************************************)
(* work(), stop_worker(), notify_worker()                                  *)
(***************************************************************************)
LEMMA WorkOK ==
  ASSUME BossInv, ProvisionInv', NEW w \in Worker, Work(w)
  PROVE  BossInv'
<1>1. Ready' <=> Ready
  BY DEF Work, provVars, Ready, Complete
<1>2. /\ WorkerTypeOK' /\ wpc'[w] = "ready" /\ wpc[w] = "new" /\ w \notin SendIt
      /\ \A v \in Worker \ {w} : wpc'[v] = wpc[v]
  BY DEF BossInv, Types, WorkerTypeOK, Work, Spawn, Await
<1>3. w \notin Known
  BY <1>2 DEF BossInv, Spawned
<1>4. Types'
  BY <1>2, <1>3 DEF BossInv, Types, Known, Work
<1>5. Spawned'
  BY <1>2, BossAssumption DEF BossInv, Types, Spawned, Known, Work
<1>6. Listed'
  BY <1>2 DEF BossInv, Types, Calls, Running, Known, Listed, Work
<1>7. Calls'
  <2>1. Unused' = Unused
    BY <1>2, BossAssumption DEF Unused
  <2> QED
    BY <1>1, <2>1 DEF BossInv, Calls, Work
<1> QED
  BY <1>4, <1>5, <1>6, <1>7 DEF BossInv

LEMMA StopWorkerOK ==
  ASSUME BossInv, ProvisionInv', NEW w \in Worker, StopWorker(w)
  PROVE  BossInv'
<1>1. Ready' <=> Ready
  BY DEF StopWorker, provVars, Ready, Complete
<1>2. /\ stopping' \subseteq Worker /\ wake' \subseteq Worker
      /\ UNCHANGED <<wpc, nudged>>
  BY DEF BossInv, Types, WorkerTypeOK, StopWorker, Signal
<1>3. Types' /\ Spawned'
  BY <1>2 DEF BossInv, Types, WorkerTypeOK, Spawned, Known, StopWorker
<1>4. Listed'
  BY <1>2 DEF BossInv, Types, Running, Known, Listed, StopWorker
<1>5. Calls'
  BY <1>1, <1>2 DEF BossInv, Types, Calls, Unused, StopWorker
<1> QED
  BY <1>3, <1>4, <1>5 DEF BossInv

LEMMA WorkerQuitOK ==
  ASSUME BossInv, ProvisionInv', NEW w \in Worker, WorkerQuit(w)
  PROVE  BossInv'
<1>1. Ready' <=> Ready
  BY DEF WorkerQuit, provVars, Ready, Complete
<1>2. /\ WorkerTypeOK' /\ w \notin SendIt
      /\ \A v \in Worker : /\ wpc[v] = "ended" => wpc'[v] = "ended"
                           /\ wpc'[v] = "new" => wpc[v] = "new"
                           /\ v # w => wpc'[v] = wpc[v]
  BY DEF BossInv, Types, WorkerTypeOK, WorkerQuit, Waited, Await
<1>3. Types'
  BY <1>2 DEF BossInv, Types, WorkerQuit
<1>4. Spawned'
  BY <1>2, BossAssumption DEF BossInv, Types, Spawned, Known, WorkerQuit
<1>5. Listed'
  BY <1>2 DEF BossInv, Types, WorkerTypeOK, WorkerQuit, Waited, Await, Running, Known, Listed
<1>6. Calls'
  <2>1. Unused' = Unused
    BY <1>2, BossAssumption DEF Unused
  <2> QED
    BY <1>1, <2>1 DEF BossInv, Calls, WorkerQuit
<1> QED
  BY <1>3, <1>4, <1>5, <1>6 DEF BossInv

LEMMA NotifyWorkerOK ==
  ASSUME BossInv, ProvisionInv', NEW w \in Worker, NotifyWorker(w)
  PROVE  BossInv'
<1>1. Ready' <=> Ready
  BY DEF NotifyWorker, provVars, Ready, Complete
<1>2. /\ wake' \subseteq Worker /\ nudged' \subseteq Worker
      /\ UNCHANGED <<wpc, stopping, bossVars>>
  BY DEF BossInv, Types, WorkerTypeOK, NotifyWorker, Nudge
<1>3. Types' /\ Spawned' /\ Listed'
  BY <1>2 DEF BossInv, Types, WorkerTypeOK, Spawned, Known, Running, Listed, bossVars
<1>4. Calls'
  BY <1>1, <1>2 DEF BossInv, Calls, Unused, bossVars
<1> QED
  BY <1>3, <1>4 DEF BossInv

LEMMA WorkerRunsOK ==
  ASSUME BossInv, ProvisionInv', NEW w \in Worker, WorkerRuns(w)
  PROVE  BossInv'
<1>1. Ready' <=> Ready
  BY DEF WorkerRuns, provVars, Ready, Complete
<1>2. /\ WorkerTypeOK'
      /\ \A v \in Worker : /\ wpc[v] = "ended" => wpc'[v] = "ended"
                           /\ wpc[v] = "new" <=> wpc'[v] = "new"
  BY WorkersMove DEF WorkerRuns, Usable, BossInv, Types
<1>3. UNCHANGED bossVars
  BY DEF WorkerRuns
<1>4. Types'
  BY <1>2, <1>3 DEF BossInv, Types, bossVars
<1>5. Spawned'
  BY <1>2, <1>3, BossAssumption DEF BossInv, Types, Spawned, Known, bossVars
<1>6. Listed'
  BY <1>2, <1>3 DEF BossInv, Types, Running, Known, Listed, bossVars
<1>7. Calls'
  <2>1. Unused' = Unused
    BY <1>2, BossAssumption DEF Unused
  <2> QED
    BY <1>1, <1>3, <2>1 DEF BossInv, Calls, bossVars
<1> QED
  BY <1>4, <1>5, <1>6, <1>7 DEF BossInv

-----------------------------------------------------------------------------
LEMMA BossStepOK == BossInv /\ [Next]_vars => BossInv'
<1> SUFFICES ASSUME BossInv, [Next]_vars PROVE BossInv'
  OBVIOUS
<1>1. [ProvisionNext]_provVars
  BY StepsProvision
<1>2. ProvisionInv'
  BY <1>1, ProvisionStepOK DEF BossInv
<1>3. CASE Starting
  BY <1>1, <1>2, <1>3, StartOK, ProvisionedOK, QueueCreatedOK, QueueFailsOK DEF Starting
<1>4. CASE Stop
  BY <1>2, <1>4, StopOK
<1>5. CASE Stopping
  BY <1>2, <1>5, MaintenanceStoppedOK, CronStoppedOK, SendItStoppedOK, WorkerStoppedOK,
     ClosedOK DEF Stopping
<1>6. CASE \E l \in Loop : LoopEnds(l)
  BY <1>2, <1>6, LoopEndsOK
<1>7. CASE \E w \in Worker : \/ Work(w) \/ StopWorker(w) \/ WorkerQuit(w)
                             \/ NotifyWorker(w) \/ WorkerRuns(w)
  BY <1>2, <1>7, WorkOK, StopWorkerOK, WorkerQuitOK, NotifyWorkerOK, WorkerRunsOK
<1>8. CASE MyProvisioning \/ (\E n \in Node : PeerProvisioning(n)) \/ UNCHANGED vars
  <2>1. UNCHANGED <<workerVars, bossVars>>
    BY <1>8 DEF MyProvisioning, PeerProvisioning, vars
  <2> QED
    BY <1>1, <1>2, <2>1, FrameOK DEF BossInv, Types, bossVars
<1>9. CASE \E n \in Node : PeerStart(n)
  <2>1. starts' \in 0 .. MaxStarts
    BY <1>9, BossAssumption DEF BossInv, Types, PeerStart
  <2>2. UNCHANGED <<workerVars, pool, started, call, loop, loopStop, sendIt,
                    registry, taken, quitting, unseen>>
    BY <1>9 DEF PeerStart
  <2> QED
    BY <1>1, <1>2, <2>1, <2>2, FrameOK
<1> QED
  BY <1>3, <1>4, <1>5, <1>6, <1>7, <1>8, <1>9 DEF Next

LEMMA BossInvariant == Spec => []BossInv
BY BossInitOK, BossStepOK, PTL DEF Spec

-----------------------------------------------------------------------------
\* The processes of Boss provision as Provision says, so all of its theorems
\* hold of a start() in the middle of everything else the object does.
THEOREM BossProvisions == Spec => ProvisionSpec
<1>1. Init => ProvisionInit
  BY DEF Init
<1> QED
  BY <1>1, StepsProvision, PTL DEF Spec, ProvisionSpec

\* Every variable of start(), stop() and the workers stays within its type, and
\* no worker is stopped by two callers.
THEOREM BossTypesOK == Spec => []BossTypeOK
<1>1. BossInv => BossTypeOK
  BY DEF BossInv, ProvisionInv, Types, BossTypeOK
<1> QED
  BY <1>1, BossInvariant, PTL

\* Calls get through _require_started only with a pool and a complete schema of
\* this version behind them, always where DDL is transactional, and elsewhere but
\* for a start() that met a version table without its row.
THEOREM StartedMeansReady == Spec => []ReadyWhenStarted
<1>1. BossInv => ReadyWhenStarted
  BY DEF BossInv, ProvisionInv, ProvisionedComplete, Calls, Ready, Complete, ReadyWhenStarted
<1> QED
  BY <1>1, BossInvariant, PTL

\* When stop() begins to close the pool no worker runs, but for those a
\* stop_worker() is waiting for, those work() added since stop() took its list, and
\* send-it workers a second start() has replaced.
THEOREM PoolClosedLast == Spec => []WorkersEndBeforePool
<1>1. BossInv => WorkersEndBeforePool
  BY DEF BossInv, Listed, Running, Known, WorkersEndBeforePool
<1> QED
  BY <1>1, BossInvariant, PTL
=============================================================================
