----------------------------- MODULE WorkerLoop -----------------------------
(* The poll loop of Worker, from one await to the next, with the two events  *)
(* stop() and notify() set.  What its statements do to the tables is in      *)
(* JobQueue; here a worker only fetches, handles, settles or idles.          *)
EXTENDS Naturals

CONSTANT Worker

VARIABLES
  wpc,       \* wpc[w]: what the task of w awaits ("new": none, "ready": its first turn)
  stopping,  \* workers whose _stopping is set
  wake,      \* workers whose _wake is set
  nudged     \* history: workers notified since they last began a fetch

workerVars == <<wpc, stopping, wake, nudged>>

WorkerTypeOK ==
  /\ wpc \in [Worker -> {"new", "ready", "fetch", "handler", "settle", "idle", "ended"}]
  /\ stopping \subseteq Worker /\ wake \subseteq Worker /\ nudged \subseteq Worker

WorkerInit ==
  /\ wpc = [w \in Worker |-> "new"]
  /\ stopping = {} /\ wake = {} /\ nudged = {}

Await(w, what) == wpc' = [wpc EXCEPT ![w] = what]

\* The top of the loop.  Without a pool the fetch raises and the loop idles.
Top(w, poolOpen) ==
  IF w \in stopping
  THEN Await(w, "ended") /\ UNCHANGED <<stopping, wake, nudged>>
  ELSE /\ Await(w, IF poolOpen THEN "fetch" ELSE "idle")
       /\ wake' = wake \ {w} /\ nudged' = nudged \ {w}
       /\ UNCHANGED stopping

FirstTurn(w, poolOpen) == wpc[w] = "ready" /\ Top(w, poolOpen)

\* The fetch returned rows, or nothing, or raised.  A mutant: the event is
\* cleared once the fetch is over.
FetchReturnsClearing(w) ==
  /\ wpc[w] = "fetch"
  /\ Await(w, "handler") \/ Await(w, "idle")
  /\ wake' = wake \ {w} /\ UNCHANGED <<stopping, nudged>>

FetchReturns(w) ==
  /\ wpc[w] = "fetch"
  /\ Await(w, "handler") \/ Await(w, "idle")
  /\ UNCHANGED <<stopping, wake, nudged>>

\* The handler returned or raised; a settlement without a pool raises at once.
HandlerEnds(w, poolOpen) ==
  /\ wpc[w] = "handler"
  /\ IF poolOpen THEN Await(w, "settle") /\ UNCHANGED <<stopping, wake, nudged>>
     ELSE Top(w, poolOpen)

Settled(w, poolOpen) == wpc[w] = "settle" /\ Top(w, poolOpen)

Wakes(w, poolOpen) == wpc[w] = "idle" /\ w \in wake /\ Top(w, poolOpen)

PollElapses(w, poolOpen) == wpc[w] = "idle" /\ Top(w, poolOpen)

WorkerStep(w, poolOpen) ==
  \/ FirstTurn(w, poolOpen) \/ FetchReturns(w) \/ HandlerEnds(w, poolOpen)
  \/ Settled(w, poolOpen) \/ Wakes(w, poolOpen) \/ PollElapses(w, poolOpen)

\* start()
Spawn(w) == /\ wpc[w] = "new" /\ Await(w, "ready")
            /\ UNCHANGED <<stopping, wake, nudged>>

\* The first half of stop(): both events are set.
Signal(W) == /\ stopping' = stopping \cup W /\ wake' = wake \cup W
             /\ UNCHANGED <<wpc, nudged>>

\* notify()
Nudge(w) == /\ wake' = wake \cup {w} /\ nudged' = nudged \cup {w}
            /\ UNCHANGED <<wpc, stopping>>

\* Everything the loop does without waiting for a handler or for the poll delay.
Prompt(w, poolOpen) ==
  \/ FirstTurn(w, poolOpen) \/ FetchReturns(w)
  \/ Settled(w, poolOpen) \/ Wakes(w, poolOpen)
=============================================================================
