----------------------------- MODULE MCScheduler -----------------------------
(* Small instances of Scheduler for TLC.                                     *)
EXTENDS Scheduler

CONSTANTS n1, n2

\* Every schedule fires once, when the loops have ticked for a whole window.
Firings == [s \in Schedule |-> {Window}]

EveryWindow == [s \in Schedule |-> {0, Window}]

OneSlow == [n \in Node |-> IF n = n2 THEN -1 ELSE 0]

\* The instance has the default interval, which is the window, or it is one of
\* those the theorem FiringsCaught is about.
ASSUME InstanceWellTimed == TickInterval = Window \/ WellTimed(n1, 1, 0)
=============================================================================
