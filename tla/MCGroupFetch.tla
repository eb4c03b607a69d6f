---------------------------- MODULE MCGroupFetch ----------------------------
(* A small instance of GroupFetch for TLC: four jobs in the order of the     *)
(* claim, the first three of one group, enough to fill a batch of two beside *)
(* an active one, the last of none; the ids run the other way.               *)
EXTENDS GroupFetch

Groups == [j \in JobId |-> IF j <= 3 THEN "a" ELSE NoGroup]

Reversed == [j \in JobId |-> 10 - j]
=============================================================================
