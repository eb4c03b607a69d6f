--------------------------- MODULE MCPolicyFetch ---------------------------
(* A small instance of PolicyFetch for TLC: two jobs of one key around one   *)
(* of another.                                                               *)
EXTENDS PolicyFetch

Keys == [j \in JobId |-> IF j = 2 THEN "b" ELSE "a"]

\* The first job may be brought back, or none.
FirstOnce == [j \in JobId |-> IF j = 1 THEN 1 ELSE 0]
NoRecalls == [j \in JobId |-> 0]
=============================================================================
