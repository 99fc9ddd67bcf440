------------------------------ MODULE MCWorker ------------------------------
(* Worker for TLC: which jobs do which.                                      *)
EXTENDS Worker

CONSTANTS j1, j2

\* One job does the others, with the Result of one or with a Group.
Fork == [j \in Jobs |-> IF j = j1 THEN Jobs \ {j1} ELSE {}]

\* A worker that is pre-warmed and times its jobs out, and the default.
TimedOrDefault ==
  {[timed |-> TRUE, preWarm |-> TRUE], [timed |-> FALSE, preWarm |-> FALSE]}
=============================================================================
