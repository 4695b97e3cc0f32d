---------------------------- MODULE MCThreadPool ----------------------------
(* Small instances of ThreadPool: two or three workers, two or three tasks  *)
(* of different priorities.                                                 *)
EXTENDS ThreadPool, TLC

CONSTANTS w1, w2, w3, t1, t2, t3

PriorityOfTasks == [t \in Tasks |-> IF t = t1 THEN LOW ELSE HIGH]

Symmetry == Permutations(Workers)

=============================================================================
