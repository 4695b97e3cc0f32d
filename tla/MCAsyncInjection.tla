--------------------------- MODULE MCAsyncInjection --------------------------
(* Small instances of AsyncInjection: objects of different intervals.       *)
EXTENDS AsyncInjection, TLC

CONSTANTS t1, t2, t3

Delays == [t \in Tasks |-> CASE t = t1 -> 0 [] t = t2 -> 1 [] t = t3 -> 3]

Symmetry == Permutations(TimerThreads)

=============================================================================
