----------------------------- MODULE MCExercises -----------------------------
(* Small instances of the concurrent programs of the exercises: the fixed-size *)
(* queue, the exchanges and the sorting threads.  A behaviour is one of them.  *)
EXTENDS FSQ, Exchanges, MTSort, TLC

VARIABLE focus   \* the program that runs

mcVars == <<vars, xVars, mtVars, focus>>

\* The programs that do not run have one initial state.
MCInit ==
  /\ focus \in {"fsq", "exchange", "mtsort"}
  /\ Init
  /\ XInit /\ (focus # "exchange" => program = "ex1")
  /\ MTInit /\ (focus # "mtsort" => mtSort = "words" /\ mtGiven = << >>)

MCNext ==
  /\ UNCHANGED focus
  /\ \/ focus = "fsq" /\ Next /\ UNCHANGED <<xVars, mtVars>>
     \/ focus = "exchange" /\ XNext /\ UNCHANGED <<vars, mtVars>>
     \/ focus = "mtsort" /\ MTNext /\ UNCHANGED <<vars, xVars>>

MCSpec == MCInit /\ [][MCNext]_mcVars

Symmetry == Permutations(Consumers)

\* In the exchanges what is sent arrives, there is one ball, and no identifier is
\* given twice.
ExchangesHold == MessagesArrive /\ OneBall /\ UIDsDiffer

\* The threads that should end do, and those that sort have sorted.
ProgramsEnd == ThreadsEnd /\ ThreadsSort

=============================================================================
