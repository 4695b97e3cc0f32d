----------------------------- MODULE MCTransfer ------------------------------
(* Small instances of Transfer: amounts that are refused, that a user has    *)
(* once, and that a user gets only from another transfer.                    *)
EXTENDS Transfer, TLC

Symmetry == Permutations(Requests)

=============================================================================
