------------------------------- MODULE Ledger --------------------------------
(***************************************************************************)
(* What the money transfer of the bank server promises: a transfer is one  *)
(* step that moves the amount from a sender who has it to a receiver and   *)
(* writes the next row of the ledger, and nothing else ever touches a      *)
(* balance or the ledger.  Sender and receiver may be the same user: the   *)
(* check for that compares the addresses before they are trimmed.          *)
(***************************************************************************)
EXTENDS Integers

CONSTANTS
  Users,
  InitialBalance

VARIABLES
  balance,
  lastId,    \* the id of the last row, 0 if there is none
  ledger     \* the rows [id, from, to, amount]

vars == <<balance, lastId, ledger>>

Transfer(from, to, amount) ==
  /\ amount > 0
  /\ balance[from] >= amount
  /\ balance' = [balance EXCEPT ![from] = @ - amount, ![to] = @ + amount]
  /\ lastId' = lastId + 1
  /\ ledger' = ledger \union
       {[id |-> lastId + 1, from |-> from, to |-> to, amount |-> amount]}

Init ==
  /\ balance = [u \in Users |-> InitialBalance]
  /\ lastId = 0
  /\ ledger = {}

Next ==
  \E from, to \in Users :
    \E amount \in 1 .. balance[from] : Transfer(from, to, amount)

Spec == Init /\ [][Next]_vars

=============================================================================
