---------------------------- MODULE PriorityQueue ----------------------------
(***************************************************************************)
(* What the heap and the queue do for their users: a set of items; a peek  *)
(* and a pop yield an item of the highest key and abort without one, a     *)
(* removal takes one item that is_match answers 0 for, if there is one.    *)
(* That is what heap.h promises; pq.h has PQErase take an item for which   *)
(* the answer is not 0, and a peek or pop of an empty queue return NULL.   *)
(***************************************************************************)
EXTENDS Integers, Sequences

CONSTANTS Items, Key(_)
VARIABLES
  items,
  ret      \* the last call and what it returned

vars == <<items, ret>>

Push(x) ==
  /\ x \notin items
  /\ items' = items \union {x}
  /\ ret' = <<"push", x>>

Aborts == items = {} /\ ret' = <<"assert">> /\ UNCHANGED items

Peek ==
  \E x \in items :
    /\ \A y \in items : Key(y) <= Key(x)
    /\ ret' = <<"peek", x>>
    /\ UNCHANGED items

Pop ==
  \E x \in items :
    /\ \A y \in items : Key(y) <= Key(x)
    /\ items' = items \ {x}
    /\ ret' = <<"pop", x>>

\* A call that takes one of the items in zeros.
TakeOne(zeros, call) ==
  \/ \E x \in zeros : items' = items \ {x} /\ ret' = Append(call, x)
  \/ zeros = {} /\ ret' = call /\ UNCHANGED items

Remove(k) == TakeOne({x \in items : Key(x) = k}, <<"remove", k>>)

\* With a predicate the answer is 0 for the items that do not match.
Erase(k) == TakeOne({x \in items : Key(x) # k}, <<"erase", k>>)

Clear == items' = {} /\ ret' = <<"clear">>

Init == items = {} /\ ret = <<"create">>
Next == (\E x \in Items : Push(x) \/ Remove(Key(x)) \/ Erase(Key(x))) \/ Peek \/ Pop \/ Aborts \/ Clear
Spec == Init /\ [][Next]_vars

=============================================================================
