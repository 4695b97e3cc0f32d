-------------------------------- MODULE Heap ---------------------------------
(***************************************************************************)
(* The heap on its vector (ds/src/heap.c, pq.c, vector.c), driven by any   *)
(* sequence of calls.  An item is <<key, name>>; items of equal keys are   *)
(* told apart by their names.  The vector doubles its capacity when it is  *)
(* full and halves it when a quarter is used.  The build is one with       *)
(* asserts: a false one ends the program.                                  *)
(***************************************************************************)
EXTENDS Integers, Sequences, SequencesExt

CONSTANTS
  KeySet, Names,      \* items are made of these
  DEF_CAPACITY,       \* capacity the heap asks for
  DEFAULT_CAPACITY    \* capacity a vector has at least

ASSUME HeapAssumption ==
  /\ KeySet \subseteq Int /\ Names # {}
  /\ DEF_CAPACITY \in Nat /\ DEFAULT_CAPACITY \in Nat \ {0}

VARIABLES
  vec,       \* the elements of the vector
  capacity,  \* of its buffer, in elements
  ret        \* the last call and what it returned

heapVars == <<vec, capacity, ret>>

Items == KeySet \X Names
Key(x) == x[1]
Compare(x, y) == x[1] - y[1]

VecOps == INSTANCE HeapOps

\* VectorCreate: the capacity of a new vector.
VectorCreate(n) == IF n < DEFAULT_CAPACITY THEN DEFAULT_CAPACITY ELSE n

\* VectorReserve: the capacity afterwards, if realloc succeeds.
VectorReserve(n) == IF n < DEFAULT_CAPACITY THEN DEFAULT_CAPACITY ELSE n

\* VectorPushBack makes room.
Grow == capacity' = IF Len(vec) = capacity THEN VectorReserve(2 * capacity) ELSE capacity

\* Mutant: the size is compared with half of the capacity.
MutShrunk(c, s) == IF c \div 2 <= s THEN VectorReserve(c \div 2) ELSE c

\* VectorPopBack gives memory back, before the size s goes down.
Shrunk(c, s) == IF c \div 4 = s THEN VectorReserve(c \div 2) ELSE c

Shrink == capacity' = Shrunk(capacity, Len(vec))

HeapPush(x) ==
  /\ x \notin ToSet(vec)
  /\ vec' = VecOps!Push(vec, x)
  /\ Grow
  /\ ret' = <<"push", x>>

\* assert(0): the process ends.
Aborts == ret' = <<"assert">> /\ UNCHANGED <<vec, capacity>>

\* HeapPeek and PQPeek, which assert that there is an item.
HeapPeek ==
  \/ vec = << >> /\ Aborts
  \/ vec # << >> /\ ret' = <<"peek", Head(vec)>> /\ UNCHANGED <<vec, capacity>>

\* HeapPop, and PQDequeue, which peeks first; both assert that there is one.
HeapPop ==
  \/ vec = << >> /\ Aborts
  \/ /\ vec # << >>
     /\ vec' = VecOps!Pop(vec)
     /\ Shrink
     /\ ret' = <<"pop", Head(vec)>>

\* HeapRemove, given what is_match answers for each element; 0 is a match.
RemoveMatch(results, call) ==
  LET i == VecOps!RemoveIndex(results) IN
  IF i = 0
  THEN ret' = call /\ UNCHANGED <<vec, capacity>>
  ELSE /\ vec' = VecOps!Removed(vec, i)
       /\ Shrink
       /\ ret' = Append(call, vec[i])

\* HeapRemove with a comparison, as heap.h wants it.
HeapRemove(k) == RemoveMatch([j \in DOMAIN vec |-> Key(vec[j]) - k], <<"remove", k>>)

\* PQErase with a predicate, as pq.h wants it: 1 for an item of key k.  It goes to
\* HeapRemove as it is, which takes the first item that is not one.
PQErase(k) == RemoveMatch([j \in DOMAIN vec |-> IF Key(vec[j]) = k THEN 1 ELSE 0], <<"erase", k>>)

\* One turn of PQClear's loop, on capacity c and size s.
PopTurn(v) == IF v.s > 0 THEN [c |-> Shrunk(v.c, v.s), s |-> v.s - 1] ELSE v

\* The capacity after popping all s elements.
ShrinkAll(c, s) ==
  LET turn[n \in Nat] == IF n = 0 THEN [c |-> c, s |-> s] ELSE PopTurn(turn[n - 1])
  IN  turn[s].c

\* PQClear dequeues until the queue is empty.
PQClear ==
  /\ vec # << >>
  /\ vec' = << >>
  /\ capacity' = ShrinkAll(capacity, Len(vec))
  /\ ret' = <<"clear">>

HeapInit ==
  /\ vec = << >>
  /\ ret = <<"create">>
  /\ capacity = VectorCreate(DEF_CAPACITY)

HeapNext ==
  /\ ret # <<"assert">>
  /\ \/ \E x \in Items : HeapPush(x)
     \/ HeapPeek \/ HeapPop
     \/ \E k \in KeySet : HeapRemove(k) \/ PQErase(k)
     \/ PQClear

HeapSpec == HeapInit /\ [][HeapNext]_heapVars

-----------------------------------------------------------------------------
(* Properties.                                                              *)

\* The elements always fit into the buffer, however growing by pushes and
\* giving back by pops, removals and PQClear alternate.
BufferFits ==
  /\ Len(vec) <= capacity
  /\ capacity >= DEFAULT_CAPACITY

Queue == INSTANCE PriorityQueue WITH items <- ToSet(vec)

\* The heap implements the priority queue: a peek and a pop yield a greatest item,
\* HeapRemove an item of the key asked for, PQErase one that its predicate rejects
\* (pq.h: one that it accepts), and nothing else gets lost.  A peek or a pop of an
\* empty queue ends the program (pq.h and heap.h: it gives NULL or does nothing).
ImplementsQueue == Queue!Spec

=============================================================================
