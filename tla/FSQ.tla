--------------------------------- MODULE FSQ ---------------------------------
(***************************************************************************)
(* The thread-safe fixed-size queue of the producer/consumer programs      *)
(* (producer_consumer/fsq.c) on the singly linked list with a dummy at its *)
(* end (ds/src/sll.c), with ex5.c's producers and consumers.               *)
(*                                                                         *)
(* Producers hold write_lock, consumers hold read_lock and take write_lock *)
(* as well only when they see one node.  So the list is modelled node by   *)
(* node: an insertion fills the dummy and appends a new one, a removal     *)
(* copies the second node into the first and frees the second.  malloc may *)
(* hand out a freed node again at once.                                    *)
(***************************************************************************)
EXTENDS Integers, Sequences, SequencesExt, FiniteSets

CONSTANTS
  Producers, Consumers,
  NumItems,    \* items each thread enqueues or dequeues (NUM_ITEMS)
  Capacity,
  Nodes,       \* addresses malloc may return
  MaxFaults    \* bound on mallocs that fail

NULL == 0
NoItem == << >>

\* A thread is a producer or a consumer.
ASSUME FSQAssumption ==
  /\ Nodes \subseteq Nat \ {NULL} /\ Nodes # {}
  /\ IsFiniteSet(Producers) /\ IsFiniteSet(Consumers) /\ Producers \intersect Consumers = {}
  /\ NumItems \in Nat /\ MaxFaults \in Nat
  /\ Capacity \in Nat \ {0}

VARIABLES
  data, next,   \* of the nodes
  allocated,    \* nodes that are not free
  head, tail,   \* of the list
  enqueue_sem, dequeue_sem,
  write_lock, read_lock,   \* their holders: a set
  pc,
  iter,         \* where a producer inserts; what SLLInsert returned
  node,         \* the node it has allocated; NULL if malloc failed
  freed,        \* the node a consumer is about to free
  sent,         \* how many items a producer has begun to enqueue
  taken,        \* how many items a consumer has begun to dequeue
  chain,        \* the nodes from head to the dummy, as they were linked and removed
  inserted,     \* all items in the order of their insertion
  dequeued,     \* all items in the order of their removal
  faults

listVars == <<data, next, allocated, head, tail>>
lockVars == <<write_lock, read_lock>>
semVars == <<enqueue_sem, dequeue_sem>>
threadVars == <<pc, iter, node, freed, sent, taken>>
ghostVars == <<chain, inserted, dequeued>>
vars == <<listVars, lockVars, semVars, threadVars, ghostVars, faults>>

Threads == Producers \union Consumers
Item(p) == <<p, sent[p]>>
Goto(t, l) == pc' = [pc EXCEPT ![t] = l]

-----------------------------------------------------------------------------
(* FSQEnqueue.                                                              *)

SemWaitEnqueue(p) ==
  /\ pc[p] = "idle" /\ sent[p] < NumItems
  /\ enqueue_sem > 0
  /\ enqueue_sem' = enqueue_sem - 1
  /\ sent' = [sent EXCEPT ![p] = @ + 1]
  /\ Goto(p, "lock")
  /\ UNCHANGED <<listVars, lockVars, dequeue_sem, iter, node, taken, freed, ghostVars, faults>>

\* The lock, SLLEnd and, in SLLInsert, the malloc of the new dummy, which
\* becomes a copy of the old one.
SLLInsert(p) ==
  /\ pc[p] = "lock" /\ write_lock = {}
  /\ write_lock' = {p}
  /\ iter' = [iter EXCEPT ![p] = tail]
  /\ \E n \in Nodes \ allocated :
       /\ allocated' = allocated \union {n}
       /\ node' = [node EXCEPT ![p] = n]
       /\ data' = [data EXCEPT ![n] = data[tail]]
       /\ next' = [next EXCEPT ![n] = next[tail]]
  /\ Goto(p, "link")
  /\ UNCHANGED <<head, tail, read_lock, semVars, sent, taken, freed, ghostVars, faults>>

\* The old dummy gets its successor and the item.
Link(p) ==
  /\ pc[p] = "link"
  /\ next' = [next EXCEPT ![iter[p]] = node[p]]
  /\ data' = [data EXCEPT ![iter[p]] = Item(p)]
  /\ chain' = Append(chain, node[p])
  /\ inserted' = Append(inserted, Item(p))
  /\ Goto(p, "tail")
  /\ UNCHANGED <<allocated, head, tail, lockVars, semVars, iter, node, sent, taken, freed, dequeued, faults>>

\* malloc fails: SLLInsert returns the dummy.
SLLInsertFails(p) ==
  /\ pc[p] = "lock" /\ write_lock = {}
  /\ faults < MaxFaults
  /\ faults' = faults + 1
  /\ iter' = [iter EXCEPT ![p] = tail]
  /\ node' = [node EXCEPT ![p] = NULL]
  /\ Goto(p, "compare")
  /\ UNCHANGED <<listVars, lockVars, semVars, sent, taken, freed, ghostVars>>

\* The last write of SLLInsert, and the unlock.
SetTail(p) ==
  /\ pc[p] = "tail"
  /\ tail' = IF next[node[p]] = NULL THEN node[p] ELSE tail
  /\ write_lock' = {}
  /\ Goto(p, "compare")
  /\ UNCHANGED <<data, next, allocated, head, read_lock, semVars, iter, node, sent, taken, freed,
                 ghostVars, faults>>

\* SLLIsEqual(SLLEnd(list), new_node_iter), after the unlock.
Compare(p) ==
  /\ pc[p] = "compare"
  /\ IF iter[p] = tail
     THEN Goto(p, "undo")
     ELSE Goto(p, "post")
  /\ UNCHANGED <<listVars, lockVars, semVars, iter, node, sent, taken, freed, ghostVars, faults>>

PostDequeue(p) ==
  /\ pc[p] = "post"
  /\ dequeue_sem' = dequeue_sem + 1
  /\ Goto(p, "idle")
  /\ UNCHANGED <<listVars, lockVars, enqueue_sem, iter, node, sent, taken, freed, ghostVars, faults>>

\* Mutant: a failed insertion keeps its permit.
MutUndo(p) ==
  /\ pc[p] = "undo"
  /\ Goto(p, "idle")
  /\ UNCHANGED <<listVars, lockVars, semVars, iter, node, sent, taken, freed, ghostVars, faults>>

Undo(p) ==
  /\ pc[p] = "undo"
  /\ enqueue_sem' = enqueue_sem + 1
  /\ Goto(p, "idle")
  /\ UNCHANGED <<listVars, lockVars, dequeue_sem, iter, node, sent, taken, freed, ghostVars, faults>>

-----------------------------------------------------------------------------
(* FSQDequeue.                                                              *)

SemWaitDequeue(c) ==
  /\ pc[c] = "idle" /\ taken[c] < NumItems
  /\ dequeue_sem > 0
  /\ dequeue_sem' = dequeue_sem - 1
  /\ taken' = [taken EXCEPT ![c] = @ + 1]
  /\ Goto(c, "lock")
  /\ UNCHANGED <<listVars, lockVars, enqueue_sem, iter, node, sent, freed, ghostVars, faults>>

\* Mutant: write_lock is never taken.
MutIsSingleton == FALSE

\* is_singleton
IsSingleton == next[head] = tail

LockRead(c) ==
  /\ pc[c] = "lock" /\ read_lock = {}
  /\ read_lock' = {c}
  /\ Goto(c, IF IsSingleton THEN "lockWrite" ELSE "remove")
  /\ UNCHANGED <<listVars, write_lock, semVars, iter, node, sent, taken, freed, ghostVars, faults>>

LockWrite(c) ==
  /\ pc[c] = "lockWrite" /\ write_lock = {}
  /\ write_lock' = {c}
  /\ Goto(c, "remove")
  /\ UNCHANGED <<listVars, read_lock, semVars, iter, node, sent, taken, freed, ghostVars, faults>>

\* The copies of SLLRemove(SLLBegin): the second node goes into the first.
SLLRemove(c) ==
  LET tmp == next[head] IN
  /\ pc[c] = "remove" /\ tmp # NULL
  /\ dequeued' = Append(dequeued, data[head])
  /\ data' = [data EXCEPT ![head] = data[tmp]]
  /\ next' = [next EXCEPT ![head] = next[tmp]]
  /\ freed' = [freed EXCEPT ![c] = tmp]
  /\ chain' = RemoveAt(chain, 2)
  /\ Goto(c, "free")
  /\ UNCHANGED <<allocated, head, tail, lockVars, semVars, iter, node, sent, taken, inserted, faults>>

\* Mutant: the tail is not moved back to the node that becomes the dummy.
MutNewTail == tail

\* Where tail points after SLLRemove.
NewTail == IF next[head] = NULL THEN head ELSE tail

\* The rest of SLLRemove, and the unlocks.
Free(c) ==
  /\ pc[c] = "free"
  /\ allocated' = allocated \ {freed[c]}
  /\ freed' = [freed EXCEPT ![c] = NULL]
  /\ tail' = NewTail
  /\ read_lock' = {}
  /\ write_lock' = write_lock \ {c}
  /\ Goto(c, "post")
  /\ UNCHANGED <<data, next, head, semVars, iter, node, sent, taken, ghostVars, faults>>

\* SLLRemove on an empty list: its assert ends the process.
SLLRemoveAborts(c) ==
  /\ pc[c] = "remove" /\ next[head] = NULL
  /\ pc' = [t \in Threads |-> "aborted"]
  /\ UNCHANGED <<listVars, lockVars, semVars, iter, node, sent, taken, freed, ghostVars, faults>>

PostEnqueue(c) ==
  /\ pc[c] = "post"
  /\ enqueue_sem' = enqueue_sem + 1
  /\ Goto(c, "idle")
  /\ UNCHANGED <<listVars, lockVars, dequeue_sem, iter, node, sent, taken, freed, ghostVars, faults>>

-----------------------------------------------------------------------------
SomeNode == CHOOSE n \in Nodes : TRUE

\* FSQCreate and SLLCreate.
Init ==
  /\ data = [n \in Nodes |-> NoItem]
  /\ next = [n \in Nodes |-> NULL]
  /\ allocated = {SomeNode}
  /\ head = SomeNode /\ tail = SomeNode
  /\ enqueue_sem = Capacity /\ dequeue_sem = 0
  /\ write_lock = {} /\ read_lock = {}
  /\ pc = [t \in Threads |-> "idle"]
  /\ iter = [p \in Producers |-> NULL]
  /\ node = [p \in Producers |-> NULL]
  /\ freed = [c \in Consumers |-> NULL]
  /\ sent = [p \in Producers |-> 0]
  /\ taken = [c \in Consumers |-> 0]
  /\ chain = <<SomeNode>> /\ inserted = << >> /\ dequeued = << >>
  /\ faults = 0

FSQEnqueue(p) ==
  SemWaitEnqueue(p) \/ SLLInsert(p) \/ SLLInsertFails(p) \/ Link(p)
    \/ SetTail(p) \/ Compare(p) \/ PostDequeue(p) \/ Undo(p)

FSQDequeue(c) ==
  SemWaitDequeue(c) \/ LockRead(c) \/ LockWrite(c) \/ SLLRemove(c) \/ SLLRemoveAborts(c)
    \/ Free(c) \/ PostEnqueue(c)

Next ==
  \/ \E p \in Producers : FSQEnqueue(p)
  \/ \E c \in Consumers : FSQDequeue(c)

Spec == Init /\ [][Next]_vars

-----------------------------------------------------------------------------
(* Properties.                                                              *)

\* The items in the list, in order.
Contents == [i \in 1 .. Len(chain) - 1 |-> data[chain[i]]]

\* In memory the nodes of the list are a chain from head to the dummy.
IsChain ==
  /\ head = Head(chain) /\ next[Last(chain)] = NULL
  /\ \A i \in 1 .. Len(chain) - 1 : next[chain[i]] = chain[i + 1]

\* A consumer may be at work next to a producer because what they touch is
\* disjoint.  As long as no malloc has failed, the list stays a chain of
\* allocated nodes from head to the dummy, every other allocated node is the
\* one a thread is just adding or freeing, tail is the dummy unless such a
\* thread is about to move it, a consumer that got through the semaphore
\* finds an item to remove, and every item comes out once, in the order in
\* which the items went in.
ListIntact ==
  faults = 0 =>
    /\ IsInjective(chain) /\ IsChain
    /\ allocated = ToSet(chain) \union {node[p] : p \in {q \in Producers : pc[q] = "link"}}
                               \union ({freed[c] : c \in Consumers} \ {NULL})
    /\ \/ tail = Last(chain)
       \/ \E p \in Producers : pc[p] = "tail" /\ node[p] = Last(chain)
       \/ \E c \in Consumers : pc[c] = "free" /\ head = Last(chain)
    /\ \A c \in Consumers : pc[c] = "remove" => next[head] # NULL
    /\ inserted = dequeued \o Contents

\* Even when mallocs fail, permits are neither lost nor made: each is in one of
\* the semaphores or with one thread inside FSQEnqueue or FSQDequeue.
PermitsConserved ==
  \/ \A t \in Threads : pc[t] = "aborted"
  \/ enqueue_sem + dequeue_sem + Cardinality({t \in Threads : pc[t] # "idle"}) = Capacity

=============================================================================
