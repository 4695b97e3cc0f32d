--------------------------- MODULE ExercisesProofs ---------------------------
(***************************************************************************)
(* The fixed-size queue of the producer/consumer programs, for any number  *)
(* of producers and consumers, any capacity and any set of addresses; and  *)
(* the exchanges of the exercises, for any number of threads, messages and *)
(* processes.                                                              *)
(***************************************************************************)
EXTENDS MCExercises, FiniteSetTheorems, SequenceTheorems, TLAPS

Labels == {"idle", "lock", "link", "tail", "compare", "post", "undo",
           "lockWrite", "remove", "free", "aborted"}

-----------------------------------------------------------------------------
(* Permits.                                                                 *)

PermitsInv ==
  /\ pc \in [Threads -> Labels]
  /\ enqueue_sem \in Nat /\ dequeue_sem \in Nat
  /\ PermitsConserved

\* How many of the threads T are at one of the labels L when pc is h.
CountAt(T, L, h) == Cardinality({x \in T : h[x] \in L})

\* The count changes with the labels of the one thread that moves.
LEMMA CountMoves ==
  ASSUME NEW T, IsFiniteSet(T), NEW L, NEW f, NEW g, NEW t, \A x \in T \ {t} : g[x] = f[x]
  PROVE  /\ CountAt(T, L, f) \in Nat /\ CountAt(T, L, g) \in Nat
         /\ t \in T /\ f[t] \in L => CountAt(T, L, f) > 0
         /\ t \notin T \/ (f[t] \in L <=> g[t] \in L) => CountAt(T, L, g) = CountAt(T, L, f)
         /\ t \in T /\ f[t] \in L /\ g[t] \notin L => CountAt(T, L, g) = CountAt(T, L, f) - 1
         /\ t \in T /\ f[t] \notin L /\ g[t] \in L => CountAt(T, L, g) = CountAt(T, L, f) + 1
<1> DEFINE S(h) == {x \in T : h[x] \in L}
<1>1. S(f) \in SUBSET T /\ S(g) \in SUBSET T
  OBVIOUS
<1>2. IsFiniteSet(S(f)) /\ IsFiniteSet(S(g)) /\ Cardinality(S(f)) \in Nat /\ Cardinality(S(g)) \in Nat
  BY <1>1, FS_Subset, FS_CardinalityType
<1>4. t \notin T \/ (f[t] \in L <=> g[t] \in L) => S(g) = S(f)
  OBVIOUS
<1>5. t \in T /\ f[t] \in L => t \in S(f)
  OBVIOUS
<1>6. t \in T /\ f[t] \in L /\ g[t] \notin L => S(g) = S(f) \ {t}
  OBVIOUS
<1>7. t \in T /\ f[t] \notin L /\ g[t] \in L => S(g) = S(f) \union {t} /\ t \notin S(f)
  OBVIOUS
<1>8. CountAt(T, L, f) = Cardinality(S(f)) /\ CountAt(T, L, g) = Cardinality(S(g))
  BY DEF CountAt
<1> HIDE DEF S
<1>9. t \in S(f) => Cardinality(S(f) \ {t}) = Cardinality(S(f)) - 1 /\ Cardinality(S(f) \ {t}) \in Nat
  BY <1>2, FS_RemoveElement, FS_CardinalityType
<1>10. t \in S(f) => Cardinality(S(f)) > 0
  BY <1>2, <1>9
<1>11. t \notin S(f) => Cardinality(S(f) \union {t}) = Cardinality(S(f)) + 1
  BY <1>2, FS_AddElement
<1>12. t \notin T \/ (f[t] \in L <=> g[t] \in L) => Cardinality(S(g)) = Cardinality(S(f))
  BY <1>4, Zenon
<1>13. t \in T /\ f[t] \in L /\ g[t] \notin L => Cardinality(S(g)) = Cardinality(S(f)) - 1
  BY <1>5, <1>6, <1>9, Zenon
<1>14. t \in T /\ f[t] \notin L /\ g[t] \in L => Cardinality(S(g)) = Cardinality(S(f)) + 1
  BY <1>7, <1>11, Zenon
<1> QED
  BY <1>2, <1>5, <1>8, <1>10, <1>12, <1>13, <1>14, Zenon

\* The same of the threads of the queue.
LEMMA CountMove ==
  ASSUME NEW T, IsFiniteSet(T), T \subseteq Threads, NEW L, NEW f \in [Threads -> Labels],
         NEW g \in [Threads -> Labels],
         NEW t \in Threads, \A x \in Threads \ {t} : g[x] = f[x]
  PROVE  /\ CountAt(T, L, f) \in Nat /\ CountAt(T, L, g) \in Nat
         /\ t \in T /\ f[t] \in L => CountAt(T, L, f) > 0
         /\ t \notin T \/ (f[t] \in L <=> g[t] \in L) => CountAt(T, L, g) = CountAt(T, L, f)
         /\ t \in T /\ f[t] \in L /\ g[t] \notin L => CountAt(T, L, g) = CountAt(T, L, f) - 1
         /\ t \in T /\ f[t] \notin L /\ g[t] \in L => CountAt(T, L, g) = CountAt(T, L, f) + 1
<1>1. \A x \in T \ {t} : g[x] = f[x]
  OBVIOUS
<1> QED
  BY <1>1, CountMoves

\* The threads are finitely many.
LEMMA FiniteThreads ==
  IsFiniteSet(Threads) /\ IsFiniteSet(Producers) /\ IsFiniteSet(Consumers)
BY FSQAssumption, FS_Union DEF FSQAssumption, Threads

\* How many threads are inside FSQEnqueue or FSQDequeue when pc is h.
Inside(h) == Cardinality({x \in Threads : h[x] # "idle"})

\* The count changes when a thread comes in or leaves.
LEMMA CountInside ==
  ASSUME NEW f \in [Threads -> Labels], NEW g \in [Threads -> Labels],
         NEW t \in Threads, \A x \in Threads \ {t} : g[x] = f[x]
  PROVE  /\ Inside(f) \in Nat /\ Inside(g) \in Nat
         /\ f[t] = "idle" /\ g[t] # "idle" => Inside(g) = Inside(f) + 1
         /\ f[t] # "idle" /\ g[t] = "idle" => Inside(g) = Inside(f) - 1
         /\ f[t] # "idle" /\ g[t] # "idle" => Inside(g) = Inside(f)
<1>1. PICK Busy : Busy = Labels \ {"idle"}
  OBVIOUS
<1>2. /\ {x \in Threads : f[x] # "idle"} = {x \in Threads : f[x] \in Busy}
      /\ {x \in Threads : g[x] # "idle"} = {x \in Threads : g[x] \in Busy}
  BY <1>1
<1>3. (f[t] \in Busy <=> f[t] # "idle") /\ (g[t] \in Busy <=> g[t] # "idle")
  BY <1>1
<1>4. Inside(f) = CountAt(Threads, Busy, f) /\ Inside(g) = CountAt(Threads, Busy, g)
  BY <1>2, Zenon DEF Inside, CountAt
<1>5. CountAt(Threads, Busy, f) \in Nat /\ CountAt(Threads, Busy, g) \in Nat
  BY FiniteThreads, CountMove
<1>6. /\ f[t] \in Busy /\ g[t] \in Busy => CountAt(Threads, Busy, g) = CountAt(Threads, Busy, f)
      /\ f[t] \in Busy /\ g[t] \notin Busy => CountAt(Threads, Busy, g) = CountAt(Threads, Busy, f) - 1
      /\ f[t] \notin Busy /\ g[t] \in Busy => CountAt(Threads, Busy, g) = CountAt(Threads, Busy, f) + 1
  BY FiniteThreads, CountMove
<1> QED
  BY <1>3, <1>4, <1>5, <1>6

\* A thread that moves takes a permit from a semaphore, gives one back, or keeps its own.
LEMMA MovePermits ==
  ASSUME PermitsInv, NEW t \in Threads, NEW l \in Labels, pc' = [pc EXCEPT ![t] = l],
         pc[t] # "aborted",
         NEW a \in Nat, NEW b \in Nat, a = enqueue_sem', b = dequeue_sem',
         \/ pc[t] = "idle" /\ l # "idle" /\ a + b = enqueue_sem + dequeue_sem - 1
         \/ pc[t] # "idle" /\ l = "idle" /\ a + b = enqueue_sem + dequeue_sem + 1
         \/ pc[t] # "idle" /\ l # "idle" /\ a + b = enqueue_sem + dequeue_sem
  PROVE  PermitsInv'
<1>1. /\ pc \in [Threads -> Labels] /\ enqueue_sem \in Nat /\ dequeue_sem \in Nat
      /\ enqueue_sem + dequeue_sem + Inside(pc) = Capacity
  BY DEF PermitsInv, PermitsConserved, Inside
<1>2. PICK f, g, e, d, u, v : /\ f = pc /\ g = pc' /\ e = enqueue_sem /\ d = dequeue_sem
                             /\ u = a /\ v = b
  OBVIOUS
<1>3. g \in [Threads -> Labels] /\ g[t] = l /\ \A x \in Threads \ {t} : g[x] = f[x]
  BY <1>1, <1>2
<1>4. /\ f \in [Threads -> Labels] /\ e \in Nat /\ d \in Nat /\ u \in Nat /\ v \in Nat
      /\ e + d + Inside(f) = Capacity
      /\ \/ f[t] = "idle" /\ g[t] # "idle" /\ u + v = e + d - 1
         \/ f[t] # "idle" /\ g[t] = "idle" /\ u + v = e + d + 1
         \/ f[t] # "idle" /\ g[t] # "idle" /\ u + v = e + d
  BY <1>1, <1>2, <1>3, Zenon
<1>5. PICK m, n \in Nat : m = Inside(f) /\ n = Inside(g)
  BY <1>3, <1>4, CountInside
<1>6. /\ f[t] = "idle" /\ g[t] # "idle" => n = m + 1
      /\ f[t] # "idle" /\ g[t] = "idle" => n = m - 1
      /\ f[t] # "idle" /\ g[t] # "idle" => n = m
  BY <1>3, <1>4, <1>5, CountInside
<1>7. u + v + n = Capacity
  BY <1>4, <1>5, <1>6
<1>8. PermitsConserved'
  BY <1>2, <1>5, <1>7, Zenon DEF PermitsConserved, Inside
<1> QED
  BY <1>2, <1>3, <1>8 DEF PermitsInv

\* Every step of a producer or consumer keeps the permits.
LEMMA PermitsNextInv == PermitsInv /\ [Next]_vars => PermitsInv'
<1> SUFFICES ASSUME PermitsInv, [Next]_vars PROVE PermitsInv'
  OBVIOUS
<1> USE DEF Goto, Labels, Threads
<1>1. ASSUME NEW p \in Producers, FSQEnqueue(p) PROVE PermitsInv'
  <2>1. CASE SemWaitEnqueue(p)
    <3>1. pc[p] = "idle" /\ pc' = [pc EXCEPT ![p] = "lock"] /\ enqueue_sem' = enqueue_sem - 1 /\ dequeue_sem' = dequeue_sem
      BY <2>1 DEF SemWaitEnqueue
    <3>2. enqueue_sem' \in Nat /\ dequeue_sem' \in Nat
      BY <2>1, <3>1 DEF SemWaitEnqueue, PermitsInv
    <3>3. enqueue_sem' + dequeue_sem' = enqueue_sem + dequeue_sem - 1
      BY <3>1 DEF PermitsInv
    <3>4. PICK l, a, b : l = "lock" /\ a = enqueue_sem' /\ b = dequeue_sem'
      OBVIOUS
    <3>5. p \in Threads /\ l \in Labels /\ a \in Nat /\ b \in Nat /\ l # "idle" /\ pc[p] # "aborted"
      BY <3>1, <3>2, <3>4
    <3>6. a + b = enqueue_sem + dequeue_sem - 1
      BY <3>3, <3>4
    <3>7. pc' = [pc EXCEPT ![p] = l] /\ pc[p] = "idle"
      BY <3>1, <3>4
    <3> QED
      BY <3>4, <3>5, <3>6, <3>7, MovePermits, ZenonT(30)
  <2>2. CASE SLLInsert(p)
    BY <2>2, MovePermits DEF SLLInsert, PermitsInv, semVars
  <2>3. CASE SLLInsertFails(p)
    BY <2>3, MovePermits DEF SLLInsertFails, PermitsInv, semVars
  <2>4. CASE Link(p)
    BY <2>4, MovePermits DEF Link, PermitsInv, semVars
  <2>5. CASE SetTail(p)
    BY <2>5, MovePermits DEF SetTail, PermitsInv, semVars
  <2>6. CASE Compare(p)
    BY <2>6, MovePermits DEF Compare, PermitsInv, semVars
  <2>7. CASE PostDequeue(p)
    <3>1. pc[p] = "post" /\ pc' = [pc EXCEPT ![p] = "idle"] /\ dequeue_sem' = dequeue_sem + 1 /\ enqueue_sem' = enqueue_sem
      BY <2>7 DEF PostDequeue
    <3>2. enqueue_sem' \in Nat /\ dequeue_sem' \in Nat
      BY <2>7, <3>1 DEF PostDequeue, PermitsInv
    <3>3. enqueue_sem' + dequeue_sem' = enqueue_sem + dequeue_sem + 1
      BY <3>1 DEF PermitsInv
    <3> QED
      BY <3>1, <3>2, <3>3, MovePermits
  <2>8. CASE Undo(p)
    <3>1. pc[p] = "undo" /\ pc' = [pc EXCEPT ![p] = "idle"] /\ enqueue_sem' = enqueue_sem + 1 /\ dequeue_sem' = dequeue_sem
      BY <2>8 DEF Undo
    <3>2. enqueue_sem' \in Nat /\ dequeue_sem' \in Nat
      BY <2>8, <3>1 DEF Undo, PermitsInv
    <3>3. enqueue_sem' + dequeue_sem' = enqueue_sem + dequeue_sem + 1
      BY <3>1 DEF PermitsInv
    <3> QED
      BY <3>1, <3>2, <3>3, MovePermits
  <2> QED
    BY <1>1, <2>1, <2>2, <2>3, <2>4, <2>5, <2>6, <2>7, <2>8 DEF FSQEnqueue
<1>2. ASSUME NEW c \in Consumers, FSQDequeue(c) PROVE PermitsInv'
  <2>1. CASE SemWaitDequeue(c)
    <3>1. pc[c] = "idle" /\ pc' = [pc EXCEPT ![c] = "lock"] /\ dequeue_sem' = dequeue_sem - 1 /\ enqueue_sem' = enqueue_sem
      BY <2>1 DEF SemWaitDequeue
    <3>2. enqueue_sem' \in Nat /\ dequeue_sem' \in Nat
      BY <2>1, <3>1 DEF SemWaitDequeue, PermitsInv
    <3>3. enqueue_sem' + dequeue_sem' = enqueue_sem + dequeue_sem - 1
      BY <3>1 DEF PermitsInv
    <3> QED
      BY <3>1, <3>2, <3>3, MovePermits
  <2>2. CASE LockRead(c)
    BY <2>2, MovePermits DEF LockRead, PermitsInv, semVars
  <2>3. CASE LockWrite(c)
    BY <2>3, MovePermits DEF LockWrite, PermitsInv, semVars
  <2>4. CASE SLLRemove(c)
    BY <2>4, MovePermits DEF SLLRemove, PermitsInv, semVars
  <2>5. CASE Free(c)
    BY <2>5, MovePermits DEF Free, PermitsInv, semVars
  <2>6. CASE PostEnqueue(c)
    <3>1. pc[c] = "post" /\ pc' = [pc EXCEPT ![c] = "idle"] /\ enqueue_sem' = enqueue_sem + 1 /\ dequeue_sem' = dequeue_sem
      BY <2>6 DEF PostEnqueue
    <3>2. enqueue_sem' \in Nat /\ dequeue_sem' \in Nat
      BY <2>6, <3>1 DEF PostEnqueue, PermitsInv
    <3>3. enqueue_sem' + dequeue_sem' = enqueue_sem + dequeue_sem + 1
      BY <3>1 DEF PermitsInv
    <3> QED
      BY <3>1, <3>2, <3>3, MovePermits
  <2>7. CASE SLLRemoveAborts(c)
    BY <2>7 DEF SLLRemoveAborts, PermitsInv, PermitsConserved, semVars
  <2> QED
    BY <1>2, <2>1, <2>2, <2>3, <2>4, <2>5, <2>6, <2>7 DEF FSQDequeue
<1>3. CASE UNCHANGED vars
  BY <1>3 DEF vars, semVars, threadVars, PermitsInv, PermitsConserved
<1> QED
  BY <1>1, <1>2, <1>3 DEF Next

\* All permits are in enqueue_sem at the start.
LEMMA PermitsInitInv == Init => PermitsInv
<1> SUFFICES ASSUME Init PROVE PermitsInv
  OBVIOUS
<1>1. pc \in [Threads -> Labels] /\ enqueue_sem = Capacity /\ dequeue_sem = 0 /\ Capacity \in Nat
  BY FSQAssumption DEF Init, Labels, FSQAssumption
<1>2. {t \in Threads : pc[t] # "idle"} = {}
  BY DEF Init
<1>3. Cardinality({t \in Threads : pc[t] # "idle"}) = 0
  BY <1>2, FS_EmptySet, Zenon
<1> QED
  BY <1>1, <1>3 DEF PermitsInv, PermitsConserved

\* A permit is in one of the two semaphores or with one thread inside FSQEnqueue or
\* FSQDequeue, whatever mallocs fail.
THEOREM PermitsKept == Spec => []PermitsConserved
<1>1. PermitsInv => PermitsConserved
  BY DEF PermitsInv
<1> QED
  BY <1>1, PermitsInitInv, PermitsNextInv, PTL DEF Spec

-----------------------------------------------------------------------------
(* The list.                                                                *)

Data == (Producers \X Nat) \union {NoItem}

ListTypeOK ==
  /\ pc \in [Threads -> Labels]
  /\ next \in [Nodes -> Nodes \union {NULL}] /\ data \in [Nodes -> Data]
  /\ allocated \subseteq Nodes /\ tail \in Nodes
  /\ chain \in Seq(Nodes) /\ chain # << >>
  /\ node \in [Producers -> Nodes \union {NULL}] /\ iter \in [Producers -> Nodes \union {NULL}]
  /\ freed \in [Consumers -> Nodes \union {NULL}]
  /\ sent \in [Producers -> Nat] /\ dequeue_sem \in Nat
  /\ inserted \in Seq(Data) /\ dequeued \in Seq(Data)

\* Who is in a critical section holds its lock.
LocksHeld ==
  /\ \A p \in Producers : pc[p] \in {"link", "tail"} => write_lock = {p}
  /\ \A c \in Consumers : pc[c] \in {"lockWrite", "remove", "free"} => read_lock = {c}
  /\ \A c \in Consumers : c \in write_lock => pc[c] \in {"remove", "free"}

ChainIntact ==
  /\ \A i, j \in 1 .. Len(chain) : chain[i] = chain[j] => i = j
  /\ head = chain[1] /\ next[chain[Len(chain)]] = NULL
  /\ \A i \in 1 .. Len(chain) - 1 : next[chain[i]] = chain[i + 1]

InChain(n) == \E i \in 1 .. Len(chain) : chain[i] = n

\* A producer's new dummy, before and after it is linked.
AddingKnown ==
  \A p \in Producers :
    /\ pc[p] = "link" => /\ node[p] \in Nodes /\ ~InChain(node[p]) /\ next[node[p]] = NULL
                         /\ iter[p] = chain[Len(chain)]
    /\ pc[p] = "tail" => node[p] = chain[Len(chain)]

\* A node a consumer is about to free is in no list, and the consumer that emptied
\* the list holds write_lock; without that lock it removes one item of two at least.
FreeingKnown ==
  \A c \in Consumers :
    /\ freed[c] # NULL <=> pc[c] = "free"
    /\ pc[c] = "free" => /\ ~InChain(freed[c])
                         /\ \A p \in Producers : pc[p] = "link" => node[p] # freed[c]
                         /\ Len(chain) = 1 => c \in write_lock
    /\ pc[c] = "remove" /\ c \notin write_lock => Len(chain) >= 3

AllocatedKnown ==
  \A n \in Nodes : n \in allocated <=>
    \/ InChain(n)
    \/ \E p \in Producers : pc[p] = "link" /\ node[p] = n
    \/ \E c \in Consumers : pc[c] = "free" /\ freed[c] = n

TailKnown ==
  \/ tail = chain[Len(chain)]
  \/ \E p \in Producers : pc[p] = "tail"
  \/ Len(chain) = 1 /\ \E c \in Consumers : pc[c] = "free"

\* A consumer at one of these labels has a permit and no item yet, a producer at one
\* of these has linked an item and not posted its permit.
WantLabels == {"lock", "lockWrite", "remove"}
PostLabels == {"tail", "compare", "post"}
Load(h) == CountAt(Consumers, WantLabels, h) + CountAt(Producers, PostLabels, h)

\* There is an item for everyone who has been let in.
EnoughItems == dequeue_sem + Load(pc) < Len(chain)

InOrder == inserted = dequeued \o Contents

ListInv ==
  ListTypeOK /\ LocksHeld /\ ChainIntact /\ AddingKnown /\ FreeingKnown /\ AllocatedKnown
    /\ TailKnown /\ EnoughItems /\ InOrder

FSQInv == faults \in Nat /\ (faults = 0 => ListInv)

\* What a thread at label l adds to the load.
Share(t, l) ==
  IF (t \in Consumers /\ l \in WantLabels) \/ (t \in Producers /\ l \in PostLabels) THEN 1 ELSE 0

\* The load changes with the label of the one thread that moves.
LEMMA CountLoad ==
  ASSUME NEW f \in [Threads -> Labels], NEW g \in [Threads -> Labels],
         NEW t \in Threads, \A x \in Threads \ {t} : g[x] = f[x]
  PROVE  Load(f) \in Nat /\ Load(g) \in Nat /\ Load(g) = Load(f) + Share(t, g[t]) - Share(t, f[t])
<1>1. Consumers \subseteq Threads /\ Producers \subseteq Threads /\ Producers \intersect Consumers = {}
  BY FSQAssumption DEF FSQAssumption, Threads
<1>2. PICK m, n \in Nat : m = CountAt(Consumers, WantLabels, f) /\ n = CountAt(Consumers, WantLabels, g)
  BY <1>1, FiniteThreads, CountMove
<1>3. PICK u, v \in Nat : u = CountAt(Producers, PostLabels, f) /\ v = CountAt(Producers, PostLabels, g)
  BY <1>1, FiniteThreads, CountMove
<1>4. /\ t \notin Consumers \/ (f[t] \in WantLabels <=> g[t] \in WantLabels) => n = m
      /\ t \in Consumers /\ f[t] \in WantLabels /\ g[t] \notin WantLabels => n = m - 1
      /\ t \in Consumers /\ f[t] \notin WantLabels /\ g[t] \in WantLabels => n = m + 1
  BY <1>1, <1>2, FiniteThreads, CountMove
<1>5. /\ t \notin Producers \/ (f[t] \in PostLabels <=> g[t] \in PostLabels) => v = u
      /\ t \in Producers /\ f[t] \in PostLabels /\ g[t] \notin PostLabels => v = u - 1
      /\ t \in Producers /\ f[t] \notin PostLabels /\ g[t] \in PostLabels => v = u + 1
  BY <1>1, <1>3, FiniteThreads, CountMove
<1>6. n + v = m + u + Share(t, g[t]) - Share(t, f[t])
  <2>1. CASE t \in Consumers
    <3>1. t \notin Producers /\ v = u
      BY <1>1, <1>5, <2>1
    <3>2. n = m + Share(t, g[t]) - Share(t, f[t])
      BY <1>4, <2>1, <3>1 DEF Share
    <3> QED
      BY <3>1, <3>2 DEF Share
  <2>2. CASE t \in Producers
    BY <1>1, <1>4, <1>5, <2>2 DEF Share
  <2> QED
    BY <2>1, <2>2 DEF Threads
<1>7. Load(f) = m + u /\ Load(g) = n + v
  BY <1>2, <1>3 DEF Load
<1> QED
  BY <1>6, <1>7 DEF Share

\* A thread with a share is counted.
LEMMA LoadAtLeast ==
  ASSUME NEW f \in [Threads -> Labels]
  PROVE  /\ Load(f) \in Nat
         /\ \A c \in Consumers : f[c] \in WantLabels => Load(f) > 0
         /\ \A c \in Consumers, p \in Producers :
              f[c] \in WantLabels /\ f[p] \in PostLabels => Load(f) > 1
<1>1. Consumers \subseteq Threads /\ Producers \subseteq Threads
  BY DEF Threads
<1>2. \A L, T : IsFiniteSet(T) /\ T \subseteq Threads =>
        CountAt(T, L, f) \in Nat /\ \A t \in T : f[t] \in L => CountAt(T, L, f) > 0
  <2> SUFFICES ASSUME NEW L, NEW T, IsFiniteSet(T), T \subseteq Threads
               PROVE  CountAt(T, L, f) \in Nat /\ \A t \in T : f[t] \in L => CountAt(T, L, f) > 0
    OBVIOUS
  <2>1. {x \in T : f[x] \in L} \in SUBSET T
    OBVIOUS
  <2>2. IsFiniteSet({x \in T : f[x] \in L})
    BY <2>1, FS_Subset
  <2>3. CountAt(T, L, f) \in Nat /\ (CountAt(T, L, f) = 0 <=> {x \in T : f[x] \in L} = {})
    BY <2>2, FS_CardinalityType, FS_EmptySet DEF CountAt
  <2> QED
    BY <2>3
<1>3. PICK m, u : m = CountAt(Consumers, WantLabels, f) /\ u = CountAt(Producers, PostLabels, f)
  OBVIOUS
<1>4. m \in Nat /\ \A c \in Consumers : f[c] \in WantLabels => m > 0
  BY <1>1, <1>2, <1>3, FiniteThreads
<1>5. u \in Nat /\ \A p \in Producers : f[p] \in PostLabels => u > 0
  BY <1>1, <1>2, <1>3, FiniteThreads
<1>6. Load(f) = m + u
  BY <1>3 DEF Load
<1> QED
  BY <1>4, <1>5, <1>6

\* There is an item for everyone after a step if load and permits grow no more than the list.
LEMMA EnoughKept ==
  ASSUME ListTypeOK, EnoughItems, NEW t \in Threads, NEW l \in Labels, pc' = [pc EXCEPT ![t] = l],
         NEW d \in Nat, NEW k \in Nat, d = dequeue_sem', k = Len(chain'),
         d + Share(t, l) + Len(chain) <= dequeue_sem + Share(t, pc[t]) + k
  PROVE  EnoughItems'
<1>1. PICK f, g, e, j, u, v : /\ f = pc /\ g = pc' /\ e = dequeue_sem /\ j = Len(chain)
                             /\ u = d /\ v = k
  OBVIOUS
<1>2. /\ f \in [Threads -> Labels] /\ e \in Nat /\ j \in Nat /\ u \in Nat /\ v \in Nat
      /\ e + Load(f) < j /\ u + Share(t, l) + j <= e + Share(t, f[t]) + v
  BY <1>1 DEF ListTypeOK, EnoughItems
<1>3. g \in [Threads -> Labels] /\ g[t] = l /\ \A x \in Threads \ {t} : g[x] = f[x]
  BY <1>1 DEF ListTypeOK
<1>4. Load(f) \in Nat /\ Load(g) \in Nat /\ Load(g) = Load(f) + Share(t, l) - Share(t, f[t])
  BY <1>2, <1>3, CountLoad
<1>5. PICK m, n, y, z : m = Load(f) /\ n = Load(g) /\ y = Share(t, l) /\ z = Share(t, f[t])
  OBVIOUS
<1>6. m \in Nat /\ n \in Nat /\ y \in Nat /\ z \in Nat /\ n = m + y - z
  BY <1>4, <1>5 DEF Share
<1>7. e + m < j /\ u + y + j <= e + z + v
  BY <1>2, <1>5, Zenon
<1>8. u + n < v
  BY <1>2, <1>6, <1>7
<1> QED
  BY <1>1, <1>5, <1>8, Zenon DEF EnoughItems

\* What nearly every step needs of the types.
LEMMA ListFacts ==
  ASSUME ListInv
  PROVE  /\ Nodes \subseteq Nat /\ NULL \notin Nodes /\ Producers \intersect Consumers = {}
         /\ Producers \subseteq Threads /\ Consumers \subseteq Threads
         /\ Len(chain) \in Nat /\ Len(chain) >= 1 /\ \A i \in 1 .. Len(chain) : chain[i] \in Nodes
         /\ head \in Nodes /\ chain[Len(chain)] \in Nodes
<1>1. chain \in Seq(Nodes) /\ chain # << >>
  BY DEF ListInv, ListTypeOK
<1>2. Len(chain) \in Nat /\ Len(chain) >= 1 /\ \A i \in 1 .. Len(chain) : chain[i] \in Nodes
  BY <1>1
<1>3. head \in Nodes
  BY <1>2 DEF ListInv, ChainIntact
<1> QED
  BY <1>2, <1>3, FSQAssumption DEF FSQAssumption, NULL, Threads

\* A step at a semaphore or between critical sections leaves list and locks alone.
LEMMA QuietStep ==
  ASSUME ListInv, NEW t \in Threads, NEW l \in Labels, pc' = [pc EXCEPT ![t] = l],
         {pc[t], l} \intersect {"link", "tail", "lockWrite", "remove", "free"} = {},
         UNCHANGED <<listVars, lockVars, iter, node, freed, ghostVars>>,
         sent' \in [Producers -> Nat], NEW d \in Nat, d = dequeue_sem',
         d + Share(t, l) <= dequeue_sem + Share(t, pc[t])
  PROVE  ListInv'
<1> USE DEF listVars, lockVars, ghostVars
<1>1. /\ pc \in [Threads -> Labels] /\ pc' \in [Threads -> Labels]
      /\ \A x \in Threads : x # t => pc'[x] = pc[x]
      /\ \A x \in Threads, m \in {"link", "tail", "lockWrite", "remove", "free"} : pc'[x] = m <=> pc[x] = m
  BY DEF ListInv, ListTypeOK
<1>2. Producers \subseteq Threads /\ Consumers \subseteq Threads
  BY DEF Threads
<1>3. ListTypeOK'
  BY <1>1 DEF ListInv, ListTypeOK
<1>4. LocksHeld'
  BY <1>1, <1>2 DEF ListInv, LocksHeld
<1>5. ChainIntact'
  BY DEF ListInv, ChainIntact
<1>6. AddingKnown'
  BY <1>1, <1>2 DEF ListInv, AddingKnown, InChain
<1>7. FreeingKnown'
  BY <1>1, <1>2 DEF ListInv, FreeingKnown, InChain
<1>8. AllocatedKnown'
  BY <1>1, <1>2 DEF ListInv, AllocatedKnown, InChain
<1>9. TailKnown'
  BY <1>1, <1>2 DEF ListInv, TailKnown
<1>10. InOrder'
  BY DEF ListInv, InOrder, Contents
<1>11. EnoughItems'
  <2>1. PICK k : k = Len(chain)
    OBVIOUS
  <2>2. ListTypeOK /\ EnoughItems /\ dequeue_sem \in Nat /\ k \in Nat /\ k = Len(chain')
    BY <2>1, ListFacts DEF ListInv, ListTypeOK
  <2>3. Share(t, l) \in Nat /\ Share(t, pc[t]) \in Nat
    BY DEF Share
  <2>4. d + Share(t, l) + k <= dequeue_sem + Share(t, pc[t]) + k
    BY <2>2, <2>3
  <2> QED
    BY <2>1, <2>2, <2>4, EnoughKept
<1> QED
  BY <1>3, <1>4, <1>5, <1>6, <1>7, <1>8, <1>9, <1>10, <1>11 DEF ListInv

\* The quiet steps.
LEMMA QuietSteps ==
  ASSUME ListInv, NEW t,
         \/ t \in Producers /\ (SemWaitEnqueue(t) \/ Compare(t) \/ PostDequeue(t) \/ Undo(t))
         \/ t \in Consumers /\ (SemWaitDequeue(t) \/ PostEnqueue(t))
  PROVE  ListInv'
<1> USE DEF Goto, Labels, semVars
<1>1. /\ Producers \subseteq Threads /\ Consumers \subseteq Threads /\ Producers \intersect Consumers = {}
      /\ Len(chain) \in Nat /\ ListTypeOK /\ EnoughItems
  BY ListFacts DEF ListInv
<1>2. pc \in [Threads -> Labels] /\ dequeue_sem \in Nat /\ sent \in [Producers -> Nat]
  BY <1>1 DEF ListTypeOK
<1>3. CASE t \in Producers /\ SemWaitEnqueue(t)
  <2>1. PICK l, d : l = "lock" /\ d = dequeue_sem
    OBVIOUS
  <2>2. /\ t \in Threads /\ l \in Labels /\ d \in Nat /\ d = dequeue_sem'
        /\ pc' = [pc EXCEPT ![t] = l] /\ sent' \in [Producers -> Nat]
        /\ {pc[t], l} \intersect {"link", "tail", "lockWrite", "remove", "free"} = {}
    BY <1>1, <1>2, <1>3, <2>1 DEF SemWaitEnqueue
  <2>3. UNCHANGED <<listVars, lockVars, iter, node, freed, ghostVars>>
    BY <1>3 DEF SemWaitEnqueue
  <2>4. d + Share(t, l) <= dequeue_sem + Share(t, pc[t])
    BY <1>1, <1>2, <1>3, <2>1 DEF SemWaitEnqueue, Share, WantLabels, PostLabels
  <2> QED
    BY <2>2, <2>3, <2>4, QuietStep
<1>4. CASE t \in Producers /\ Compare(t)
  <2>1. PICK l, d : l = (IF iter[t] = tail THEN "undo" ELSE "post") /\ d = dequeue_sem
    OBVIOUS
  <2>2. /\ t \in Threads /\ l \in Labels /\ d \in Nat /\ d = dequeue_sem'
        /\ pc' = [pc EXCEPT ![t] = l] /\ sent' \in [Producers -> Nat]
        /\ {pc[t], l} \intersect {"link", "tail", "lockWrite", "remove", "free"} = {}
    BY <1>1, <1>2, <1>4, <2>1 DEF Compare
  <2>3. UNCHANGED <<listVars, lockVars, iter, node, freed, ghostVars>>
    BY <1>4 DEF Compare
  <2>4. d + Share(t, l) <= dequeue_sem + Share(t, pc[t])
    BY <1>1, <1>2, <1>4, <2>1 DEF Compare, Share, WantLabels, PostLabels
  <2> QED
    BY <2>2, <2>3, <2>4, QuietStep
<1>5. CASE t \in Producers /\ PostDequeue(t)
  <2>1. PICK l, d : l = "idle" /\ d = dequeue_sem + 1
    OBVIOUS
  <2>2. /\ t \in Threads /\ l \in Labels /\ d \in Nat /\ d = dequeue_sem'
        /\ pc' = [pc EXCEPT ![t] = l] /\ sent' \in [Producers -> Nat]
        /\ {pc[t], l} \intersect {"link", "tail", "lockWrite", "remove", "free"} = {}
    BY <1>1, <1>2, <1>5, <2>1 DEF PostDequeue
  <2>3. UNCHANGED <<listVars, lockVars, iter, node, freed, ghostVars>>
    BY <1>5 DEF PostDequeue
  <2>4. d + Share(t, l) <= dequeue_sem + Share(t, pc[t])
    BY <1>1, <1>2, <1>5, <2>1 DEF PostDequeue, Share, WantLabels, PostLabels
  <2> QED
    BY <2>2, <2>3, <2>4, QuietStep
<1>6. CASE t \in Producers /\ Undo(t)
  <2>1. PICK l, d : l = "idle" /\ d = dequeue_sem
    OBVIOUS
  <2>2. /\ t \in Threads /\ l \in Labels /\ d \in Nat /\ d = dequeue_sem'
        /\ pc' = [pc EXCEPT ![t] = l] /\ sent' \in [Producers -> Nat]
        /\ {pc[t], l} \intersect {"link", "tail", "lockWrite", "remove", "free"} = {}
    BY <1>1, <1>2, <1>6, <2>1 DEF Undo
  <2>3. UNCHANGED <<listVars, lockVars, iter, node, freed, ghostVars>>
    BY <1>6 DEF Undo
  <2>4. d + Share(t, l) <= dequeue_sem + Share(t, pc[t])
    BY <1>1, <1>2, <1>6, <2>1 DEF Undo, Share, WantLabels, PostLabels
  <2> QED
    BY <2>2, <2>3, <2>4, QuietStep
<1>7. CASE t \in Consumers /\ SemWaitDequeue(t)
  <2>1. PICK l, d : l = "lock" /\ d = dequeue_sem - 1
    OBVIOUS
  <2>2. /\ t \in Threads /\ l \in Labels /\ d \in Nat /\ d = dequeue_sem'
        /\ pc' = [pc EXCEPT ![t] = l] /\ sent' \in [Producers -> Nat]
        /\ {pc[t], l} \intersect {"link", "tail", "lockWrite", "remove", "free"} = {}
    BY <1>1, <1>2, <1>7, <2>1 DEF SemWaitDequeue
  <2>3. UNCHANGED <<listVars, lockVars, iter, node, freed, ghostVars>>
    BY <1>7 DEF SemWaitDequeue
  <2>4. d + Share(t, l) <= dequeue_sem + Share(t, pc[t])
    BY <1>1, <1>2, <1>7, <2>1 DEF SemWaitDequeue, Share, WantLabels, PostLabels
  <2> QED
    BY <2>2, <2>3, <2>4, QuietStep
<1>8. CASE t \in Consumers /\ PostEnqueue(t)
  <2>1. PICK l, d : l = "idle" /\ d = dequeue_sem
    OBVIOUS
  <2>2. /\ t \in Threads /\ l \in Labels /\ d \in Nat /\ d = dequeue_sem'
        /\ pc' = [pc EXCEPT ![t] = l] /\ sent' \in [Producers -> Nat]
        /\ {pc[t], l} \intersect {"link", "tail", "lockWrite", "remove", "free"} = {}
    BY <1>1, <1>2, <1>8, <2>1 DEF PostEnqueue
  <2>3. UNCHANGED <<listVars, lockVars, iter, node, freed, ghostVars>>
    BY <1>8 DEF PostEnqueue
  <2>4. d + Share(t, l) <= dequeue_sem + Share(t, pc[t])
    BY <1>1, <1>2, <1>8, <2>1 DEF PostEnqueue, Share, WantLabels, PostLabels
  <2> QED
    BY <2>2, <2>3, <2>4, QuietStep
<1> QED
  BY <1>3, <1>4, <1>5, <1>6, <1>7, <1>8

\* The load stays when a thread moves between labels that count alike, or leaves as many
\* items as it takes.
LEMMA EnoughMove ==
  ASSUME ListInv, NEW t \in Threads, NEW l \in Labels, pc' = [pc EXCEPT ![t] = l],
         dequeue_sem' = dequeue_sem, NEW k \in Nat, k = Len(chain'),
         Share(t, l) + Len(chain) <= Share(t, pc[t]) + k
  PROVE  EnoughItems'
<1>1. PICK d : d = dequeue_sem
  OBVIOUS
<1>2. ListTypeOK /\ EnoughItems /\ d \in Nat /\ d = dequeue_sem' /\ Len(chain) \in Nat
  BY <1>1, ListFacts DEF ListInv, ListTypeOK
<1>3. Share(t, l) \in Nat /\ Share(t, pc[t]) \in Nat
  BY DEF Share
<1>4. d + Share(t, l) + Len(chain) <= dequeue_sem + Share(t, pc[t]) + k
  BY <1>1, <1>2, <1>3
<1> QED
  BY <1>2, <1>4, EnoughKept

\* Whoever takes write_lock finds tail at the dummy.
LEMMA TailWhenUnlocked == ListInv /\ write_lock = {} => tail = chain[Len(chain)]
BY DEF ListInv, LocksHeld, FreeingKnown, TailKnown

\* The new dummy is a node of nobody, and becomes a copy of the old one: next is NULL.
LEMMA SLLInsertInv == ASSUME ListInv, NEW p \in Producers, SLLInsert(p) PROVE ListInv'
<1>1. PICK n \in Nodes \ allocated :
        /\ allocated' = allocated \union {n} /\ node' = [node EXCEPT ![p] = n]
        /\ data' = [data EXCEPT ![n] = data[tail]] /\ next' = [next EXCEPT ![n] = next[tail]]
  BY DEF SLLInsert
<1>2. /\ pc[p] = "lock" /\ write_lock = {} /\ write_lock' = {p} /\ pc' = [pc EXCEPT ![p] = "link"]
      /\ iter' = [iter EXCEPT ![p] = tail] /\ head' = head /\ tail' = tail /\ read_lock' = read_lock
      /\ dequeue_sem' = dequeue_sem /\ sent' = sent /\ freed' = freed
      /\ chain' = chain /\ inserted' = inserted /\ dequeued' = dequeued
  BY DEF SLLInsert, Goto, semVars, ghostVars
<1>3. /\ Producers \intersect Consumers = {} /\ Producers \subseteq Threads /\ Consumers \subseteq Threads
      /\ Len(chain) \in Nat /\ Len(chain) >= 1 /\ \A i \in 1 .. Len(chain) : chain[i] \in Nodes
  BY ListFacts
<1>4. /\ pc \in [Threads -> Labels] /\ next \in [Nodes -> Nodes \union {NULL}] /\ data \in [Nodes -> Data]
      /\ tail \in Nodes /\ node \in [Producers -> Nodes \union {NULL}] /\ iter \in [Producers -> Nodes \union {NULL}]
  BY DEF ListInv, ListTypeOK
<1>5. pc' \in [Threads -> Labels] /\ pc'[p] = "link" /\ \A x \in Threads : x # p => pc'[x] = pc[x]
  BY <1>2, <1>3, <1>4 DEF Labels
<1>6. /\ ~InChain(n) /\ \A c \in Consumers : pc[c] = "free" => freed[c] # n
      /\ \A q \in Producers : pc[q] \notin {"link", "tail"}
  BY <1>2 DEF ListInv, AllocatedKnown, LocksHeld
<1>7. tail = chain[Len(chain)] /\ next[tail] = NULL
  BY <1>2, TailWhenUnlocked DEF ListInv, ChainIntact
<1>8. next'[n] = NULL /\ \A m \in Nodes : m # n => next'[m] = next[m] /\ data'[m] = data[m]
  BY <1>1, <1>4, <1>7
<1>9. \A i \in 1 .. Len(chain) : next'[chain[i]] = next[chain[i]] /\ data'[chain[i]] = data[chain[i]]
  BY <1>3, <1>6, <1>8 DEF InChain
<1>10. ListTypeOK'
  BY <1>1, <1>2, <1>4, <1>5 DEF ListInv, ListTypeOK
<1>11. LocksHeld'
  BY <1>2, <1>3, <1>5, <1>6 DEF ListInv, LocksHeld
<1>12. ChainIntact'
  <2>1. next'[chain[Len(chain)]] = NULL
    BY <1>3, <1>9 DEF ListInv, ChainIntact
  <2>2. \A i \in 1 .. Len(chain) - 1 : next'[chain[i]] = chain[i + 1]
    <3> SUFFICES ASSUME NEW i \in 1 .. Len(chain) - 1 PROVE next'[chain[i]] = chain[i + 1]
      OBVIOUS
    <3>1. i \in 1 .. Len(chain)
      BY <1>3
    <3> QED
      BY <1>9, <3>1 DEF ListInv, ChainIntact
  <2> QED
    BY <1>2, <2>1, <2>2 DEF ListInv, ChainIntact
<1>13. AddingKnown'
  BY <1>1, <1>2, <1>3, <1>4, <1>5, <1>6, <1>7, <1>8 DEF ListInv, AddingKnown, InChain
<1>14. FreeingKnown'
  <2>1. \A c \in Consumers : pc'[c] = pc[c]
    BY <1>3, <1>5
  <2>2. \A q \in Producers : pc'[q] = "link" => node'[q] = n
    BY <1>1, <1>3, <1>4, <1>5, <1>6
  <2>3. \A c \in Consumers : c \notin write_lock /\ c \notin write_lock'
    BY <1>2, <1>3
  <2> QED
    BY <1>2, <1>6, <2>1, <2>2, <2>3 DEF ListInv, FreeingKnown, InChain
<1>15. AllocatedKnown'
  <2>1. \A m : (\E q \in Producers : pc'[q] = "link" /\ node'[q] = m) <=> m = n
    BY <1>1, <1>3, <1>4, <1>5, <1>6
  <2>2. \A c \in Consumers : pc'[c] = pc[c]
    BY <1>3, <1>5
  <2> QED
    BY <1>1, <1>2, <1>6, <2>1, <2>2 DEF ListInv, AllocatedKnown, InChain
<1>16. TailKnown'
  BY <1>2, <1>7 DEF TailKnown
<1>17. EnoughItems'
  <2>1. PICK l, k : l = "link" /\ k = Len(chain)
    OBVIOUS
  <2>2. /\ p \in Threads /\ l \in Labels /\ pc' = [pc EXCEPT ![p] = l] /\ k \in Nat /\ k = Len(chain')
        /\ Share(p, l) + Len(chain) <= Share(p, pc[p]) + k
    BY <1>2, <1>3, <2>1 DEF Labels, Share, WantLabels, PostLabels
  <2> QED
    BY <1>2, <2>2, EnoughMove
<1>18. InOrder'
  <2>1. Contents' = Contents
    BY <1>2, <1>3, <1>9 DEF Contents
  <2> QED
    BY <1>2, <2>1 DEF ListInv, InOrder
<1> QED
  BY <1>10, <1>11, <1>12, <1>13, <1>14, <1>15, <1>16, <1>17, <1>18 DEF ListInv

\* Append, element by element.
LEMMA AppendAsFunction ==
  ASSUME NEW S, NEW s \in Seq(S), NEW x \in S, NEW f \in Seq(S), Len(f) = Len(s) + 1,
         f[Len(f)] = x, \A i \in 1 .. Len(s) : f[i] = s[i]
  PROVE  f = Append(s, x)
<1>1. \A i \in 1 .. Len(f) : i = Len(f) \/ i \in 1 .. Len(s)
  OBVIOUS
<1>2. Append(s, x) \in Seq(S) /\ Len(Append(s, x)) = Len(f)
  OBVIOUS
<1>3. \A i \in 1 .. Len(f) : f[i] = Append(s, x)[i]
  BY <1>1
<1> QED
  BY <1>2, <1>3, SeqEqual

\* The list grows at its end by the new dummy, and the old one gets the item.
LEMMA LinkInv == ASSUME ListInv, NEW p \in Producers, Link(p) PROVE ListInv'
<1>1. /\ pc[p] = "link" /\ pc' = [pc EXCEPT ![p] = "tail"]
      /\ next' = [next EXCEPT ![iter[p]] = node[p]] /\ data' = [data EXCEPT ![iter[p]] = Item(p)]
      /\ chain' = Append(chain, node[p]) /\ inserted' = Append(inserted, Item(p))
      /\ allocated' = allocated /\ head' = head /\ tail' = tail /\ write_lock' = write_lock
      /\ read_lock' = read_lock /\ dequeue_sem' = dequeue_sem /\ iter' = iter /\ node' = node
      /\ sent' = sent /\ freed' = freed /\ dequeued' = dequeued
  BY DEF Link, Goto, semVars, lockVars
<1>2. /\ Producers \intersect Consumers = {} /\ Producers \subseteq Threads /\ Consumers \subseteq Threads
      /\ Len(chain) \in Nat /\ Len(chain) >= 1 /\ \A i \in 1 .. Len(chain) : chain[i] \in Nodes
  BY ListFacts
<1>3. PICK k, z, n : k = Len(chain) /\ z = chain[k] /\ n = node[p]
  OBVIOUS
<1>4. /\ pc \in [Threads -> Labels] /\ next \in [Nodes -> Nodes \union {NULL}] /\ data \in [Nodes -> Data]
      /\ chain \in Seq(Nodes) /\ sent \in [Producers -> Nat] /\ inserted \in Seq(Data) /\ dequeued \in Seq(Data)
  BY DEF ListInv, ListTypeOK
<1>5. /\ n \in Nodes /\ z \in Nodes /\ iter[p] = z /\ next[n] = NULL /\ k \in Nat /\ k >= 1
      /\ \A i \in 1 .. k : chain[i] # n
  <2>1. node[p] \in Nodes /\ ~InChain(node[p]) /\ next[node[p]] = NULL /\ iter[p] = chain[Len(chain)]
    BY <1>1 DEF ListInv, AddingKnown
  <2>2. \A i \in 1 .. Len(chain) : chain[i] # node[p]
    BY <2>1 DEF InChain
  <2> QED
    BY <1>2, <1>3, <2>1, <2>2
<1>6. pc' \in [Threads -> Labels] /\ pc'[p] = "tail" /\ \A x \in Threads : x # p => pc'[x] = pc[x]
  BY <1>1, <1>2, <1>4 DEF Labels
<1>7. \A q \in Producers : q # p => pc[q] \notin {"link", "tail"}
  BY <1>1 DEF ListInv, LocksHeld
<1>8. chain' \in Seq(Nodes) /\ Len(chain') = k + 1 /\ chain'[k + 1] = n /\ \A i \in 1 .. k : chain'[i] = chain[i]
  BY <1>1, <1>3, <1>4, <1>5
<1>9. /\ next'[z] = n /\ data'[z] = Item(p)
      /\ \A m \in Nodes : m # z => next'[m] = next[m] /\ data'[m] = data[m]
  BY <1>1, <1>3, <1>4, <1>5
<1>10. \A i \in 1 .. k : chain[i] = z => i = k
  BY <1>2, <1>3, <1>5 DEF ListInv, ChainIntact
<1>11. Item(p) \in Data
  BY <1>4 DEF Item, Data
<1>12. ListTypeOK'
  <2>1. inserted' \in Seq(Data) /\ chain' # << >>
    BY <1>1, <1>4, <1>5, <1>8, <1>11
  <2>2. next' \in [Nodes -> Nodes \union {NULL}] /\ data' \in [Nodes -> Data]
    BY <1>1, <1>3, <1>4, <1>5, <1>11
  <2> QED
    BY <1>1, <1>6, <1>8, <2>1, <2>2 DEF ListInv, ListTypeOK
<1>13. LocksHeld'
  BY <1>1, <1>2, <1>6 DEF ListInv, LocksHeld
<1>14. ChainIntact'
  <2>1. \A i, j \in 1 .. k + 1 : chain'[i] = chain'[j] => i = j
    <3> SUFFICES ASSUME NEW i \in 1 .. k + 1, NEW j \in 1 .. k + 1, chain'[i] = chain'[j] PROVE i = j
      OBVIOUS
    <3>1. (i \in 1 .. k \/ i = k + 1) /\ (j \in 1 .. k \/ j = k + 1)
      BY <1>5
    <3>2. CASE i \in 1 .. k /\ j \in 1 .. k
      BY <1>3, <1>8, <3>2 DEF ListInv, ChainIntact
    <3> QED
      BY <1>5, <1>8, <3>1, <3>2
  <2>2. head' = chain'[1]
    BY <1>1, <1>5, <1>8 DEF ListInv, ChainIntact
  <2>3. next'[chain'[k + 1]] = NULL
    BY <1>5, <1>8, <1>9, <1>3
  <2>4. \A i \in 1 .. k : next'[chain'[i]] = chain'[i + 1]
    <3> SUFFICES ASSUME NEW i \in 1 .. k PROVE next'[chain'[i]] = chain'[i + 1]
      OBVIOUS
    <3>1. CASE i = k
      BY <1>3, <1>5, <1>8, <1>9, <3>1
    <3>2. CASE i # k
      <4>1. i \in 1 .. k - 1 /\ i + 1 \in 1 .. k
        BY <1>5, <3>2
      <4>2. next[chain[i]] = chain[i + 1]
        BY <1>3, <4>1 DEF ListInv, ChainIntact
      <4>3. chain[i] \in Nodes /\ chain[i] # z
        BY <1>2, <1>3, <1>10, <3>2
      <4> QED
        BY <1>8, <1>9, <4>1, <4>2, <4>3
    <3> QED
      BY <3>1, <3>2
  <2>5. Len(chain') - 1 = k
    BY <1>5, <1>8
  <2> QED
    BY <1>8, <2>1, <2>2, <2>3, <2>4, <2>5 DEF ChainIntact
<1>15. \A m : (\E i \in 1 .. Len(chain') : chain'[i] = m) <=> InChain(m) \/ m = n
  <2> SUFFICES ASSUME NEW m PROVE (\E i \in 1 .. Len(chain') : chain'[i] = m) <=> InChain(m) \/ m = n
    OBVIOUS
  <2>1. (\E i \in 1 .. Len(chain') : chain'[i] = m) <=> \E i \in 1 .. k + 1 : chain'[i] = m
    BY <1>8
  <2>2. InChain(m) <=> \E i \in 1 .. k : chain[i] = m
    BY <1>3 DEF InChain
  <2>3. \A i \in 1 .. k + 1 : i \in 1 .. k \/ i = k + 1
    BY <1>5
  <2>4. \A i \in 1 .. k : i \in 1 .. k + 1
    BY <1>5
  <2>5. k + 1 \in 1 .. k + 1
    BY <1>5
  <2> QED
    BY <1>8, <2>1, <2>2, <2>3, <2>4, <2>5
<1>16. AddingKnown'
  BY <1>1, <1>2, <1>3, <1>6, <1>7, <1>8 DEF AddingKnown
<1>17. FreeingKnown'
  <2>1. \A c \in Consumers : pc'[c] = pc[c]
    BY <1>2, <1>6
  <2>2. \A q \in Producers : pc'[q] # "link"
    BY <1>2, <1>6, <1>7
  <2>3. \A c \in Consumers : pc[c] = "free" => ~InChain(freed[c]) /\ freed[c] # n
    BY <1>1, <1>3 DEF ListInv, FreeingKnown
  <2>4. \A c \in Consumers : pc'[c] = "free" => ~\E i \in 1 .. Len(chain') : chain'[i] = freed'[c]
    BY <1>1, <1>15, <2>1, <2>3
  <2>5. \A c \in Consumers : pc'[c] = "remove" /\ c \notin write_lock' => Len(chain') >= 3
    BY <1>1, <1>3, <1>5, <1>8, <2>1 DEF ListInv, FreeingKnown
  <2>6. \A c \in Consumers : freed'[c] # NULL <=> pc'[c] = "free"
    BY <1>1, <2>1 DEF ListInv, FreeingKnown
  <2>7. Len(chain') # 1
    BY <1>5, <1>8
  <2> QED
    BY <1>1, <2>2, <2>4, <2>5, <2>6, <2>7, Zenon DEF FreeingKnown, InChain
<1>18. AllocatedKnown'
  <2>1. \A c \in Consumers : pc'[c] = pc[c]
    BY <1>2, <1>6
  <2>2. \A q \in Producers : pc'[q] # "link"
    BY <1>2, <1>6, <1>7
  <2>3. \A m : (\E q \in Producers : pc[q] = "link" /\ node[q] = m) <=> m = n
    BY <1>1, <1>3, <1>7
  <2>4. \A m \in Nodes : m \in allocated <=>
          InChain(m) \/ m = n \/ \E c \in Consumers : pc[c] = "free" /\ freed[c] = m
    BY <2>3 DEF ListInv, AllocatedKnown
  <2>5. \A m \in Nodes : m \in allocated' <=>
          \/ \E i \in 1 .. Len(chain') : chain'[i] = m
          \/ \E q \in Producers : pc'[q] = "link" /\ node'[q] = m
          \/ \E c \in Consumers : pc'[c] = "free" /\ freed'[c] = m
    <3> SUFFICES ASSUME NEW m \in Nodes
                 PROVE  m \in allocated' <=>
                          \/ \E i \in 1 .. Len(chain') : chain'[i] = m
                          \/ \E q \in Producers : pc'[q] = "link" /\ node'[q] = m
                          \/ \E c \in Consumers : pc'[c] = "free" /\ freed'[c] = m
      OBVIOUS
    <3>1. m \in allocated' <=> m \in allocated
      BY <1>1
    <3>2. ~\E q \in Producers : pc'[q] = "link" /\ node'[q] = m
      BY <2>2
    <3>3. (\E c \in Consumers : pc'[c] = "free" /\ freed'[c] = m)
            <=> \E c \in Consumers : pc[c] = "free" /\ freed[c] = m
      BY <1>1, <2>1
    <3>4. (\E i \in 1 .. Len(chain') : chain'[i] = m) <=> InChain(m) \/ m = n
      BY <1>15
    <3> QED
      BY <2>4, <3>1, <3>2, <3>3, <3>4
  <2> QED
    BY <2>5, Zenon DEF AllocatedKnown, InChain
<1>19. TailKnown'
  BY <1>6 DEF TailKnown
<1>20. EnoughItems'
  <2>1. PICK l, j : l = "tail" /\ j = k + 1
    OBVIOUS
  <2>2. /\ p \in Threads /\ l \in Labels /\ pc' = [pc EXCEPT ![p] = l] /\ j \in Nat /\ j = Len(chain')
        /\ Share(p, l) + Len(chain) <= Share(p, pc[p]) + j
    BY <1>1, <1>2, <1>3, <1>5, <1>8, <2>1 DEF Labels, Share, WantLabels, PostLabels
  <2> QED
    BY <1>1, <2>2, EnoughMove
<1>21. InOrder'
  <2>1. Contents \in Seq(Data) /\ Len(Contents) = k - 1
    BY <1>2, <1>3, <1>4, <1>5 DEF Contents
  <2>2. Contents' = Append(Contents, Item(p))
    <3>1. PICK s, x, f : s = Contents /\ x = Item(p) /\ f = Contents'
      OBVIOUS
    <3>2. f = [i \in 1 .. k |-> data'[chain'[i]]]
      BY <1>5, <1>8, <3>1 DEF Contents
    <3>3. s \in Seq(Data) /\ x \in Data /\ k = Len(s) + 1
      BY <1>5, <1>11, <2>1, <3>1
    <3>4. f[k] = x
      BY <1>3, <1>5, <1>8, <1>9, <3>1, <3>2
    <3>5. \A i \in 1 .. Len(s) : f[i] = s[i]
      <4> SUFFICES ASSUME NEW i \in 1 .. Len(s) PROVE f[i] = s[i]
        OBVIOUS
      <4>1. i \in 1 .. k /\ i \in 1 .. k - 1 /\ i # k
        BY <1>5, <3>3
      <4>2. s[i] = data[chain[i]]
        BY <1>3, <3>1, <4>1 DEF Contents
      <4>3. chain[i] \in Nodes /\ chain[i] # z
        BY <1>2, <1>3, <1>10, <4>1
      <4> QED
        BY <1>8, <1>9, <3>2, <4>1, <4>2, <4>3
    <3>6. f \in Seq(Data) /\ Len(f) = k
      <4>1. \A i \in 1 .. k : i = k \/ i \in 1 .. Len(s)
        BY <3>3
      <4>2. \A i \in 1 .. k : f[i] \in Data
        BY <3>3, <3>4, <3>5, <4>1
      <4> QED
        BY <1>5, <3>2, <4>2
    <3>7. f = Append(s, x)
      BY <3>3, <3>4, <3>5, <3>6, AppendAsFunction
    <3> QED
      BY <3>1, <3>7, Zenon
  <2>3. inserted = dequeued \o Contents
    BY DEF ListInv, InOrder
  <2>4. \A s, t \in Seq(Data), x \in Data : Append(s \o t, x) = s \o Append(t, x)
    OBVIOUS
  <2> QED
    BY <1>1, <1>4, <1>11, <2>1, <2>2, <2>3, <2>4, Zenon DEF InOrder
<1> QED
  BY <1>12, <1>13, <1>14, <1>16, <1>17, <1>18, <1>19, <1>20, <1>21 DEF ListInv

\* tail follows the list before write_lock is given back.
LEMMA SetTailInv == ASSUME ListInv, NEW p \in Producers, SetTail(p) PROVE ListInv'
<1>1. /\ pc[p] = "tail" /\ pc' = [pc EXCEPT ![p] = "compare"] /\ write_lock' = {}
      /\ tail' = (IF next[node[p]] = NULL THEN node[p] ELSE tail)
      /\ data' = data /\ next' = next /\ allocated' = allocated /\ head' = head /\ read_lock' = read_lock
      /\ dequeue_sem' = dequeue_sem /\ iter' = iter /\ node' = node /\ sent' = sent /\ freed' = freed
      /\ chain' = chain /\ inserted' = inserted /\ dequeued' = dequeued
  BY DEF SetTail, Goto, semVars, ghostVars
<1>2. /\ Producers \intersect Consumers = {} /\ Producers \subseteq Threads /\ Consumers \subseteq Threads
      /\ Len(chain) \in Nat /\ chain[Len(chain)] \in Nodes
  BY ListFacts
<1>3. pc \in [Threads -> Labels] /\ write_lock = {p}
  BY <1>1 DEF ListInv, ListTypeOK, LocksHeld
<1>4. pc' \in [Threads -> Labels] /\ pc'[p] = "compare" /\ \A x \in Threads : x # p => pc'[x] = pc[x]
  BY <1>1, <1>2, <1>3 DEF Labels
<1>5. tail' = chain[Len(chain)]
  BY <1>1 DEF ListInv, AddingKnown, ChainIntact
<1>6. \A q \in Producers : pc[q] \in {"link", "tail"} => q = p
  BY <1>3 DEF ListInv, LocksHeld
<1>7. \A c \in Consumers : pc'[c] = pc[c] /\ c \notin write_lock /\ c \notin write_lock'
  BY <1>1, <1>2, <1>3, <1>4
<1>8. \A q \in Producers : pc[q] # "link" /\ pc'[q] \notin {"link", "tail"}
  BY <1>1, <1>2, <1>4, <1>6
<1>9. ListTypeOK'
  BY <1>1, <1>2, <1>4, <1>5 DEF ListInv, ListTypeOK
<1>10. LocksHeld'
  BY <1>1, <1>7, <1>8 DEF ListInv, LocksHeld
<1>11. ChainIntact'
  BY <1>1 DEF ListInv, ChainIntact
<1>12. AddingKnown'
  BY <1>8 DEF AddingKnown
<1>13. FreeingKnown'
  BY <1>1, <1>7, <1>8 DEF ListInv, FreeingKnown, InChain
<1>14. AllocatedKnown'
  BY <1>1, <1>7, <1>8 DEF ListInv, AllocatedKnown, InChain
<1>15. TailKnown'
  BY <1>1, <1>5 DEF TailKnown
<1>16. EnoughItems'
  <2>1. PICK l, k : l = "compare" /\ k = Len(chain)
    OBVIOUS
  <2>2. /\ p \in Threads /\ l \in Labels /\ pc' = [pc EXCEPT ![p] = l] /\ k \in Nat /\ k = Len(chain')
        /\ Share(p, l) + Len(chain) <= Share(p, pc[p]) + k
    BY <1>1, <1>2, <2>1 DEF Labels, Share, WantLabels, PostLabels
  <2> QED
    BY <1>1, <2>2, EnoughMove
<1>17. InOrder'
  BY <1>1 DEF ListInv, InOrder, Contents
<1> QED
  BY <1>9, <1>10, <1>11, <1>12, <1>13, <1>14, <1>15, <1>16, <1>17 DEF ListInv

\* A consumer that has a permit finds an item, and two if a producer is still inside.
LEMMA ItemsFound ==
  ASSUME ListInv
  PROVE  \A c \in Consumers : pc[c] \in WantLabels =>
           /\ Len(chain) >= 2 /\ next[head] = chain[2]
           /\ (\E p \in Producers : pc[p] \in PostLabels) => Len(chain) >= 3
<1>1. pc \in [Threads -> Labels] /\ dequeue_sem \in Nat /\ dequeue_sem + Load(pc) < Len(chain) /\ Len(chain) \in Nat
  BY ListFacts DEF ListInv, ListTypeOK, EnoughItems
<1>2. Load(pc) \in Nat
  BY <1>1, LoadAtLeast
<1>3. \A c \in Consumers : pc[c] \in WantLabels => Load(pc) > 0
  BY <1>1, LoadAtLeast
<1>4. \A c \in Consumers, p \in Producers : pc[c] \in WantLabels /\ pc[p] \in PostLabels => Load(pc) > 1
  BY <1>1, LoadAtLeast
<1>5. (Load(pc) > 0 => Len(chain) >= 2) /\ (Load(pc) > 1 => Len(chain) >= 3)
  BY <1>1, <1>2
<1>6. Len(chain) >= 2 => next[head] = chain[2]
  <2>1. Len(chain) >= 2 => 1 \in 1 .. Len(chain) - 1
    BY <1>1
  <2>2. \A i \in 1 .. Len(chain) - 1 : next[chain[i]] = chain[i + 1]
    BY DEF ListInv, ChainIntact
  <2> QED
    BY <2>1, <2>2 DEF ListInv, ChainIntact
<1> QED
  BY <1>3, <1>4, <1>5, <1>6

\* Whoever does not take write_lock has two items before it.
LEMMA LockReadInv == ASSUME ListInv, NEW c \in Consumers, LockRead(c) PROVE ListInv'
<1>1. PICK l \in {"lockWrite", "remove"} : pc' = [pc EXCEPT ![c] = l] /\ (l = "remove" => next[head] # tail)
  BY DEF LockRead, Goto, IsSingleton
<1>2. /\ pc[c] = "lock" /\ read_lock = {} /\ read_lock' = {c} /\ write_lock' = write_lock
      /\ data' = data /\ next' = next /\ allocated' = allocated /\ head' = head /\ tail' = tail
      /\ dequeue_sem' = dequeue_sem /\ iter' = iter /\ node' = node /\ sent' = sent /\ freed' = freed
      /\ chain' = chain /\ inserted' = inserted /\ dequeued' = dequeued
  BY DEF LockRead, listVars, semVars, ghostVars
<1>3. /\ Producers \intersect Consumers = {} /\ Producers \subseteq Threads /\ Consumers \subseteq Threads
      /\ Len(chain) \in Nat /\ chain[Len(chain)] \in Nodes
  BY ListFacts
<1>4. pc \in [Threads -> Labels] /\ c \notin write_lock
  BY <1>2 DEF ListInv, ListTypeOK, LocksHeld
<1>5. pc' \in [Threads -> Labels] /\ pc'[c] = l /\ \A x \in Threads : x # c => pc'[x] = pc[x]
  BY <1>1, <1>3, <1>4 DEF Labels
<1>6. \A p \in Producers : pc'[p] = pc[p]
  BY <1>3, <1>5
<1>7. \A b \in Consumers : pc[b] \notin {"lockWrite", "remove", "free"} /\ (b # c => pc'[b] = pc[b])
  BY <1>2, <1>3, <1>5 DEF ListInv, LocksHeld
<1>8. \A b \in Consumers : pc'[b] # "free" /\ pc[b] # "free"
  BY <1>5, <1>7
<1>9. l = "remove" => Len(chain) >= 3
  <2>1. Len(chain) >= 2
    BY <1>2, ItemsFound DEF WantLabels
  <2>2. ASSUME l = "remove", Len(chain) = 2 PROVE FALSE
    <3>1. next[head] = chain[2] /\ tail # chain[2]
      BY <1>1, <1>2, <2>2, ItemsFound DEF WantLabels
    <3>2. PICK p \in Producers : pc[p] = "tail"
      BY <2>2, <3>1 DEF ListInv, TailKnown
    <3>3. Len(chain) >= 3
      BY <1>2, <3>2, ItemsFound DEF WantLabels, PostLabels
    <3> QED
      BY <2>2, <3>3
  <2>3. \A k \in Nat : k >= 2 /\ k # 2 => k >= 3
    OBVIOUS
  <2> QED
    BY <1>3, <2>1, <2>2, <2>3, Zenon
<1>10. ListTypeOK'
  BY <1>2, <1>5 DEF ListInv, ListTypeOK
<1>11. LocksHeld'
  BY <1>2, <1>5, <1>6, <1>7 DEF ListInv, LocksHeld
<1>12. ChainIntact'
  BY <1>2 DEF ListInv, ChainIntact
<1>13. AddingKnown'
  BY <1>2, <1>6 DEF ListInv, AddingKnown, InChain
<1>14. FreeingKnown'
  BY <1>2, <1>5, <1>7, <1>8, <1>9 DEF ListInv, FreeingKnown
<1>15. AllocatedKnown'
  BY <1>2, <1>6, <1>8 DEF ListInv, AllocatedKnown, InChain
<1>16. TailKnown'
  BY <1>2, <1>6, <1>8 DEF ListInv, TailKnown
<1>17. EnoughItems'
  <2>1. PICK k : k = Len(chain)
    OBVIOUS
  <2>2. /\ c \in Threads /\ l \in Labels /\ k \in Nat /\ k = Len(chain')
        /\ Share(c, l) + Len(chain) <= Share(c, pc[c]) + k
    BY <1>2, <1>3, <2>1 DEF Labels, Share, WantLabels, PostLabels
  <2> QED
    BY <1>1, <1>2, <2>2, EnoughMove
<1>18. InOrder'
  BY <1>2 DEF ListInv, InOrder, Contents
<1> QED
  BY <1>10, <1>11, <1>12, <1>13, <1>14, <1>15, <1>16, <1>17, <1>18 DEF ListInv

\* With both locks nobody else is in a critical section.
LEMMA LockWriteInv == ASSUME ListInv, NEW c \in Consumers, LockWrite(c) PROVE ListInv'
<1>1. /\ pc[c] = "lockWrite" /\ write_lock = {} /\ write_lock' = {c} /\ read_lock' = read_lock
      /\ pc' = [pc EXCEPT ![c] = "remove"]
      /\ data' = data /\ next' = next /\ allocated' = allocated /\ head' = head /\ tail' = tail
      /\ dequeue_sem' = dequeue_sem /\ iter' = iter /\ node' = node /\ sent' = sent /\ freed' = freed
      /\ chain' = chain /\ inserted' = inserted /\ dequeued' = dequeued
  BY DEF LockWrite, Goto, listVars, semVars, ghostVars
<1>2. /\ Producers \intersect Consumers = {} /\ Producers \subseteq Threads /\ Consumers \subseteq Threads
      /\ Len(chain) \in Nat
  BY ListFacts
<1>3. pc \in [Threads -> Labels] /\ read_lock = {c}
  BY <1>1 DEF ListInv, ListTypeOK, LocksHeld
<1>4. pc' \in [Threads -> Labels] /\ pc'[c] = "remove" /\ \A x \in Threads : x # c => pc'[x] = pc[x]
  BY <1>1, <1>2, <1>3 DEF Labels
<1>5. \A p \in Producers : pc'[p] = pc[p] /\ pc[p] \notin {"link", "tail"}
  BY <1>1, <1>2, <1>4 DEF ListInv, LocksHeld
<1>6. \A b \in Consumers : b # c => pc'[b] = pc[b] /\ pc[b] \notin {"lockWrite", "remove", "free"}
  BY <1>2, <1>3, <1>4 DEF ListInv, LocksHeld
<1>7. \A b \in Consumers : pc'[b] # "free" /\ pc[b] # "free"
  BY <1>1, <1>4, <1>6
<1>8. ListTypeOK'
  BY <1>1, <1>4 DEF ListInv, ListTypeOK
<1>9. LocksHeld'
  BY <1>1, <1>3, <1>4, <1>5, <1>6 DEF ListInv, LocksHeld
<1>10. ChainIntact'
  BY <1>1 DEF ListInv, ChainIntact
<1>11. AddingKnown'
  BY <1>5 DEF AddingKnown
<1>12. FreeingKnown'
  BY <1>1, <1>4, <1>6, <1>7 DEF ListInv, FreeingKnown
<1>13. AllocatedKnown'
  BY <1>1, <1>5, <1>7 DEF ListInv, AllocatedKnown, InChain
<1>14. TailKnown'
  BY <1>1, <1>5, <1>7 DEF ListInv, TailKnown
<1>15. EnoughItems'
  <2>1. PICK l, k : l = "remove" /\ k = Len(chain)
    OBVIOUS
  <2>2. /\ c \in Threads /\ l \in Labels /\ pc' = [pc EXCEPT ![c] = l] /\ k \in Nat /\ k = Len(chain')
        /\ Share(c, l) + Len(chain) <= Share(c, pc[c]) + k
    BY <1>1, <1>2, <2>1 DEF Labels, Share, WantLabels, PostLabels
  <2> QED
    BY <1>1, <2>2, EnoughMove
<1>16. InOrder'
  BY <1>1 DEF ListInv, InOrder, Contents
<1> QED
  BY <1>8, <1>9, <1>10, <1>11, <1>12, <1>13, <1>14, <1>15, <1>16 DEF ListInv

\* The node that was taken out is free, and tail is right if the list is empty now.
LEMMA FreeInv == ASSUME ListInv, NEW c \in Consumers, Free(c) PROVE ListInv'
<1>1. /\ pc[c] = "free" /\ pc' = [pc EXCEPT ![c] = "post"] /\ allocated' = allocated \ {freed[c]}
      /\ freed' = [freed EXCEPT ![c] = NULL] /\ tail' = (IF next[head] = NULL THEN head ELSE tail)
      /\ read_lock' = {} /\ write_lock' = write_lock \ {c}
      /\ data' = data /\ next' = next /\ head' = head
      /\ dequeue_sem' = dequeue_sem /\ iter' = iter /\ node' = node /\ sent' = sent
      /\ chain' = chain /\ inserted' = inserted /\ dequeued' = dequeued
  BY DEF Free, NewTail, Goto, semVars, ghostVars
<1>2. /\ Producers \intersect Consumers = {} /\ Producers \subseteq Threads /\ Consumers \subseteq Threads
      /\ Len(chain) \in Nat /\ Len(chain) >= 1 /\ head \in Nodes /\ NULL \notin Nodes
      /\ \A i \in 1 .. Len(chain) : chain[i] \in Nodes
  BY ListFacts
<1>3. pc \in [Threads -> Labels] /\ read_lock = {c} /\ freed \in [Consumers -> Nodes \union {NULL}] /\ freed[c] # NULL
  BY <1>1 DEF ListInv, ListTypeOK, LocksHeld, FreeingKnown
<1>4. pc' \in [Threads -> Labels] /\ pc'[c] = "post" /\ \A x \in Threads : x # c => pc'[x] = pc[x]
  BY <1>1, <1>2, <1>3 DEF Labels
<1>5. \A p \in Producers : pc'[p] = pc[p] /\ p # c
  BY <1>2, <1>4
<1>6. \A b \in Consumers : b # c => pc'[b] = pc[b] /\ pc[b] \notin {"lockWrite", "remove", "free"}
  BY <1>2, <1>3, <1>4 DEF ListInv, LocksHeld
<1>7. \A b \in Consumers : pc'[b] \notin {"lockWrite", "remove", "free"}
  BY <1>4, <1>6
<1>8. ~InChain(freed[c]) /\ \A p \in Producers : pc[p] = "link" => node[p] # freed[c]
  BY <1>1 DEF ListInv, FreeingKnown
<1>9. ListTypeOK'
  BY <1>1, <1>2, <1>3, <1>4 DEF ListInv, ListTypeOK
<1>10. LocksHeld'
  BY <1>1, <1>4, <1>5, <1>6, <1>7 DEF ListInv, LocksHeld
<1>11. ChainIntact'
  BY <1>1 DEF ListInv, ChainIntact
<1>12. AddingKnown'
  BY <1>1, <1>5 DEF ListInv, AddingKnown, InChain
<1>13. FreeingKnown'
  <2>1. \A b \in Consumers : freed'[b] = NULL
    BY <1>1, <1>3, <1>6 DEF ListInv, FreeingKnown
  <2> QED
    BY <1>7, <2>1 DEF FreeingKnown
<1>14. AllocatedKnown'
  <2>1. \A m \in Nodes : m \in allocated <=>
          InChain(m) \/ (\E p \in Producers : pc[p] = "link" /\ node[p] = m) \/ freed[c] = m
    BY <1>1, <1>6 DEF ListInv, AllocatedKnown
  <2>2. \A m \in Nodes : m \in allocated' <=>
          InChain(m) \/ (\E p \in Producers : pc[p] = "link" /\ node[p] = m)
    BY <1>1, <1>8, <2>1
  <2> QED
    BY <1>1, <1>5, <1>7, <2>2 DEF AllocatedKnown, InChain
<1>15. TailKnown'
  <2>1. CASE Len(chain) = 1
    BY <1>1, <2>1 DEF ListInv, ChainIntact, TailKnown
  <2>2. CASE Len(chain) # 1
    <3>1. 1 \in 1 .. Len(chain) - 1 /\ 2 \in 1 .. Len(chain)
      <4>1. \A k \in Nat : k >= 1 /\ k # 1 => 1 \in 1 .. k - 1 /\ 2 \in 1 .. k
        OBVIOUS
      <4> QED
        BY <1>2, <2>2, <4>1, Zenon
    <3>2. \A i \in 1 .. Len(chain) - 1 : next[chain[i]] = chain[i + 1]
      BY DEF ListInv, ChainIntact
    <3>3. next[head] = chain[2]
      BY <3>1, <3>2 DEF ListInv, ChainIntact
    <3>4. tail' = tail
      BY <1>1, <1>2, <3>1, <3>3
    <3> QED
      BY <1>1, <1>5, <2>2, <3>4 DEF ListInv, TailKnown
  <2> QED
    BY <2>1, <2>2
<1>16. EnoughItems'
  <2>1. PICK l, k : l = "post" /\ k = Len(chain)
    OBVIOUS
  <2>2. /\ c \in Threads /\ l \in Labels /\ pc' = [pc EXCEPT ![c] = l] /\ k \in Nat /\ k = Len(chain')
        /\ Share(c, l) + Len(chain) <= Share(c, pc[c]) + k
    BY <1>1, <1>2, <2>1 DEF Labels, Share, WantLabels, PostLabels
  <2> QED
    BY <1>1, <2>2, EnoughMove
<1>17. InOrder'
  BY <1>1 DEF ListInv, InOrder, Contents
<1> QED
  BY <1>9, <1>10, <1>11, <1>12, <1>13, <1>14, <1>15, <1>16, <1>17 DEF ListInv

\* A sequence without its second element.
LEMMA RemoveSecond ==
  ASSUME NEW S, NEW s \in Seq(S), Len(s) >= 2
  PROVE  /\ RemoveAt(s, 2) \in Seq(S) /\ Len(RemoveAt(s, 2)) = Len(s) - 1
         /\ RemoveAt(s, 2)[1] = s[1]
         /\ \A i \in 2 .. Len(s) - 1 : RemoveAt(s, 2)[i] = s[i + 1]
<1>1. PICK n : n = Len(s)
  OBVIOUS
<1>2. n \in Nat /\ n >= 2 /\ \A i \in 1 .. n : s[i] \in S
  BY <1>1
<1>3. PICK u, v : u = SubSeq(s, 1, 1) /\ v = SubSeq(s, 3, n)
  OBVIOUS
<1>4. u \in Seq(S) /\ Len(u) = 1 /\ u[1] = s[1]
  <2>1. \A i \in 1 .. 1 : s[i] \in S
    BY <1>2
  <2>2. /\ SubSeq(s, 1, 1) \in Seq(S) /\ Len(SubSeq(s, 1, 1)) = IF 1 <= 1 THEN 1 - 1 + 1 ELSE 0
        /\ \A i \in 1 .. 1 - 1 + 1 : SubSeq(s, 1, 1)[i] = s[1 + i - 1]
    BY <2>1, SubSeqProperties
  <2> QED
    BY <1>3, <2>2
<1>5. v \in Seq(S) /\ Len(v) = n - 2 /\ \A i \in 1 .. n - 2 : v[i] = s[i + 2]
  <2>1. 3 \in Int /\ n \in Int /\ \A i \in 3 .. n : s[i] \in S
    BY <1>2
  <2>2. /\ SubSeq(s, 3, n) \in Seq(S) /\ Len(SubSeq(s, 3, n)) = IF 3 <= n THEN n - 3 + 1 ELSE 0
        /\ \A i \in 1 .. n - 3 + 1 : SubSeq(s, 3, n)[i] = s[3 + i - 1]
    BY <2>1, SubSeqProperties
  <2>3. /\ v \in Seq(S) /\ Len(v) = IF 3 <= n THEN n - 3 + 1 ELSE 0
        /\ \A i \in 1 .. n - 3 + 1 : v[i] = s[3 + i - 1]
    BY <1>3, <2>2, Zenon
  <2>4. n - 3 + 1 = n - 2 /\ \A i \in 1 .. n - 2 : 3 + i - 1 = i + 2
    BY <1>2
  <2> QED
    BY <1>2, <2>3, <2>4
<1>6. PICK r : r = u \o v
  OBVIOUS
<1>7. RemoveAt(s, 2) = r
  BY <1>1, <1>3, <1>6 DEF RemoveAt
<1>8. /\ r \in Seq(S) /\ Len(r) = Len(u) + Len(v)
      /\ \A i \in 1 .. Len(u) + Len(v) : r[i] = IF i <= Len(u) THEN u[i] ELSE v[i - Len(u)]
  BY <1>4, <1>5, <1>6, ConcatProperties
<1>9. Len(u) + Len(v) = n - 1
  BY <1>2, <1>4, <1>5
<1>10. r \in Seq(S) /\ Len(r) = n - 1 /\ \A i \in 1 .. n - 1 : r[i] = IF i <= 1 THEN u[i] ELSE v[i - 1]
  BY <1>4, <1>8, <1>9, Zenon
<1>11. r[1] = s[1]
  BY <1>2, <1>4, <1>10
<1>12. ASSUME NEW i \in 2 .. n - 1 PROVE r[i] = s[i + 1]
  <2>1. i \in 1 .. n - 1 /\ ~(i <= 1) /\ i - 1 \in 1 .. n - 2 /\ (i - 1) + 2 = i + 1
    BY <1>2
  <2>2. r[i] = v[i - 1] /\ v[i - 1] = s[(i - 1) + 2]
    BY <1>5, <1>10, <2>1
  <2> QED
    BY <2>1, <2>2, Zenon
<1> QED
  BY <1>1, <1>7, <1>10, <1>11, <1>12, Zenon

\* A sequence without its first element, which goes to the end of another one.
LEMMA MoveFirst ==
  ASSUME NEW S, NEW r \in Seq(S), NEW s \in Seq(S), NEW t \in Seq(S),
         Len(s) = Len(t) + 1, \A i \in 1 .. Len(t) : t[i] = s[i + 1]
  PROVE  r \o s = Append(r, s[1]) \o t
<1>1. PICK q : q = Append(r, s[1])
  OBVIOUS
<1>2. s[1] \in S
  OBVIOUS
<1>3. /\ q \in Seq(S) /\ Len(q) = Len(r) + 1 /\ q[Len(r) + 1] = s[1]
      /\ \A i \in 1 .. Len(r) : q[i] = r[i]
  BY <1>1, <1>2
<1>4. PICK x, y : x = r \o s /\ y = q \o t
  OBVIOUS
<1>5. /\ x \in Seq(S) /\ Len(x) = Len(r) + Len(s)
      /\ \A i \in 1 .. Len(r) + Len(s) : x[i] = IF i <= Len(r) THEN r[i] ELSE s[i - Len(r)]
  BY <1>4, ConcatProperties
<1>6. /\ y \in Seq(S) /\ Len(y) = Len(q) + Len(t)
      /\ \A i \in 1 .. Len(q) + Len(t) : y[i] = IF i <= Len(q) THEN q[i] ELSE t[i - Len(q)]
  BY <1>3, <1>4, ConcatProperties
<1>7. Len(q) + Len(t) = Len(r) + Len(s) /\ Len(r) \in Nat /\ Len(s) \in Nat
  BY <1>3
<1>8. Len(x) = Len(r) + Len(s) /\ Len(y) = Len(r) + Len(s)
  BY <1>5, <1>6, <1>7
<1>9. \A i \in 1 .. Len(r) + Len(s) : x[i] = y[i]
  <2> SUFFICES ASSUME NEW i \in 1 .. Len(r) + Len(s) PROVE x[i] = y[i]
    OBVIOUS
  <2>1. x[i] = IF i <= Len(r) THEN r[i] ELSE s[i - Len(r)]
    BY <1>5
  <2>2. y[i] = IF i <= Len(r) + 1 THEN q[i] ELSE t[i - (Len(r) + 1)]
    BY <1>3, <1>6, <1>7, Zenon
  <2>3. CASE i <= Len(r)
    BY <1>3, <2>1, <2>2, <2>3
  <2>4. CASE i = Len(r) + 1
    BY <1>3, <2>1, <2>2, <2>4
  <2>5. CASE i > Len(r) + 1
    <3>1. i - (Len(r) + 1) \in 1 .. Len(t) /\ i - (Len(r) + 1) + 1 = i - Len(r)
      BY <2>5
    <3>2. t[i - (Len(r) + 1)] = s[i - Len(r)]
      BY <3>1
    <3> QED
      BY <2>1, <2>2, <2>5, <3>2
  <2>6. \A a, b \in Int : a <= b \/ a = b + 1 \/ a > b + 1
    OBVIOUS
  <2>7. i \in Int /\ Len(r) \in Int
    BY <1>7
  <2> QED
    BY <2>3, <2>4, <2>5, <2>6, <2>7
<1>10. x = y
  BY <1>8, <1>9, <1>5, <1>6, SeqEqual
<1> QED
  BY <1>1, <1>4, <1>10, Zenon

\* The second node leaves the list, its item moves to the first; the dummy moves with it only
\* if write_lock is held.
LEMMA SLLRemoveInv == ASSUME ListInv, NEW c \in Consumers, SLLRemove(c) PROVE ListInv'
<1>1. /\ pc[c] = "remove" /\ pc' = [pc EXCEPT ![c] = "free"]
      /\ dequeued' = Append(dequeued, data[head])
      /\ data' = [data EXCEPT ![head] = data[next[head]]] /\ next' = [next EXCEPT ![head] = next[next[head]]]
      /\ freed' = [freed EXCEPT ![c] = next[head]] /\ chain' = RemoveAt(chain, 2)
      /\ allocated' = allocated /\ head' = head /\ tail' = tail /\ write_lock' = write_lock
      /\ read_lock' = read_lock /\ dequeue_sem' = dequeue_sem /\ iter' = iter /\ node' = node
      /\ sent' = sent /\ inserted' = inserted
  BY DEF SLLRemove, Goto, semVars, lockVars
<1>2. /\ Producers \intersect Consumers = {} /\ Producers \subseteq Threads /\ Consumers \subseteq Threads
      /\ Len(chain) \in Nat /\ \A i \in 1 .. Len(chain) : chain[i] \in Nodes
      /\ head \in Nodes /\ NULL \notin Nodes
  BY ListFacts
<1>3. Len(chain) >= 2 /\ next[head] = chain[2]
  BY <1>1, ItemsFound DEF WantLabels
<1>4. PICK k, h, w, s : k = Len(chain) /\ h = head /\ w = next[head] /\ s = chain
  OBVIOUS
<1>5. /\ k \in Nat /\ k >= 2 /\ h \in Nodes /\ w \in Nodes /\ s[1] = h /\ s[2] = w
      /\ s \in Seq(Nodes) /\ Len(s) = k /\ \A i \in 1 .. k : s[i] \in Nodes
  BY <1>2, <1>3, <1>4 DEF ListInv, ListTypeOK, ChainIntact
<1>6. /\ \A i, j \in 1 .. k : s[i] = s[j] => i = j
      /\ next[s[k]] = NULL /\ \A i \in 1 .. k - 1 : next[s[i]] = s[i + 1]
  BY <1>4 DEF ListInv, ChainIntact
<1>7. /\ pc \in [Threads -> Labels] /\ next \in [Nodes -> Nodes \union {NULL}] /\ data \in [Nodes -> Data]
      /\ freed \in [Consumers -> Nodes \union {NULL}] /\ inserted \in Seq(Data) /\ dequeued \in Seq(Data)
  BY DEF ListInv, ListTypeOK
<1>8. pc' \in [Threads -> Labels] /\ pc'[c] = "free" /\ \A x \in Threads : x # c => pc'[x] = pc[x]
  BY <1>1, <1>2, <1>7 DEF Labels
<1>9. \A b \in Consumers : b # c => pc'[b] = pc[b] /\ pc[b] \notin {"lockWrite", "remove", "free"}
  BY <1>1, <1>2, <1>8 DEF ListInv, LocksHeld
<1>10. \A p \in Producers : pc'[p] = pc[p]
  BY <1>2, <1>8
<1>11. PICK r : r = chain'
  OBVIOUS
<1>12. /\ r \in Seq(Nodes) /\ Len(r) = k - 1 /\ r[1] = h
       /\ \A i \in 2 .. k - 1 : r[i] = s[i + 1]
  <2>1. /\ RemoveAt(s, 2) \in Seq(Nodes) /\ Len(RemoveAt(s, 2)) = Len(s) - 1 /\ RemoveAt(s, 2)[1] = s[1]
        /\ \A i \in 2 .. Len(s) - 1 : RemoveAt(s, 2)[i] = s[i + 1]
    BY <1>5, RemoveSecond
  <2>2. r = RemoveAt(s, 2)
    BY <1>1, <1>4, <1>11
  <2> QED
    BY <1>5, <2>1, <2>2, Zenon
<1>13. /\ next'[h] = next[w] /\ data'[h] = data[w]
       /\ \A m \in Nodes : m # h => next'[m] = next[m] /\ data'[m] = data[m]
  BY <1>1, <1>4, <1>5, <1>7
\* Where the nodes that stay are: the first, and the others one place further on.
<1>14. \A i \in 1 .. k - 1 : i = 1 \/ i \in 2 .. k - 1
  BY <1>5
<1>15. \A i \in 2 .. k - 1 : i + 1 \in 3 .. k /\ i + 1 \in 1 .. k /\ i + 1 # 1 /\ i + 1 # 2
  BY <1>5
<1>16. 1 \in 1 .. k /\ 2 \in 1 .. k /\ 1 \in 1 .. k - 1 /\ h # w
  BY <1>5, <1>6
<1>17. \A i \in 2 .. k - 1 : r[i] # h /\ r[i] # w /\ r[i] \in Nodes
  BY <1>5, <1>6, <1>12, <1>15, <1>16
<1>18. \A m : (\E i \in 1 .. k - 1 : r[i] = m) <=> (\E i \in 1 .. k : s[i] = m) /\ m # w
  <2>1. ASSUME NEW i \in 1 .. k - 1 PROVE r[i] # w /\ \E j \in 1 .. k : s[j] = r[i]
    BY <1>5, <1>12, <1>14, <1>15, <1>16, <1>17
  <2>2. ASSUME NEW j \in 1 .. k, s[j] # w PROVE \E i \in 1 .. k - 1 : r[i] = s[j]
    <3>1. j # 2
      BY <1>5, <2>2
    <3>2. CASE j = 1
      BY <1>5, <1>12, <1>16, <3>2
    <3>3. CASE j # 1
      <4>1. j - 1 \in 2 .. k - 1 /\ j - 1 \in 1 .. k - 1 /\ (j - 1) + 1 = j
        BY <1>5, <3>1, <3>3
      <4>2. r[j - 1] = s[(j - 1) + 1]
        BY <1>12, <4>1
      <4>3. r[j - 1] = s[j]
        BY <4>1, <4>2, Zenon
      <4> QED
        BY <4>1, <4>3
    <3> QED
      BY <3>2, <3>3
  <2> QED
    BY <2>1, <2>2
<1>19. k = 2 => c \in write_lock /\ \A p \in Producers : pc[p] \notin {"link", "tail"}
  <2>1. k = 2 => c \in write_lock
    BY <1>1, <1>4 DEF ListInv, FreeingKnown
  <2> QED
    BY <1>2, <2>1 DEF ListInv, LocksHeld
<1>20. k # 2 => k - 1 \in 2 .. k - 1 /\ (k - 1) + 1 = k /\ r[k - 1] = s[k]
  <2>1. k # 2 => k - 1 \in 2 .. k - 1 /\ (k - 1) + 1 = k
    BY <1>5
  <2>2. k # 2 => r[k - 1] = s[(k - 1) + 1]
    BY <1>12, <2>1
  <2> QED
    BY <2>1, <2>2, Zenon
<1>21. ListTypeOK'
  <2>1. data[head] \in Data
    BY <1>2, <1>7
  <2>2. dequeued' \in Seq(Data)
    BY <1>1, <1>7, <2>1
  <2>3. next' \in [Nodes -> Nodes \union {NULL}] /\ data' \in [Nodes -> Data]
    BY <1>1, <1>4, <1>5, <1>7
  <2>4. freed' \in [Consumers -> Nodes \union {NULL}]
    BY <1>1, <1>4, <1>5, <1>7
  <2>5. chain' \in Seq(Nodes) /\ chain' # << >>
    BY <1>5, <1>11, <1>12
  <2> QED
    BY <1>1, <1>8, <2>2, <2>3, <2>4, <2>5 DEF ListInv, ListTypeOK
<1>22. LocksHeld'
  BY <1>1, <1>8, <1>9, <1>10 DEF ListInv, LocksHeld
<1>23. ChainIntact'
  <2>1. \A i, j \in 1 .. k - 1 : r[i] = r[j] => i = j
    <3> SUFFICES ASSUME NEW i \in 1 .. k - 1, NEW j \in 1 .. k - 1, r[i] = r[j] PROVE i = j
      OBVIOUS
    <3>1. CASE i = 1 \/ j = 1
      BY <1>12, <1>14, <1>17, <3>1
    <3>2. CASE i # 1 /\ j # 1
      <4>1. i \in 2 .. k - 1 /\ j \in 2 .. k - 1
        BY <1>14, <3>2
      <4>2. s[i + 1] = s[j + 1]
        BY <1>12, <4>1
      <4>3. i + 1 = j + 1
        BY <1>6, <1>15, <4>1, <4>2
      <4> QED
        BY <4>3
    <3> QED
      BY <3>1, <3>2
  <2>2. next'[r[k - 1]] = NULL
    <3>1. CASE k = 2
      BY <1>5, <1>6, <1>12, <1>13, <3>1
    <3>2. CASE k # 2
      BY <1>6, <1>13, <1>17, <1>20, <3>2
    <3> QED
      BY <3>1, <3>2
  <2>3. ASSUME NEW i \in 1 .. k - 2 PROVE next'[r[i]] = r[i + 1]
    <3>1. i + 1 \in 2 .. k - 1 /\ (i + 1) + 1 \in 3 .. k /\ i \in 1 .. k - 1 /\ i + 1 \in 1 .. k - 1
      BY <1>5
    <3>2. r[i + 1] = s[(i + 1) + 1] /\ next[s[i + 1]] = s[(i + 1) + 1]
      BY <1>6, <1>12, <3>1
    <3>3. CASE i = 1
      <4>1. i + 1 = 2
        BY <3>3
      <4>2. next[w] = r[i + 1]
        BY <1>5, <3>2, <4>1
      <4> QED
        BY <1>12, <1>13, <3>3, <4>2
    <3>4. CASE i # 1
      <4>1. i \in 2 .. k - 1
        BY <1>14, <3>1, <3>4
      <4> QED
        BY <1>12, <1>13, <1>17, <3>2, <4>1
    <3> QED
      BY <3>3, <3>4
  <2>4. Len(r) - 1 = k - 2
    BY <1>5, <1>12
  <2>5. /\ \A i, j \in 1 .. Len(r) : r[i] = r[j] => i = j
        /\ head' = r[1] /\ next'[r[Len(r)]] = NULL
        /\ \A i \in 1 .. Len(r) - 1 : next'[r[i]] = r[i + 1]
    BY <1>1, <1>4, <1>12, <2>1, <2>2, <2>3, <2>4, Zenon
  <2> QED
    BY <1>11, <2>5, Zenon DEF ChainIntact
<1>24. AddingKnown'
  <2>1. ASSUME NEW p \in Producers, pc[p] = "link"
        PROVE  /\ node[p] \in Nodes /\ node[p] # h /\ ~\E i \in 1 .. k - 1 : r[i] = node[p]
               /\ next'[node[p]] = NULL /\ iter[p] = r[k - 1]
    <3>1. /\ node[p] \in Nodes /\ ~\E i \in 1 .. k : s[i] = node[p]
          /\ next[node[p]] = NULL /\ iter[p] = s[k]
      BY <1>4, <2>1 DEF ListInv, AddingKnown, InChain
    <3>2. node[p] # h
      BY <1>5, <1>16, <3>1
    <3> QED
      BY <1>13, <1>18, <1>19, <1>20, <2>1, <3>1, <3>2
  <2>2. ASSUME NEW p \in Producers, pc[p] = "tail" PROVE node[p] = r[k - 1]
    BY <1>4, <1>19, <1>20, <2>2 DEF ListInv, AddingKnown
  <2>3. \A p \in Producers :
          /\ pc'[p] = "link" => /\ node'[p] \in Nodes /\ ~\E i \in 1 .. Len(r) : r[i] = node'[p]
                                /\ next'[node'[p]] = NULL /\ iter'[p] = r[Len(r)]
          /\ pc'[p] = "tail" => node'[p] = r[Len(r)]
    BY <1>1, <1>10, <1>12, <2>1, <2>2
  <2> QED
    BY <1>11, <2>3, Zenon DEF AddingKnown, InChain
<1>25. FreeingKnown'
  <2>1. \A b \in Consumers : freed'[b] # NULL <=> pc'[b] = "free"
    <3>1. freed'[c] # NULL /\ \A b \in Consumers : b # c => freed'[b] = freed[b]
      BY <1>1, <1>2, <1>4, <1>5, <1>7
    <3> QED
      BY <1>8, <1>9, <3>1 DEF ListInv, FreeingKnown
  <2>2. \A b \in Consumers : pc'[b] \in {"free", "remove"} => b = c
    BY <1>9
  <2>3. freed'[c] = w
    BY <1>1, <1>4, <1>7
  <2>4. ~\E i \in 1 .. Len(r) : r[i] = w
    BY <1>12, <1>18
  <2>5. \A p \in Producers : pc'[p] = "link" => node'[p] # w
    <3>1. \A p \in Producers : pc[p] = "link" => ~\E i \in 1 .. k : s[i] = node[p]
      BY <1>4 DEF ListInv, AddingKnown, InChain
    <3> QED
      BY <1>1, <1>5, <1>10, <1>16, <3>1
  <2>6. Len(r) = 1 => c \in write_lock'
    <3>1. Len(r) = 1 => k = 2
      <4>1. \A a \in Nat : a - 1 = 1 => a = 2
        OBVIOUS
      <4> QED
        BY <1>5, <1>12, <4>1, Zenon
    <3> QED
      BY <1>1, <1>19, <3>1
  <2>7. pc'[c] # "remove"
    BY <1>8
  <2>8. \A b \in Consumers :
          /\ freed'[b] # NULL <=> pc'[b] = "free"
          /\ pc'[b] = "free" => /\ ~\E i \in 1 .. Len(r) : r[i] = freed'[b]
                                /\ \A p \in Producers : pc'[p] = "link" => node'[p] # freed'[b]
                                /\ Len(r) = 1 => b \in write_lock'
          /\ pc'[b] = "remove" /\ b \notin write_lock' => Len(r) >= 3
    BY <2>1, <2>2, <2>3, <2>4, <2>5, <2>6, <2>7
  <2> QED
    BY <1>11, <2>8, Zenon DEF FreeingKnown, InChain
<1>26. AllocatedKnown'
  <2>1. \A m \in Nodes : m \in allocated <=>
          (\E i \in 1 .. k : s[i] = m) \/ \E p \in Producers : pc[p] = "link" /\ node[p] = m
    BY <1>1, <1>4, <1>9 DEF ListInv, AllocatedKnown, InChain
  <2>2. \A m : (\E b \in Consumers : pc'[b] = "free" /\ freed'[b] = m) <=> m = w
    <3>1. freed'[c] = w
      BY <1>1, <1>4, <1>7
    <3> QED
      BY <1>8, <1>9, <3>1
  <2>3. \E i \in 1 .. k : s[i] = w
    BY <1>5, <1>16
  <2>4. \A m \in Nodes : m \in allocated <=>
          \/ \E i \in 1 .. k - 1 : r[i] = m
          \/ \E p \in Producers : pc[p] = "link" /\ node[p] = m
          \/ m = w
    BY <1>18, <2>1, <2>3
  <2>5. \A m : (\E p \in Producers : pc'[p] = "link" /\ node'[p] = m)
               <=> (\E p \in Producers : pc[p] = "link" /\ node[p] = m)
    BY <1>1, <1>10
  <2>6. \A m \in Nodes : m \in allocated' <=>
          \/ \E i \in 1 .. Len(r) : r[i] = m
          \/ \E p \in Producers : pc'[p] = "link" /\ node'[p] = m
          \/ \E b \in Consumers : pc'[b] = "free" /\ freed'[b] = m
    <3> SUFFICES ASSUME NEW m \in Nodes
                 PROVE  m \in allocated' <=>
                          \/ \E i \in 1 .. Len(r) : r[i] = m
                          \/ \E p \in Producers : pc'[p] = "link" /\ node'[p] = m
                          \/ \E b \in Consumers : pc'[b] = "free" /\ freed'[b] = m
      OBVIOUS
    <3>1. m \in allocated' <=> m \in allocated
      BY <1>1
    <3>2. (\E i \in 1 .. Len(r) : r[i] = m) <=> (\E i \in 1 .. k - 1 : r[i] = m)
      BY <1>12, Zenon
    <3> QED
      BY <2>2, <2>4, <2>5, <3>1, <3>2
  <2> QED
    BY <1>11, <2>6, Zenon DEF AllocatedKnown, InChain
<1>27. TailKnown'
  <2>1. \/ tail' = r[Len(r)]
        \/ \E p \in Producers : pc'[p] = "tail"
        \/ Len(r) = 1 /\ \E b \in Consumers : pc'[b] = "free"
    <3>1. CASE k = 2
      BY <1>8, <1>12, <3>1
    <3>2. CASE k # 2
      BY <1>1, <1>4, <1>5, <1>10, <1>12, <1>20, <3>2 DEF ListInv, TailKnown
    <3> QED
      BY <3>1, <3>2
  <2> QED
    BY <1>11, <2>1, Zenon DEF TailKnown
<1>28. EnoughItems'
  <2>1. PICK l, j : l = "free" /\ j = k - 1
    OBVIOUS
  <2>2. /\ c \in Threads /\ l \in Labels /\ pc' = [pc EXCEPT ![c] = l] /\ j \in Nat /\ j = Len(chain')
        /\ Share(c, l) + Len(chain) <= Share(c, pc[c]) + j
    BY <1>1, <1>2, <1>4, <1>5, <1>11, <1>12, <2>1 DEF Labels, Share, WantLabels, PostLabels
  <2> QED
    BY <1>1, <2>2, EnoughMove
<1>29. InOrder'
  <2>1. PICK x, y, d : x = Contents /\ y = Contents' /\ d = dequeued
    OBVIOUS
  <2>2. x = [i \in 1 .. k - 1 |-> data[s[i]]]
    BY <1>4, <2>1 DEF Contents
  <2>3. y = [i \in 1 .. k - 2 |-> data'[r[i]]]
    BY <1>5, <1>11, <1>12, <2>1 DEF Contents
  <2>4. x \in Seq(Data) /\ Len(x) = k - 1
    BY <1>5, <1>7, <2>2
  <2>5. ASSUME NEW i \in 1 .. k - 2 PROVE data'[r[i]] = x[i + 1] /\ x[i + 1] \in Data
    <3>1. i + 1 \in 2 .. k - 1 /\ i + 1 \in 1 .. k - 1 /\ i \in 1 .. k - 1
      BY <1>5
    <3>2. x[i + 1] = data[s[i + 1]] /\ x[i + 1] \in Data
      <4>1. \A j \in 1 .. k - 1 : x[j] = data[s[j]]
        BY <2>2
      <4>2. \A j \in 1 .. k - 1 : x[j] \in Data
        BY <1>5, <2>4
      <4> QED
        BY <3>1, <4>1, <4>2
    <3>3. CASE i = 1
      <4>1. i + 1 = 2
        BY <3>3
      <4>2. x[i + 1] = data[w]
        BY <1>5, <3>2, <4>1
      <4> QED
        BY <1>12, <1>13, <3>2, <3>3, <4>2
    <3>4. CASE i # 1
      <4>1. i \in 2 .. k - 1
        BY <1>14, <3>1, <3>4
      <4> QED
        BY <1>12, <1>13, <1>17, <3>2, <4>1
    <3> QED
      BY <3>3, <3>4
  <2>6. y \in Seq(Data) /\ Len(y) = k - 2 /\ \A i \in 1 .. k - 2 : y[i] = x[i + 1]
    <3>1. k - 2 \in Nat
      BY <1>5
    <3> QED
      BY <2>3, <2>5, <3>1
  <2>7. Len(x) = Len(y) + 1 /\ \A i \in 1 .. Len(y) : y[i] = x[i + 1]
    BY <1>5, <2>4, <2>6
  <2>8. d \in Seq(Data)
    BY <1>7, <2>1
  <2>9. d \o x = Append(d, x[1]) \o y
    <3>1. \A a, b, e \in Seq(Data) :
            Len(b) = Len(e) + 1 /\ (\A i \in 1 .. Len(e) : e[i] = b[i + 1]) => a \o b = Append(a, b[1]) \o e
      BY MoveFirst, SMTT(30)
    <3> QED
      BY <2>4, <2>6, <2>7, <2>8, <3>1, Zenon
  <2>10. x[1] = data[head]
    BY <1>4, <1>5, <1>16, <2>2
  <2>11. inserted = d \o x
    BY <2>1 DEF ListInv, InOrder
  <2>12. inserted' = Append(dequeued, data[head]) \o y
    BY <1>1, <2>1, <2>9, <2>10, <2>11, Zenon
  <2> QED
    BY <1>1, <2>1, <2>12, Zenon DEF InOrder
<1> QED
  BY <1>21, <1>22, <1>23, <1>24, <1>25, <1>26, <1>27, <1>28, <1>29 DEF ListInv

\* FSQCreate: one node, and nobody inside.
LEMMA ListInitInv == Init => FSQInv
<1> SUFFICES ASSUME Init PROVE ListInv /\ faults = 0
  BY DEF FSQInv
<1>1. SomeNode \in Nodes /\ NULL \notin Nodes
  BY FSQAssumption DEF FSQAssumption, SomeNode
<1>2. /\ chain = <<SomeNode>> /\ chain \in Seq(Nodes) /\ Len(chain) = 1 /\ chain[1] = SomeNode /\ chain # << >>
      /\ \A i \in 1 .. Len(chain) : i = 1
  BY <1>1 DEF Init
<1>3. \A t \in Threads : pc[t] = "idle"
  BY DEF Init
<1>4. Producers \subseteq Threads /\ Consumers \subseteq Threads
  BY DEF Threads
<1>5. ListTypeOK
  <2>1. pc \in [Threads -> Labels] /\ << >> \in Seq(Data)
    BY DEF Init, Labels
  <2>2. next \in [Nodes -> Nodes \union {NULL}] /\ data \in [Nodes -> Data] /\ allocated \subseteq Nodes
    BY <1>1 DEF Init, Data
  <2>3. /\ node \in [Producers -> Nodes \union {NULL}] /\ iter \in [Producers -> Nodes \union {NULL}]
        /\ freed \in [Consumers -> Nodes \union {NULL}] /\ sent \in [Producers -> Nat]
    BY DEF Init
  <2> QED
    BY <1>1, <1>2, <2>1, <2>2, <2>3 DEF Init, ListTypeOK
<1>6. LocksHeld
  BY <1>3, <1>4 DEF Init, LocksHeld
<1>7. ChainIntact
  <2>1. ~\E i \in 1 .. Len(chain) - 1 : TRUE
    BY <1>2
  <2>2. head = chain[1] /\ next[chain[Len(chain)]] = NULL
    BY <1>1, <1>2 DEF Init
  <2> QED
    BY <1>2, <2>1, <2>2 DEF ChainIntact
<1>8. AddingKnown
  BY <1>3, <1>4 DEF AddingKnown
<1>9. FreeingKnown
  BY <1>3, <1>4 DEF Init, FreeingKnown
<1>10. AllocatedKnown
  BY <1>2, <1>3, <1>4 DEF Init, AllocatedKnown, InChain
<1>11. TailKnown
  BY <1>2 DEF Init, TailKnown
<1>12. EnoughItems
  <2>1. {x \in Consumers : pc[x] \in WantLabels} = {} /\ {x \in Producers : pc[x] \in PostLabels} = {}
    BY <1>3, <1>4 DEF WantLabels, PostLabels
  <2>2. CountAt(Consumers, WantLabels, pc) = 0 /\ CountAt(Producers, PostLabels, pc) = 0
    BY <2>1, FS_EmptySet, Zenon DEF CountAt
  <2> QED
    BY <1>2, <2>2 DEF Init, EnoughItems, Load
<1>13. InOrder
  <2>1. Contents = << >>
    BY <1>2 DEF Contents
  <2>2. << >> \o << >> = << >>
    BY ConcatEmptySeq, EmptySeq
  <2> QED
    BY <2>1, <2>2, Zenon DEF Init, InOrder
<1> QED
  BY <1>5, <1>6, <1>7, <1>8, <1>9, <1>10, <1>11, <1>12, <1>13 DEF Init, ListInv

\* Every step keeps the list until a malloc fails.
LEMMA ListNextInv == FSQInv /\ [Next]_vars => FSQInv'
<1> SUFFICES ASSUME FSQInv, [Next]_vars PROVE FSQInv'
  OBVIOUS
<1>1. CASE faults # 0
  <2>1. faults' = faults \/ faults' = faults + 1
    BY DEF Next, FSQEnqueue, FSQDequeue, SemWaitEnqueue, SLLInsert, SLLInsertFails, Link, SetTail, Compare,
           PostDequeue, Undo, SemWaitDequeue, LockRead, LockWrite, SLLRemove, SLLRemoveAborts, Free, PostEnqueue, vars
  <2> QED
    BY <1>1, <2>1 DEF FSQInv
<1>2. CASE faults = 0
  <2>1. ListInv /\ faults \in Nat
    BY <1>2 DEF FSQInv
  <2>2. ASSUME NEW p \in Producers, FSQEnqueue(p) PROVE FSQInv'
    <3>1. CASE SLLInsertFails(p)
      BY <2>1, <3>1 DEF SLLInsertFails, FSQInv
    <3>2. CASE SemWaitEnqueue(p) \/ Compare(p) \/ PostDequeue(p) \/ Undo(p)
      <4>1. ListInv'
        BY <2>1, <3>2, QuietSteps
      <4> QED
        BY <2>1, <3>2, <4>1 DEF FSQInv, SemWaitEnqueue, Compare, PostDequeue, Undo
    <3>3. CASE SLLInsert(p)
      BY <2>1, <3>3, SLLInsertInv DEF FSQInv, SLLInsert
    <3>4. CASE Link(p)
      BY <2>1, <3>4, LinkInv DEF FSQInv, Link
    <3>5. CASE SetTail(p)
      BY <2>1, <3>5, SetTailInv DEF FSQInv, SetTail
    <3> QED
      BY <2>2, <3>1, <3>2, <3>3, <3>4, <3>5 DEF FSQEnqueue
  <2>3. ASSUME NEW c \in Consumers, FSQDequeue(c) PROVE FSQInv'
    <3>1. CASE SemWaitDequeue(c) \/ PostEnqueue(c)
      <4>1. ListInv'
        BY <2>1, <3>1, QuietSteps
      <4> QED
        BY <2>1, <3>1, <4>1 DEF FSQInv, SemWaitDequeue, PostEnqueue
    <3>2. CASE LockRead(c)
      BY <2>1, <3>2, LockReadInv DEF FSQInv, LockRead
    <3>3. CASE LockWrite(c)
      BY <2>1, <3>3, LockWriteInv DEF FSQInv, LockWrite
    <3>4. CASE SLLRemove(c)
      BY <2>1, <3>4, SLLRemoveInv DEF FSQInv, SLLRemove
    <3>5. CASE Free(c)
      BY <2>1, <3>5, FreeInv DEF FSQInv, Free
    <3>6. ~SLLRemoveAborts(c)
      <4>1. SLLRemoveAborts(c) => Len(chain) >= 2 /\ chain[2] = NULL
        BY <2>1, ItemsFound DEF SLLRemoveAborts, WantLabels
      <4>2. Len(chain) >= 2 => 2 \in 1 .. Len(chain)
        BY <2>1, ListFacts
      <4> QED
        BY <2>1, <4>1, <4>2, ListFacts
    <3> QED
      BY <2>3, <3>1, <3>2, <3>3, <3>4, <3>5, <3>6 DEF FSQDequeue
  <2>4. CASE UNCHANGED vars
    <3>1. ListInv'
      BY <2>1, <2>4 DEF vars, listVars, lockVars, semVars, threadVars, ghostVars, ListInv, ListTypeOK, LocksHeld,
         ChainIntact, AddingKnown, FreeingKnown, AllocatedKnown, InChain, TailKnown, EnoughItems, InOrder, Contents
    <3> QED
      BY <2>1, <2>4, <3>1 DEF vars, FSQInv
  <2> QED
    BY <2>2, <2>3, <2>4 DEF Next
<1> QED
  BY <1>1, <1>2

\* What the invariant says of the list as a whole.
LEMMA ListImplied == FSQInv => ListIntact
<1> SUFFICES ASSUME ListInv
             PROVE /\ IsInjective(chain) /\ IsChain
                   /\ allocated = ToSet(chain) \union {node[p] : p \in {q \in Producers : pc[q] = "link"}}
                                              \union ({freed[c] : c \in Consumers} \ {NULL})
                   /\ \/ tail = Last(chain)
                      \/ \E p \in Producers : pc[p] = "tail" /\ node[p] = Last(chain)
                      \/ \E c \in Consumers : pc[c] = "free" /\ head = Last(chain)
                   /\ \A c \in Consumers : pc[c] = "remove" => next[head] # NULL
                   /\ inserted = dequeued \o Contents
  BY DEF FSQInv, ListIntact
<1>1. chain \in Seq(Nodes) /\ DOMAIN chain = 1 .. Len(chain) /\ Head(chain) = chain[1] /\ Last(chain) = chain[Len(chain)]
  BY DEF ListInv, ListTypeOK, Last
<1>2. IsInjective(chain)
  BY <1>1 DEF IsInjective, ListInv, ChainIntact
<1>3. IsChain
  BY <1>1 DEF IsChain, ListInv, ChainIntact
<1>4. allocated = ToSet(chain) \union {node[p] : p \in {q \in Producers : pc[q] = "link"}}
                             \union ({freed[c] : c \in Consumers} \ {NULL})
  <2>1. \A m : m \in ToSet(chain) <=> InChain(m)
    BY <1>1 DEF ToSet, InChain
  <2>2. \A m : m \in {node[p] : p \in {q \in Producers : pc[q] = "link"}}
               <=> \E p \in Producers : pc[p] = "link" /\ node[p] = m
    OBVIOUS
  <2>3. \A m : m \in {freed[c] : c \in Consumers} \ {NULL}
               <=> \E c \in Consumers : pc[c] = "free" /\ freed[c] = m
    BY DEF ListInv, FreeingKnown
  <2>4. \A m : InChain(m) \/ (\E p \in Producers : pc[p] = "link" /\ node[p] = m)
                        \/ (\E c \in Consumers : pc[c] = "free" /\ freed[c] = m) => m \in Nodes
    <3>1. \A m : InChain(m) => m \in Nodes
      BY ListFacts DEF InChain
    <3>2. \A p \in Producers : pc[p] = "link" => node[p] \in Nodes
      BY DEF ListInv, AddingKnown
    <3>3. \A c \in Consumers : pc[c] = "free" => freed[c] \in Nodes
      BY DEF ListInv, ListTypeOK, FreeingKnown
    <3> QED
      BY <3>1, <3>2, <3>3
  <2>5. \A m : m \in allocated <=>
          \/ InChain(m)
          \/ \E p \in Producers : pc[p] = "link" /\ node[p] = m
          \/ \E c \in Consumers : pc[c] = "free" /\ freed[c] = m
    BY <2>4 DEF ListInv, ListTypeOK, AllocatedKnown
  <2> QED
    BY <2>1, <2>2, <2>3, <2>5
<1>5. \/ tail = Last(chain)
      \/ \E p \in Producers : pc[p] = "tail" /\ node[p] = Last(chain)
      \/ \E c \in Consumers : pc[c] = "free" /\ head = Last(chain)
  BY <1>1 DEF ListInv, TailKnown, AddingKnown, ChainIntact
<1>6. \A c \in Consumers : pc[c] = "remove" => next[head] # NULL
  <2>1. \A c \in Consumers : pc[c] = "remove" => Len(chain) >= 2 /\ next[head] = chain[2]
    BY ItemsFound DEF WantLabels
  <2>2. Len(chain) >= 2 => 2 \in 1 .. Len(chain)
    BY ListFacts
  <2> QED
    BY <2>1, <2>2, ListFacts
<1>7. inserted = dequeued \o Contents
  BY DEF ListInv, InOrder
<1> QED
  BY <1>2, <1>3, <1>4, <1>5, <1>6, <1>7

\* As long as no malloc has failed, the list is a chain of allocated nodes, nothing leaks,
\* a consumer that is let in finds an item, and the items come out in order: producers and
\* consumers that hold different locks never disturb each other.
THEOREM ListKept == Spec => []ListIntact
BY ListInitInv, ListNextInv, ListImplied, PTL DEF Spec

-----------------------------------------------------------------------------
(* The exchanges.                                                           *)

XLabels == {"run", "set", "post", "lock", "join", "woken", "end"}
XMsgs == XProducers \X Nat

ExType ==
  /\ list \in Seq(XMsgs) /\ put \in Seq(XMsgs) /\ got \in Seq(XMsgs)
  /\ full \in BOOLEAN /\ sems \in [read : Nat, write : Nat] /\ left \in Int
  /\ waiting \in SUBSET XConsumers
  /\ at \in [XThreads -> XLabels] /\ made \in [XThreads -> Nat]

\* ex1: the message is in the buffer from the time it is written until it is
\* read, and the flag follows each of the two with a delay.
SpinInv ==
  LET p == OneProducer
      c == OneConsumer
  IN /\ waiting = {} /\ \A t \in XThreads \ {p, c} : at[t] = "end"
     /\ at[p] \in {"run", "set", "end"} /\ at[c] \in {"run", "set", "end"}
     /\ made[p] = Len(put) /\ made[c] = Len(got)
     /\ \A t \in {p, c} : at[t] = "end" => made[t] = XMessages
     /\ (at[p] = "set" => ~full) /\ (at[c] = "set" => full)
     /\ IF (full /\ at[c] # "set") \/ at[p] = "set"
        THEN put = got \o list /\ Len(list) = 1
        ELSE put = got

\* ex2: the messages put are different ones of those that the producers have made,
\* no consumer has ended before the last message was read, and while there is a
\* message some consumer is awake.
CondInv ==
  /\ put = got \o list /\ left = Cardinality(XProducers) * XMessages - Len(got)
  /\ \A p \in XProducers : made[p] <= XMessages
  /\ \A i \in 1 .. Len(put) : put[i][2] \in 1 .. made[put[i][1]]
  /\ \A i, j \in 1 .. Len(put) : put[i] = put[j] => i = j
  /\ \A c \in waiting : at[c] = "woken"
  /\ \A c \in XConsumers : at[c] = "end" => left = 0
  /\ list # << >> => \E c \in XConsumers : at[c] # "end" /\ c \notin waiting

\* ex3: the semaphore, the producers about to post and the consumers that have
\* passed it account for the messages in the list.
SemInv ==
  /\ put = got \o list /\ left = Cardinality(XProducers) - Len(got) /\ waiting = {}
  /\ \A p \in XProducers : at[p] \in {"run", "post", "end"}
  /\ \A c \in XConsumers : at[c] \in {"run", "lock"}
  /\ Len(list) = sems.read + CountAt(XProducers, {"post"}, at) + CountAt(XConsumers, {"lock"}, at)

\* A producer that has sent its message is past its first step, so a consumer that
\* finds a message finds the count of those left above 0.
SemSent == Len(put) <= CountAt(XProducers, {"post", "end"}, at)

\* ex4: there is one permit, in a semaphore (r, w) or with a thread, and who has it
\* says how many messages are in the buffer (n), and were put (i) and read (o).
OnePermit(r, w, n, i, o, h) ==
  /\ r + w + CountAt(XProducers, {"lock"}, h) + CountAt(XProducers, {"post"}, h)
       + CountAt(XConsumers, {"lock"}, h) + CountAt(XConsumers, {"post"}, h) = 1
  /\ n = r + CountAt(XProducers, {"post"}, h) + CountAt(XConsumers, {"lock"}, h)
  /\ i = CountAt(XProducers, {"post", "end"}, h)
  /\ o = CountAt(XConsumers, {"post", "end"}, h)

BufferInv ==
  /\ put = got \o list /\ waiting = {}
  /\ \A t \in XThreads : /\ at[t] \in {"run", "lock", "post", "end"}
                         /\ made[t] = IF at[t] \in {"run", "lock"} THEN 0 ELSE 1
  /\ OnePermit(sems.read, sems.write, Len(list), Len(put), Len(got), at)

\* ex6: the message is there from the broadcast on, and nobody waits after it.
BarrierInv ==
  /\ \A p \in XProducers \ {OneProducer} : at[p] = "end"
  /\ \A c \in XConsumers : at[c] \in {"run", "end"}
  /\ full <=> at[OneProducer] # "run"
  /\ full => waiting = {} /\ Len(list) = 1 /\ list[1] \in ToSet(put)
  /\ ToSet(got) \subseteq ToSet(put)
  /\ Len(got) = CountAt(XConsumers, {"end"}, at)

\* Each program with its invariant.
ExInv ==
  /\ ExType
  /\ program \in {"ex1", "ex2", "ex3", "ex4", "ex6", "pingpong", "uid"}
  /\ program = "ex1" => SpinInv
  /\ program = "ex2" => CondInv
  /\ program = "ex3" => SemInv /\ SemSent
  /\ program = "ex4" => BufferInv
  /\ program = "ex6" => BarrierInv
  /\ program \in {"pingpong", "uid"} => put = got

\* The ball is in one place: who is about to send it, who has seen it (the flag), to
\* whom it is on its way.
One(b) == IF b THEN 1 ELSE 0

BallFits(a, f, n) ==
  /\ a \in [Players -> {"loop", "paused", "woken", "send", "end"}]
  /\ f \in [Players -> BOOLEAN] /\ n \in [Players -> BOOLEAN]
  /\ One(n["parent"]) + One(n["child"]) + One(f["parent"]) + One(f["child"])
       + One(a["parent"] = "send") + One(a["child"] = "send") = 1

BallRecord(a, f, n, o) == [at |-> a, flag |-> f, pending |-> n, over |-> o]

BallInv ==
  \E a, f, n : \E o \in BOOLEAN : ball = BallRecord(a, f, n, o) /\ (~o => BallFits(a, f, n))

\* A good identifier has a time that has come, and in this second a number that its
\* process has already given.
GoodUID(u) ==
  /\ u \in [counter : Nat \ {0}, timestamp : Nat \ {0}, pid : UIDProcesses]
  /\ u.timestamp <= uids.now
  /\ u.timestamp = uids.now => u.counter <= uids.counter[u.pid]

UIDInv ==
  /\ uids \in [counter : [UIDProcesses -> Nat], now : Nat \ {0},
               created : Seq([counter : Nat, timestamp : Nat, pid : UIDProcesses \union {0}])]
  /\ \A i \in DOMAIN uids.created : GoodUID(uids.created[i]) \/ uids.created[i] = UIDbadUID
  /\ UIDsDiffer

\* The ball starts as a signal on its way, and stays one.
LEMMA BallInitInv == BallInit => BallInv
<1> SUFFICES ASSUME BallInit PROVE BallInv
  OBVIOUS
<1>1. PICK a, f, n : /\ a = [p \in Players |-> "loop"] /\ f = [p \in Players |-> FALSE]
                     /\ n = [p \in Players |-> p = "child"]
  OBVIOUS
<1>2. ball = BallRecord(a, f, n, FALSE)
  BY <1>1, Zenon DEF BallInit, BallRecord
<1>3. a \in [Players -> {"loop", "paused", "woken", "send", "end"}]
      /\ f \in [Players -> BOOLEAN] /\ n \in [Players -> BOOLEAN]
  BY <1>1
<1>4. /\ a["parent"] # "send" /\ a["child"] # "send" /\ ~f["parent"] /\ ~f["child"]
      /\ n["child"] /\ ~n["parent"]
  BY <1>1 DEF Players
<1>5. BallFits(a, f, n)
  BY <1>3, <1>4 DEF BallFits, One
<1> QED
  BY <1>2, <1>5 DEF BallInv

LEMMA BallNextInv == BallInv /\ PingPong => BallInv'
<1> SUFFICES ASSUME BallInv, PingPong PROVE BallInv'
  OBVIOUS
<1>1. PICK a, f, n : ball = BallRecord(a, f, n, FALSE) /\ BallFits(a, f, n)
  <2>1. PICK a, f, n : \E o \in BOOLEAN : ball = BallRecord(a, f, n, o) /\ (~o => BallFits(a, f, n))
    BY Zenon DEF BallInv
  <2>2. PICK o \in BOOLEAN : ball = BallRecord(a, f, n, o) /\ (~o => BallFits(a, f, n))
    BY <2>1, Zenon
  <2>3. ~o
    BY <2>2 DEF PingPong, BallRecord
  <2>4. o = FALSE
    BY <2>3, Zenon
  <2> QED
    BY <2>2, <2>4, Zenon
<1>2. /\ ball.at = a /\ ball.flag = f /\ ball.pending = n
      /\ a \in [Players -> {"loop", "paused", "woken", "send", "end"}]
      /\ f \in [Players -> BOOLEAN] /\ n \in [Players -> BOOLEAN]
  BY <1>1 DEF BallRecord, BallFits
<1>3. ASSUME NEW p \in Players, Deliver(p) PROVE BallInv'
  <2>1. PICK b : b = IF a[p] = "paused" THEN "woken" ELSE a[p]
    OBVIOUS
  <2>2. ball' = BallRecord([a EXCEPT ![p] = b], [f EXCEPT ![p] = TRUE], [n EXCEPT ![p] = FALSE], FALSE)
    BY <1>1, <1>2, <1>3, <2>1 DEF Deliver, BallRecord
  <2>3. n[p] /\ (b = "send" <=> a[p] = "send") /\ b \in {"loop", "paused", "woken", "send", "end"}
    BY <1>2, <1>3, <2>1 DEF Deliver
  <2>4. BallFits([a EXCEPT ![p] = b], [f EXCEPT ![p] = TRUE], [n EXCEPT ![p] = FALSE])
    BY <1>1, <2>3 DEF BallFits, One, Players
  <2> QED
    BY <2>2, <2>4 DEF BallInv
<1>4. ASSUME NEW p \in Players, Pause(p) PROVE BallInv'
  <2>1. ball' = BallRecord([a EXCEPT ![p] = "paused"], f, n, FALSE)
    BY <1>1, <1>2, <1>4 DEF Pause, BallRecord
  <2>2. BallFits([a EXCEPT ![p] = "paused"], f, n)
    BY <1>1, <1>2, <1>4 DEF BallFits, One, Players, Pause
  <2> QED
    BY <2>1, <2>2 DEF BallInv
<1>5. ASSUME NEW p \in Players, Answer(p), ~f[p] PROVE BallInv'
  <2>1. ball' = BallRecord([a EXCEPT ![p] = "loop"], f, n, FALSE)
    BY <1>1, <1>2, <1>5 DEF Answer, BallRecord
  <2>2. BallFits([a EXCEPT ![p] = "loop"], f, n)
    BY <1>1, <1>2, <1>5 DEF BallFits, One, Players, Answer
  <2> QED
    BY <2>1, <2>2 DEF BallInv
<1>6. ASSUME NEW p \in Players, Answer(p), f[p] PROVE BallInv'
  <2>1. ball' = BallRecord([a EXCEPT ![p] = "send"], [f EXCEPT ![p] = FALSE], n, FALSE)
    BY <1>1, <1>2, <1>6 DEF Answer, BallRecord
  <2>2. BallFits([a EXCEPT ![p] = "send"], [f EXCEPT ![p] = FALSE], n)
    BY <1>1, <1>2, <1>6 DEF BallFits, One, Players, Answer
  <2> QED
    BY <2>1, <2>2 DEF BallInv
<1>7. ASSUME NEW p \in Players, Send(p) PROVE BallInv'
  <2>1. PICK q \in Players : q = Other(p)
    BY DEF Other, Players
  <2>2. ball' = BallRecord([a EXCEPT ![p] = "loop"], f, [n EXCEPT ![q] = TRUE], FALSE)
    BY <1>1, <1>2, <1>7, <2>1 DEF Send, BallRecord
  <2>3. a[p] = "send"
    BY <1>2, <1>7 DEF Send
  <2>4. BallFits([a EXCEPT ![p] = "loop"], f, [n EXCEPT ![q] = TRUE])
    BY <1>1, <2>3 DEF BallFits, One, Players
  <2> QED
    BY <2>2, <2>4 DEF BallInv
<1>8. ASSUME TimeIsUp PROVE BallInv'
  <2>1. ball' = BallRecord([p \in Players |-> "end"], f, n, TRUE)
    BY <1>1, <1>8 DEF TimeIsUp, BallRecord
  <2> QED
    BY <2>1 DEF BallInv
<1> QED
  BY <1>3, <1>4, <1>5, <1>6, <1>7, <1>8 DEF PingPong

\* How many of the two players have a property.
LEMMA CountPlayers ==
  ASSUME NEW S \in SUBSET Players
  PROVE  Cardinality(S) = One("parent" \in S) + One("child" \in S)
<1>1. S = {} \/ S = {"parent"} \/ S = {"child"} \/ S = {"parent"} \union {"child"}
  BY DEF Players
<1>2. Cardinality({}) = 0
  BY FS_EmptySet
<1>3. \A x : IsFiniteSet({x}) /\ Cardinality({x}) = 1
  BY FS_Singleton
<1>4. Cardinality({"parent"} \union {"child"}) = 2
  <2>1. IsFiniteSet({"parent"}) /\ "child" \notin {"parent"} /\ Cardinality({"parent"}) = 1
    BY <1>3
  <2> QED
    BY <2>1, FS_AddElement
<1>5. CASE S = {}
  BY <1>2, <1>5 DEF One
<1>6. CASE S = {"parent"}
  <2>1. Cardinality(S) = 1 /\ "parent" \in S /\ "child" \notin S
    BY <1>3, <1>6
  <2> QED
    BY <2>1 DEF One
<1>7. CASE S = {"child"}
  <2>1. Cardinality(S) = 1 /\ "child" \in S /\ "parent" \notin S
    BY <1>3, <1>7
  <2> QED
    BY <2>1 DEF One
<1>8. CASE S = {"parent"} \union {"child"}
  BY <1>4, <1>8 DEF One
<1> QED
  BY <1>1, <1>5, <1>6, <1>7, <1>8

\* The places of the ball are counted as OneBall counts them.
LEMMA BallImplied == BallInv => OneBall
<1> SUFFICES ASSUME BallInv, ~ball.over PROVE OneBall
  BY DEF OneBall
<1>0. BallFits(ball.at, ball.flag, ball.pending)
  BY DEF BallInv, BallRecord
<1> DEFINE A == {p \in Players : ball.pending[p]}
           B == {p \in Players : ball.flag[p]}
           C == {p \in Players : ball.at[p] = "send"}
<1>1. /\ A \in SUBSET Players /\ B \in SUBSET Players /\ C \in SUBSET Players
      /\ ("parent" \in A <=> ball.pending["parent"]) /\ ("child" \in A <=> ball.pending["child"])
      /\ ("parent" \in B <=> ball.flag["parent"]) /\ ("child" \in B <=> ball.flag["child"])
      /\ ("parent" \in C <=> ball.at["parent"] = "send") /\ ("child" \in C <=> ball.at["child"] = "send")
  BY DEF Players
<1>2. One(ball.pending["parent"]) + One(ball.pending["child"]) + One(ball.flag["parent"]) + One(ball.flag["child"])
        + One(ball.at["parent"] = "send") + One(ball.at["child"] = "send") = 1
  BY <1>0 DEF BallFits
<1>3. (\A p \in Players : ball.at[p] = "paused" /\ ~ball.pending[p]) => \E p \in Players : ball.flag[p]
  BY <1>2 DEF One, Players
<1> HIDE DEF A, B, C
<1>4. /\ Cardinality(A) = One("parent" \in A) + One("child" \in A)
      /\ Cardinality(B) = One("parent" \in B) + One("child" \in B)
      /\ Cardinality(C) = One("parent" \in C) + One("child" \in C)
  BY <1>1, CountPlayers
<1>5. Cardinality(A) + Cardinality(B) + Cardinality(C) = 1
  BY <1>1, <1>2, <1>4 DEF One
<1> QED
  BY <1>3, <1>5 DEF OneBall, A, B, C

-----------------------------------------------------------------------------
(* Unique identifiers.                                                      *)

LEMMA UIDInitInv == UIDInit => UIDInv
BY DEF UIDInit, UIDInv, UIDsDiffer

\* A new identifier differs from all that were created before it.
LEMMA UIDCreateInv == ASSUME UIDInv, NEW p \in UIDProcesses, UIDCreate(p) PROVE UIDInv'
<1>1. PICK uid \in {NextUID(p), UIDbadUID} :
        uids' = [uids EXCEPT !.counter[p] = @ + 1, !.created = Append(@, uid)]
  BY DEF UIDCreate
<1>2. PICK s, k, now : s = uids.created /\ k = uids.counter /\ now = uids.now
  OBVIOUS
<1> DEFINE U == [counter : Nat, timestamp : Nat, pid : UIDProcesses \union {0}]
<1>3. s \in Seq(U) /\ k \in [UIDProcesses -> Nat] /\ now \in Nat \ {0}
  BY <1>2 DEF UIDInv
<1>4. uid \in U
  BY <1>2, <1>3 DEF NextUID, UIDbadUID
<1>5. uids'.counter = [k EXCEPT ![p] = k[p] + 1] /\ uids'.now = now /\ uids'.created = Append(s, uid)
  BY <1>1, <1>2 DEF UIDInv
<1>6. uids' = [counter |-> [k EXCEPT ![p] = k[p] + 1], now |-> now, created |-> Append(s, uid)]
  BY <1>1, <1>2 DEF UIDInv
<1> HIDE DEF U
<1>6a. uids' \in [counter : [UIDProcesses -> Nat], now : Nat \ {0}, created : Seq(U)]
  BY <1>3, <1>4, <1>6
<1> DEFINE t == Append(s, uid)
<1>7. /\ DOMAIN s = 1 .. Len(s) /\ DOMAIN t = 1 .. Len(s) + 1 /\ t[Len(s) + 1] = uid
      /\ Len(s) \in Nat /\ \A i \in 1 .. Len(s) : t[i] = s[i] /\ s[i] \in U
  BY <1>3, <1>4
<1>8. \A i \in 1 .. Len(s) : GoodUID(s[i]) \/ s[i] = UIDbadUID
  BY <1>2, <1>7 DEF UIDInv
<1>9. \A i \in 1 .. Len(s) : GoodUID(s[i])' \/ s[i] = UIDbadUID
  BY <1>2, <1>3, <1>5, <1>8 DEF GoodUID
<1>10. GoodUID(uid)' \/ uid = UIDbadUID
  <2>1. CASE uid = NextUID(p)
    BY <1>2, <1>3, <1>5, <2>1 DEF GoodUID, NextUID
  <2> QED
    BY <2>1
<1>11. \A i \in 1 .. Len(s) : UIDIsSame(s[i], uid) => s[i] = UIDbadUID /\ uid = UIDbadUID
  <2> SUFFICES ASSUME NEW i \in 1 .. Len(s), UIDIsSame(s[i], uid)
               PROVE  s[i] = UIDbadUID /\ uid = UIDbadUID
    OBVIOUS
  <2>1. CASE uid = UIDbadUID
    BY <1>7, <1>8, <2>1 DEF UIDIsSame, UIDbadUID, GoodUID
  <2>2. CASE uid = NextUID(p)
    BY <1>2, <1>3, <1>7, <1>8, <2>2 DEF UIDIsSame, UIDbadUID, GoodUID, NextUID
  <2> QED
    BY <2>1, <2>2
<1>12. \A i, j \in 1 .. Len(s) : i # j /\ UIDIsSame(s[i], s[j]) => s[i] = UIDbadUID
  BY <1>2, <1>7 DEF UIDInv, UIDsDiffer
<1>13. \A i \in 1 .. Len(s) : UIDIsSame(uid, s[i]) => UIDIsSame(s[i], uid)
  BY DEF UIDIsSame
<1>14. \A i \in 1 .. Len(s) + 1 : i \in 1 .. Len(s) \/ i = Len(s) + 1
  BY <1>7
<1> HIDE DEF t
<1>15. \A i \in 1 .. Len(s) + 1 : GoodUID(t[i])' \/ t[i] = UIDbadUID
  BY <1>7, <1>9, <1>10, <1>14, Zenon
<1>16. \A i, j \in 1 .. Len(s) + 1 : i # j /\ UIDIsSame(t[i], t[j]) => t[i] = UIDbadUID
  BY <1>7, <1>11, <1>12, <1>13, <1>14, Zenon
<1>17. uids'.created = t
  BY <1>5 DEF t
<1> QED
  BY <1>7, <1>15, <1>16, <1>17, <1>6a, Zenon DEF UIDInv, UIDsDiffer, U

\* After a fork the second has passed.
LEMMA ForkInv == ASSUME UIDInv, NEW p \in UIDProcesses, Fork(p) PROVE UIDInv'
<1>1. PICK c \in UIDProcesses \ {p} :
        uids' = [uids EXCEPT !.counter[c] = uids.counter[p], !.now = @ + 1]
  BY DEF Fork
<1>2. /\ uids'.created = uids.created /\ uids'.now = uids.now + 1 /\ uids.now \in Nat \ {0}
      /\ uids' \in [counter : [UIDProcesses -> Nat], now : Nat \ {0},
                   created : Seq([counter : Nat, timestamp : Nat, pid : UIDProcesses \union {0}])]
  <2>1. PICK s, k, now : s = uids.created /\ k = uids.counter /\ now = uids.now
    OBVIOUS
  <2>2. uids' = [counter |-> [k EXCEPT ![c] = k[p]], now |-> now + 1, created |-> s]
    BY <1>1, <2>1 DEF UIDInv
  <2>3. /\ k \in [UIDProcesses -> Nat] /\ now \in Nat \ {0}
        /\ s \in Seq([counter : Nat, timestamp : Nat, pid : UIDProcesses \union {0}])
    BY <2>1 DEF UIDInv
  <2> QED
    BY <2>1, <2>2, <2>3
<1>3. \A u : GoodUID(u) => GoodUID(u)'
  BY <1>2 DEF GoodUID
<1> QED
  BY <1>2, <1>3, Zenon DEF UIDInv, UIDsDiffer

LEMMA UIDNextInv == UIDInv /\ UIDNext => UIDInv'
BY UIDCreateInv, ForkInv DEF UIDNext

-----------------------------------------------------------------------------
(* What the exchanges have in common.                                       *)

LEMMA CountStays ==
  ASSUME NEW T, NEW L, NEW f, NEW g, NEW t, \A x \in T \ {t} : g[x] = f[x], f[t] \in L <=> g[t] \in L
  PROVE  CountAt(T, L, g) = CountAt(T, L, f)
<1>1. {x \in T : g[x] \in L} = {x \in T : f[x] \in L}
  OBVIOUS
<1> QED
  BY <1>1, Zenon DEF CountAt

\* A count when nobody, and when everybody, is there.
LEMMA CountNone == ASSUME NEW T, NEW L, NEW h, \A x \in T : h[x] \notin L PROVE CountAt(T, L, h) = 0
<1>1. {x \in T : h[x] \in L} = {}
  OBVIOUS
<1> QED
  BY <1>1, FS_EmptySet, Zenon DEF CountAt

LEMMA CountAll ==
  ASSUME NEW T, NEW L, NEW h, \A x \in T : h[x] \in L PROVE CountAt(T, L, h) = Cardinality(T)
<1>1. {x \in T : h[x] \in L} = T
  OBVIOUS
<1> QED
  BY <1>1, Zenon DEF CountAt

\* The threads.
LEMMA XFacts ==
  /\ OneProducer \in XProducers /\ OneConsumer \in XConsumers
  /\ IsFiniteSet(XProducers) /\ IsFiniteSet(XConsumers)
  /\ Cardinality(XProducers) \in Nat \ {0} /\ Cardinality(XConsumers) = Cardinality(XProducers)
  /\ XProducers \intersect XConsumers = {} /\ XThreads = XProducers \union XConsumers
  /\ XMessages \in Nat \ {0} /\ INT_BYTES \in Nat \ {0} /\ NUM_ITEMS = 1
<1>1. OneProducer \in XProducers /\ OneConsumer \in XConsumers
  BY ExchangesAssumption DEF ExchangesAssumption, OneProducer, OneConsumer
<1>2. IsFiniteSet(XProducers) /\ XProducers # {}
  BY ExchangesAssumption DEF ExchangesAssumption
<1>3. Cardinality(XProducers) \in Nat \ {0}
  BY <1>2, FS_CardinalityType, FS_EmptySet
<1> QED
  BY <1>1, <1>3, ExchangesAssumption DEF ExchangesAssumption, XThreads

\* The threads of each program.
LEMMA Mains ==
  /\ program = "ex1" => Main = Ex1Main
  /\ program = "ex2" => Main = Ex2Main
  /\ program = "ex3" => Main = Ex3Main
  /\ program = "ex4" => Main = Ex4Main
  /\ program = "ex6" => Main = Ex6Main
BY DEF Main

LEMMA MainThreads ==
  /\ program = "ex1" => Main.producers = {OneProducer} /\ Main.consumers = {OneConsumer} /\ PerProducer = XMessages
  /\ program = "ex2" => /\ Main.producers = XProducers /\ Main.consumers = XConsumers /\ PerProducer = XMessages
                        /\ Main.total = Cardinality(XProducers) * XMessages
  /\ program = "ex3" => /\ Main.producers = XProducers /\ Main.consumers = XConsumers
                        /\ Main.total = Cardinality(XProducers)
  /\ program = "ex4" => Main.producers = XProducers /\ Main.consumers = XConsumers /\ PerProducer = 1 /\ Main.write = 1
  /\ program = "ex6" => Main.producers = {OneProducer} /\ Main.consumers = XConsumers
BY Mains, XFacts DEF Ex1Main, Ex2Main, Ex3Main, Ex4Main, Ex6Main, PerProducer

\* What is put at the end of the list, and what is read from its front.
LEMMA Passed ==
  ASSUME NEW S, NEW g \in Seq(S), NEW l \in Seq(S)
  PROVE  /\ \A x \in S : Append(g, x) = g \o << x >>
         /\ l # << >> => /\ Append(g, Head(l)) \o Tail(l) = g \o l
                         /\ Head(l) \in S /\ Tail(l) \in Seq(S) /\ Len(Tail(l)) = Len(l) - 1
         /\ g \o l \in Seq(S) /\ Len(g \o l) = Len(g) + Len(l) /\ g \o << >> = g
<1>2. \A x \in S : Append(g, x) = g \o << x >>
  OBVIOUS
<1>3. ASSUME l # << >>
      PROVE  Append(g, Head(l)) \o Tail(l) = g \o l
  <2>1. PICK a, b : a = Append(g, Head(l)) \o Tail(l) /\ b = g \o l
    OBVIOUS
  <2>2. a \in Seq(S) /\ b \in Seq(S) /\ Len(a) = Len(b)
    BY <1>3, <2>1, HeadTailProperties, AppendProperties, ConcatProperties
  <2>3. \A i \in 1 .. Len(a) : a[i] = b[i]
    BY <1>3, <2>1
  <2> QED
    BY <2>1, <2>2, <2>3, SeqEqual
<1>4. l # << >> => Head(l) \in S /\ Tail(l) \in Seq(S) /\ Len(Tail(l)) = Len(l) - 1
  BY HeadTailProperties
<1>5. g \o l \in Seq(S) /\ Len(g \o l) = Len(g) + Len(l) /\ g \o << >> = g
  BY ConcatProperties, ConcatEmptySeq
<1> QED
  BY <1>2, <1>3, <1>4, <1>5

\* A message has a producer and a number.
LEMMA MsgType == ASSUME ExType, NEW p \in XProducers PROVE Msg(p) \in XMsgs
<1>1. made[p] \in Nat
  BY XFacts DEF ExType
<1>2. made[p] + 1 \in Nat
  BY <1>1
<1> QED
  BY <1>2, Zenon DEF Msg, XMsgs

\* The lengths of what is put, read and in the list.
LEMMA Lengths ==
  ASSUME ExType
  PROVE  /\ Len(put) \in Nat /\ Len(got) \in Nat /\ Len(list) \in Nat
         /\ got \o list \in Seq(XMsgs) /\ Len(got \o list) = Len(got) + Len(list)
<1>1. got \in Seq(XMsgs) /\ list \in Seq(XMsgs) /\ put \in Seq(XMsgs)
  BY DEF ExType
<1> QED
  BY <1>1

-----------------------------------------------------------------------------
(* ex1.c.                                                                   *)

\* The step of a producer writes the one message, or says that it is there.
LEMMA SpinProduceInv ==
  ASSUME ExType, SpinInv, program = "ex1", SpinProduce(OneProducer)
  PROVE  ExType' /\ SpinInv'
<1>1. PICK p, c : p = OneProducer /\ c = OneConsumer
  OBVIOUS
<1>2. p \in XThreads /\ c \in XThreads /\ p # c /\ p \in XProducers
  BY <1>1, XFacts
<1>3. PerProducer = XMessages /\ XMessages \in Nat \ {0}
  BY MainThreads, XFacts
<1>4. CASE at[p] = "run" /\ made[p] < PerProducer /\ ~full /\ list' = <<Msg(p)>> /\ put' = Append(put, Msg(p))
           /\ Count(p) /\ Go(p, "set") /\ UNCHANGED <<full, sems, left, waiting, got>>
  <2>1. PICK m \in XMsgs : m = Msg(p)
    BY <1>2, MsgType
  <2>2. put = got
    BY <1>1, <1>4 DEF SpinInv
  <2>3. put' = got \o <<m>> /\ Len(put') = Len(put) + 1 /\ put' \in Seq(XMsgs) /\ list' \in Seq(XMsgs) /\ Len(list') = 1
    <3>1. got \in Seq(XMsgs) /\ put' = Append(got, m) /\ list' = << m >>
      BY <1>4, <2>1, <2>2, Zenon DEF ExType
    <3>2. Append(got, m) = got \o << m >> /\ Append(got, m) \in Seq(XMsgs) /\ Len(Append(got, m)) = Len(got) + 1
      BY <3>1
    <3>3. << m >> \in Seq(XMsgs) /\ Len(<< m >>) = 1
      OBVIOUS
    <3> QED
      BY <2>2, <3>1, <3>2, <3>3, Zenon
  <2>4. at' \in [XThreads -> XLabels] /\ at'[p] = "set" /\ \A t \in XThreads \ {p} : at'[t] = at[t]
    BY <1>2, <1>4 DEF Go, ExType, XLabels
  <2>5. made' \in [XThreads -> Nat] /\ made'[p] = made[p] + 1 /\ \A t \in XThreads \ {p} : made'[t] = made[t]
    BY <1>2, <1>4 DEF Count, ExType
  <2>6. ExType'
    BY <1>4, <2>3, <2>4, <2>5 DEF ExType
  <2> QED
    BY <1>1, <1>2, <1>4, <2>1, <2>3, <2>4, <2>5, <2>6 DEF SpinInv
<1>5. CASE at[p] = "set" /\ full' = TRUE /\ Go(p, IF made[p] = PerProducer THEN "end" ELSE "run")
           /\ UNCHANGED <<list, sems, left, waiting, made, put, got>>
  <2>1. PICK l \in XLabels : l = IF made[p] = PerProducer THEN "end" ELSE "run"
    BY DEF XLabels
  <2>2. at' \in [XThreads -> XLabels] /\ at'[p] = l /\ \A t \in XThreads \ {p} : at'[t] = at[t]
    BY <1>2, <1>5, <2>1 DEF Go, ExType
  <2>3. ExType'
    BY <1>5, <2>2 DEF ExType
  <2> QED
    BY <1>1, <1>2, <1>3, <1>5, <2>1, <2>2, <2>3 DEF SpinInv
<1> QED
  BY <1>1, <1>4, <1>5 DEF SpinProduce

LEMMA SpinConsumeInv ==
  ASSUME ExType, SpinInv, program = "ex1", SpinConsume(OneConsumer)
  PROVE  ExType' /\ SpinInv'
<1>1. PICK p, c : p = OneProducer /\ c = OneConsumer
  OBVIOUS
<1>2. p \in XThreads /\ c \in XThreads /\ p # c
  BY <1>1, XFacts
<1>3. PerProducer = XMessages /\ XMessages \in Nat \ {0}
  BY MainThreads, XFacts
<1>4. CASE at[c] = "run" /\ made[c] < PerProducer /\ full /\ got' = got \o list
           /\ Count(c) /\ Go(c, "set") /\ UNCHANGED <<list, full, sems, left, waiting, put>>
  <2>1. put = got \o list /\ Len(list) = 1
    BY <1>1, <1>4 DEF SpinInv
  <2>2. got' \in Seq(XMsgs) /\ Len(got') = Len(got) + 1 /\ put' = got'
    BY <1>4, <2>1, Lengths DEF ExType
  <2>3. at' \in [XThreads -> XLabels] /\ at'[c] = "set" /\ \A t \in XThreads \ {c} : at'[t] = at[t]
    BY <1>2, <1>4 DEF Go, ExType, XLabels
  <2>4. made' \in [XThreads -> Nat] /\ made'[c] = made[c] + 1 /\ \A t \in XThreads \ {c} : made'[t] = made[t]
    BY <1>2, <1>4 DEF Count, ExType
  <2>5. ExType'
    BY <1>4, <2>2, <2>3, <2>4 DEF ExType
  <2> QED
    BY <1>1, <1>2, <1>4, <2>2, <2>3, <2>4, <2>5 DEF SpinInv
<1>5. CASE at[c] = "set" /\ full' = FALSE /\ Go(c, IF made[c] = PerProducer THEN "end" ELSE "run")
           /\ UNCHANGED <<list, sems, left, waiting, made, put, got>>
  <2>1. PICK l \in XLabels : l = IF made[c] = PerProducer THEN "end" ELSE "run"
    BY DEF XLabels
  <2>2. at' \in [XThreads -> XLabels] /\ at'[c] = l /\ \A t \in XThreads \ {c} : at'[t] = at[t]
    BY <1>2, <1>5, <2>1 DEF Go, ExType
  <2>3. ExType'
    BY <1>5, <2>2 DEF ExType
  <2> QED
    BY <1>1, <1>2, <1>3, <1>5, <2>1, <2>2, <2>3 DEF SpinInv
<1> QED
  BY <1>1, <1>4, <1>5 DEF SpinConsume

\* A prefix and what follows it.
LEMMA PrefixOf ==
  ASSUME NEW S, NEW g \in Seq(S), NEW l \in Seq(S) PROVE IsPrefix(g, g \o l)
<1>1. SubSeq(g, 1, Len(g)) = g /\ SubSeq(g \o l, 1, Len(g)) = g
  BY SubSeqFull, SubSeqOfConcat1
<1> QED
  BY <1>1, ConcatProperties, LenProperties DEF IsPrefix

LEMMA SpinArrives == ASSUME ExType, SpinInv, program = "ex1" PROVE MessagesArrive
<1>1. IsPrefix(got, put) /\ Len(put) - Len(got) <= 1
  <2>1. CASE put = got
    <3>1. put = got \o << >> /\ << >> \in Seq(XMsgs) /\ got \in Seq(XMsgs)
      BY <2>1, Passed DEF ExType
    <3>2. IsPrefix(got, put)
      BY <3>1, PrefixOf, Zenon
    <3> QED
      BY <2>1, <3>2, Lengths
  <2>2. CASE put = got \o list /\ Len(list) = 1
    <3>1. got \in Seq(XMsgs) /\ list \in Seq(XMsgs)
      BY DEF ExType
    <3>2. IsPrefix(got, put)
      BY <2>2, <3>1, PrefixOf, Zenon
    <3> QED
      BY <2>2, <3>2, Lengths
  <2> QED
    BY <2>1, <2>2 DEF SpinInv
<1>2. Quiet => got = put
  <2> SUFFICES ASSUME Quiet PROVE got = put
    OBVIOUS
  <2>1. PICK p, c : p = OneProducer /\ c = OneConsumer /\ p \in XThreads /\ c \in XThreads
    BY XFacts
  <2>2. at[p] = "end" /\ at[c] = "end"
    BY <2>1 DEF Quiet, SpinInv
  <2>3. Len(put) = Len(got)
    BY <2>1, <2>2 DEF SpinInv
  <2>4. put = got \/ (put = got \o list /\ Len(list) = 1)
    BY DEF SpinInv
  <2>5. put = got \o list => Len(put) = Len(got) + Len(list)
    BY Lengths, Zenon
  <2> QED
    BY <2>3, <2>4, <2>5, Lengths
<1> QED
  BY <1>1, <1>2 DEF MessagesArrive

-----------------------------------------------------------------------------
(* ex2.c.                                                                   *)

\* The numbers up to n are n numbers.
LEMMA NumbersUpTo == ASSUME NEW n \in Nat PROVE IsFiniteSet(1 .. n) /\ Cardinality(1 .. n) = n
<1>1. ASSUME NEW p \in Int, NEW q \in Int
      PROVE  IsFiniteSet(p .. q) /\ Cardinality(p .. q) = IF p > q THEN 0 ELSE q - p + 1
  BY FS_Interval, Zenon
<1>2. \A p, q \in Int : IsFiniteSet(p .. q) /\ Cardinality(p .. q) = IF p > q THEN 0 ELSE q - p + 1
  BY <1>1
<1>3. 1 \in Int /\ n \in Int
  OBVIOUS
<1>4. PICK k : k = IF 1 > n THEN 0 ELSE n - 1 + 1
  OBVIOUS
<1>5. IsFiniteSet(1 .. n) /\ Cardinality(1 .. n) = k
  BY <1>2, <1>3, <1>4, Zenon
<1>6. k = n
  BY <1>4
<1> QED
  BY <1>5, <1>6

\* There are only so many different messages.
LEMMA SomeMessages ==
  ASSUME NEW s \in Seq(XMsgs),
         \A i \in 1 .. Len(s) : s[i][2] \in 1 .. XMessages,
         \A i, j \in 1 .. Len(s) : s[i] = s[j] => i = j
  PROVE  Len(s) <= Cardinality(XProducers) * XMessages
<1>1. PICK k, n \in Nat : k = Len(s) /\ n = XMessages
  BY XFacts
<1> DEFINE M == 1 .. n
<1>2. IsFiniteSet(M) /\ Cardinality(M) = n
  BY <1>1, NumbersUpTo
<1>3. IsFiniteSet(1 .. k) /\ Cardinality(1 .. k) = k
  BY <1>1, NumbersUpTo
<1>4. \A i \in 1 .. k : s[i] \in XProducers \X M
  BY <1>1 DEF XMsgs
<1>5. s \in [1 .. k -> XProducers \X M]
  BY <1>1, <1>4
<1>6. s \in Injection(1 .. k, XProducers \X M)
  BY <1>1, <1>5 DEF Injection, IsInjective
<1> HIDE DEF M
<1>7. IsFiniteSet(XProducers \X M) /\ Cardinality(XProducers \X M) = Cardinality(XProducers) * Cardinality(M)
  BY <1>2, FS_Product, XFacts
<1>8. Cardinality(1 .. k) <= Cardinality(XProducers \X M)
  BY <1>6, <1>7, FS_Injection
<1> QED
  BY <1>1, <1>2, <1>3, <1>7, <1>8

\* What was put is no more than what there is to read.
LEMMA CondBound ==
  ASSUME ExType, CondInv
  PROVE  Len(put) <= Cardinality(XProducers) * XMessages
<1>1. \A i \in 1 .. Len(put) : put[i][2] \in 1 .. XMessages
  <2> SUFFICES ASSUME NEW i \in 1 .. Len(put) PROVE put[i][2] \in 1 .. XMessages
    OBVIOUS
  <2>1. put[i][1] \in XProducers
    BY DEF ExType, XMsgs
  <2>2. made[put[i][1]] <= XMessages /\ made[put[i][1]] \in Nat
    BY <2>1, XFacts DEF ExType, CondInv
  <2>3. put[i][2] \in 1 .. made[put[i][1]]
    BY DEF CondInv
  <2> QED
    BY <2>2, <2>3, XFacts
<1> QED
  BY <1>1, SomeMessages DEF ExType, CondInv

\* The new message is not in what was put before, and somebody is awake to read it.
LEMMA CondProduceInv ==
  ASSUME ExType, CondInv, program = "ex2", NEW p \in XProducers, CondProduce(p)
  PROVE  ExType' /\ CondInv'
<1> DEFINE total == Cardinality(XProducers) * XMessages
<1>0. total \in Nat /\ PerProducer = XMessages /\ XMessages \in Nat
  BY MainThreads, XFacts
<1>1. PICK m \in XMsgs : m = Msg(p) /\ m = <<p, made[p] + 1>>
  BY MsgType DEF Msg
<1>2. /\ at[p] = "run" /\ made[p] < XMessages /\ list' = Append(list, m) /\ put' = Append(put, m)
      /\ made' = [made EXCEPT ![p] = @ + 1]
      /\ IF waiting = {} THEN UNCHANGED waiting ELSE \E w \in waiting : waiting' = waiting \ {w}
      /\ at' = [at EXCEPT ![p] = IF made[p] + 1 = PerProducer THEN "end" ELSE "run"]
      /\ UNCHANGED <<full, sems, left, got>>
  BY <1>0, <1>1, Zenon DEF CondProduce, Go, Count
<1>3. PICK l \in XLabels : l = IF made[p] + 1 = PerProducer THEN "end" ELSE "run"
  BY DEF XLabels
<1>4. /\ p \in XThreads /\ p \notin XConsumers
      /\ at' \in [XThreads -> XLabels] /\ \A t \in XThreads \ {p} : at'[t] = at[t]
      /\ made' \in [XThreads -> Nat] /\ made'[p] = made[p] + 1 /\ \A t \in XThreads \ {p} : made'[t] = made[t]
      /\ made[p] \in Nat
  <2>1. p \in XThreads /\ p \notin XConsumers
    BY XFacts
  <2>2. at' \in [XThreads -> XLabels] /\ \A t \in XThreads \ {p} : at'[t] = at[t]
    BY <1>2, <1>3 DEF ExType
  <2>3. /\ made' \in [XThreads -> Nat] /\ made'[p] = made[p] + 1 /\ \A t \in XThreads \ {p} : made'[t] = made[t]
        /\ made[p] \in Nat
    BY <1>2, <2>1 DEF ExType
  <2> QED
    BY <2>1, <2>2, <2>3
<1>5. /\ list' \in Seq(XMsgs) /\ put' \in Seq(XMsgs) /\ Len(put') = Len(put) + 1 /\ put'[Len(put) + 1] = m
      /\ \A i \in 1 .. Len(put) : put'[i] = put[i] /\ put[i] \in XMsgs
      /\ Len(put) \in Nat /\ put' = got \o list'
  <2>1. list \in Seq(XMsgs) /\ put \in Seq(XMsgs) /\ got \in Seq(XMsgs) /\ put = got \o list
    BY DEF ExType, CondInv
  <2>2. \A x \in XMsgs : Append(got \o list, x) = got \o Append(list, x)
    <3> SUFFICES ASSUME NEW x \in XMsgs PROVE Append(got \o list, x) = got \o Append(list, x)
      OBVIOUS
    <3>1. PICK h, k \in Seq(XMsgs) : h = got /\ k = list
      BY <2>1
    <3>2. Append(h \o k, x) = h \o Append(k, x)
      OBVIOUS
    <3> QED
      BY <3>1, <3>2
  <2>3. put' = got \o list'
    BY <1>2, <2>1, <2>2, Zenon
  <2> QED
    BY <1>2, <2>1, <2>3
<1>6. ExType'
  BY <1>2, <1>4, <1>5 DEF ExType
<1>7. \A i \in 1 .. Len(put') : i \in 1 .. Len(put) \/ i = Len(put) + 1
  BY <1>5
<1>8. \A q \in XProducers : made'[q] <= XMessages /\ made'[q] \in Nat /\ made[q] \in Nat /\ made[q] <= made'[q]
  <2>1. \A q \in XProducers : q \in XThreads /\ made[q] \in Nat /\ made[q] <= XMessages
    BY XFacts DEF ExType, CondInv
  <2>2. \A q \in XProducers \ {p} : made'[q] = made[q]
    BY <1>4, <2>1
  <2>3. made'[p] <= XMessages
    BY <1>0, <1>2, <1>4
  <2> QED
    BY <1>4, <2>1, <2>2, <2>3
<1>9. \A i \in 1 .. Len(put) : /\ put[i][1] \in XProducers /\ put[i][2] \in 1 .. made[put[i][1]]
                              /\ put[i] # m
  <2> SUFFICES ASSUME NEW i \in 1 .. Len(put)
               PROVE  put[i][1] \in XProducers /\ put[i][2] \in 1 .. made[put[i][1]] /\ put[i] # m
    OBVIOUS
  <2>1. put[i][1] \in XProducers /\ put[i][2] \in 1 .. made[put[i][1]]
    BY <1>5 DEF CondInv, XMsgs
  <2>2. m[1] = p /\ m[2] = made[p] + 1
    BY <1>1
  <2> QED
    BY <1>4, <2>1, <2>2
<1>10. \A i \in 1 .. Len(put') : put'[i][2] \in 1 .. made'[put'[i][1]]
  <2>1. \A i \in 1 .. Len(put) : put'[i][2] \in 1 .. made'[put'[i][1]]
    <3> SUFFICES ASSUME NEW i \in 1 .. Len(put) PROVE put[i][2] \in 1 .. made'[put[i][1]]
      BY <1>5
    <3>1. PICK q \in XProducers : q = put[i][1]
      BY <1>9
    <3>2. made[q] \in Nat /\ made'[q] \in Nat /\ made[q] <= made'[q] /\ put[i][2] \in 1 .. made[q]
      BY <1>8, <1>9, <3>1
    <3> QED
      BY <3>1, <3>2
  <2>2. m[1] = p /\ m[2] = made[p] + 1
    BY <1>1
  <2>3. m[2] \in 1 .. made'[m[1]]
    BY <1>4, <2>2
  <2> QED
    BY <1>5, <1>7, <2>1, <2>3, Zenon
<1>11. \A i, j \in 1 .. Len(put') : put'[i] = put'[j] => i = j
  <2>1. \A i, j \in 1 .. Len(put) : put[i] = put[j] => i = j
    BY DEF CondInv
  <2> SUFFICES ASSUME NEW i \in 1 .. Len(put'), NEW j \in 1 .. Len(put'), put'[i] = put'[j]
               PROVE  i = j
    OBVIOUS
  <2>2. CASE i \in 1 .. Len(put) /\ j \in 1 .. Len(put)
    BY <1>5, <2>1, <2>2, Zenon
  <2>3. CASE i = Len(put) + 1 /\ j \in 1 .. Len(put)
    BY <1>5, <1>9, <2>3, Zenon
  <2>4. CASE i \in 1 .. Len(put) /\ j = Len(put) + 1
    BY <1>5, <1>9, <2>4, Zenon
  <2> QED
    BY <1>7, <2>2, <2>3, <2>4, Zenon
<1>12. Len(put') <= total
  <2>1. \A i \in 1 .. Len(put') : put'[i][2] \in 1 .. XMessages
    <3> SUFFICES ASSUME NEW i \in 1 .. Len(put') PROVE put'[i][2] \in 1 .. XMessages
      OBVIOUS
    <3>1. PICK q \in XProducers : q = put'[i][1]
      <4>1. CASE i \in 1 .. Len(put)
        BY <1>5, <1>9, <4>1
      <4>2. CASE i = Len(put) + 1
        <5>1. m[1] = p
          BY <1>1
        <5> QED
          BY <1>5, <4>2, <5>1
      <4> QED
        BY <1>7, <4>1, <4>2
    <3> QED
      BY <1>0, <1>8, <1>10, <3>1
  <2>2. PICK s : s = put'
    OBVIOUS
  <2>3. s \in Seq(XMsgs) /\ (\A i \in 1 .. Len(s) : s[i][2] \in 1 .. XMessages)
        /\ \A i, j \in 1 .. Len(s) : s[i] = s[j] => i = j
    <3>1. s \in Seq(XMsgs)
      BY <1>5, <2>2
    <3>2. \A i \in 1 .. Len(s) : s[i][2] \in 1 .. XMessages
      BY <2>1, <2>2, Zenon
    <3>3. \A i, j \in 1 .. Len(s) : s[i] = s[j] => i = j
      BY <1>11, <2>2, Zenon
    <3> QED
      BY <3>1, <3>2, <3>3
  <2>4. Len(s) <= total
    BY <2>3, SomeMessages
  <2> QED
    BY <2>2, <2>4
<1> HIDE DEF total
<1>13. left = total - Len(got) /\ Len(got) \in Nat /\ Len(list) \in Nat /\ Len(put) = Len(got) + Len(list)
  BY Lengths DEF CondInv, total
<1>14. left > 0
  BY <1>0, <1>5, <1>12, <1>13
<1>15. \A c \in XConsumers : c \in XThreads /\ at'[c] = at[c] /\ at[c] # "end"
  <2>1. \A c \in XConsumers : at[c] = "end" => left = 0
    BY DEF CondInv
  <2>2. left # 0
    BY <1>13, <1>14, <1>0
  <2>3. \A c \in XConsumers : c \in XThreads \ {p}
    BY <1>4, XFacts
  <2> QED
    BY <1>4, <2>1, <2>2, <2>3
<1>16. waiting \subseteq XConsumers /\ waiting' \subseteq waiting
  BY <1>2 DEF ExType
<1>17. \E c \in XConsumers : at'[c] # "end" /\ c \notin waiting'
  <2>1. CASE waiting = {}
    BY <1>2, <1>15, <2>1, XFacts
  <2>2. CASE waiting # {}
    <3>1. PICK w \in waiting : waiting' = waiting \ {w}
      BY <1>2, <2>2
    <3> QED
      BY <1>15, <1>16, <3>1
  <2> QED
    BY <2>1, <2>2
<1>18. \A c \in waiting' : at'[c] = "woken"
  BY <1>15, <1>16 DEF CondInv
<1>19. put' = got' \o list' /\ left' = total - Len(got')
  BY <1>2, <1>5, <1>13
<1> QED
  BY <1>2, <1>6, <1>8, <1>10, <1>11, <1>15, <1>17, <1>18, <1>19 DEF CondInv, total

\* What the invariant says of the consumers, when one of them moves.
LEMMA CondConsumeInv ==
  ASSUME ExType, CondInv, program = "ex2", NEW c \in XConsumers, CondConsume(c)
  PROVE  ExType' /\ CondInv'
<1> DEFINE total == Cardinality(XProducers) * XMessages
<1>1. total \in Nat /\ left = total - Len(got) /\ Len(put) = Len(got) + Len(list) /\ Len(put) <= total
  <2>1. put = got \o list /\ left = total - Len(got)
    BY DEF CondInv
  <2>2. Len(put) = Len(got) + Len(list)
    BY <2>1, Lengths
  <2>3. total \in Nat
    BY XFacts
  <2> QED
    BY <2>1, <2>2, <2>3, CondBound
<1>2. Len(got) \in Nat /\ Len(list) \in Nat /\ list \in Seq(XMsgs) /\ (list # << >> <=> Len(list) > 0)
  BY Lengths DEF ExType
<1>3. left \in Nat
  BY <1>1, <1>2
<1> HIDE DEF total
<1>4. c \in XThreads /\ c \notin XProducers /\ c \notin waiting
  BY XFacts DEF CondConsume
<1>5. \A l \in XLabels : Go(c, l) => at' \in [XThreads -> XLabels] /\ at'[c] = l /\ \A t \in XThreads \ {c} : at'[t] = at[t]
  BY <1>4 DEF Go, ExType
<1>6. \A t \in XConsumers : t \in XThreads
  BY XFacts
<1>7. CASE /\ MustWait(c) /\ waiting' = waiting \union {c} /\ Go(c, "woken")
           /\ UNCHANGED <<list, full, sems, left, made, put, got>>
  <2>1. at' \in [XThreads -> XLabels] /\ at'[c] = "woken" /\ \A t \in XThreads \ {c} : at'[t] = at[t]
    BY <1>5, <1>7 DEF XLabels
  <2>2. ExType'
    BY <1>7, <2>1 DEF ExType
  <2>3. (\A t \in waiting' : at'[t] = "woken") /\ \A t \in XConsumers : at'[t] = "end" => left = 0
    BY <1>4, <1>6, <1>7, <2>1 DEF CondInv, ExType
  <2>4. list' = << >>
    BY <1>7 DEF MustWait
  <2> QED
    BY <1>7, <2>2, <2>3, <2>4 DEF CondInv
<1>8. CASE ~MustWait(c) /\ left = 0 /\ Go(c, "end") /\ UNCHANGED <<list, full, sems, left, waiting, made, put, got>>
  <2>1. at' \in [XThreads -> XLabels] /\ at'[c] = "end" /\ \A t \in XThreads \ {c} : at'[t] = at[t]
    BY <1>5, <1>8 DEF XLabels
  <2>2. ExType'
    BY <1>8, <2>1 DEF ExType
  <2>3. (\A t \in waiting' : at'[t] = "woken") /\ \A t \in XConsumers : at'[t] = "end" => left = 0
    BY <1>4, <1>6, <1>8, <2>1 DEF CondInv, ExType
  <2>4. list' = << >>
    BY <1>1, <1>2, <1>8
  <2> QED
    BY <1>8, <2>2, <2>3, <2>4 DEF CondInv
<1>9. CASE /\ ~MustWait(c) /\ left > 0
           /\ got' = Append(got, IF list = << >> THEN <<c, 0>> ELSE Head(list))
           /\ list' = (IF list = << >> THEN list ELSE Tail(list))
           /\ left' = left - 1 /\ Go(c, "run") /\ UNCHANGED <<full, sems, waiting, made, put>>
  <2>1. at' \in [XThreads -> XLabels] /\ at'[c] = "run" /\ \A t \in XThreads \ {c} : at'[t] = at[t]
    BY <1>5, <1>9 DEF XLabels
  <2>2. list # << >>
    BY <1>9 DEF MustWait
  <2>3. got' = Append(got, Head(list)) /\ list' = Tail(list)
    BY <1>9, <2>2
  <2>4. /\ Append(got, Head(list)) \o Tail(list) = got \o list /\ Head(list) \in XMsgs
        /\ Tail(list) \in Seq(XMsgs)
    <3>1. list \in Seq(XMsgs) /\ got \in Seq(XMsgs)
      BY DEF ExType
    <3> QED
      BY <2>2, <3>1, Passed
  <2>5. got' \o list' = got \o list /\ got' \in Seq(XMsgs) /\ list' \in Seq(XMsgs) /\ Len(got') = Len(got) + 1
    <3>1. got \in Seq(XMsgs)
      BY DEF ExType
    <3>2. got' \o list' = got \o list
      BY <2>3, <2>4, Zenon
    <3> QED
      BY <2>3, <2>4, <3>1, <3>2
  <2>6. ExType'
    BY <1>9, <2>1, <2>5 DEF ExType
  <2>7. put' = got' \o list' /\ left' = total - Len(got')
    <3>1. put = got \o list
      BY DEF CondInv
    <3>2. put' = got' \o list'
      BY <1>9, <2>5, <3>1, Zenon
    <3>3. left' = total - Len(got')
      BY <1>1, <1>2, <1>9, <2>5
    <3> QED
      BY <3>2, <3>3
  <2>8. \A t \in XConsumers : at'[t] # "end"
    <3>1. left # 0
      BY <1>3, <1>9
    <3>2. \A t \in XConsumers : at[t] # "end"
      BY <3>1 DEF CondInv
    <3> QED
      BY <1>6, <2>1, <3>2
  <2>9. \A t \in waiting' : at'[t] = "woken"
    BY <1>4, <1>6, <1>9, <2>1 DEF CondInv, ExType
  <2> QED
    BY <1>4, <1>9, <2>6, <2>7, <2>8, <2>9 DEF CondInv, total
<1> QED
  BY <1>7, <1>8, <1>9 DEF CondConsume

LEMMA CondOtherInv ==
  ASSUME ExType, CondInv,
         \/ \E p \in XProducers : ProduceFails(p)
         \/ \E c \in XConsumers : WakeUp(c)
  PROVE  ExType' /\ CondInv'
<1>1. ASSUME NEW p \in XProducers, ProduceFails(p) PROVE ExType' /\ CondInv'
  <2>1. at' \in [XThreads -> XLabels] /\ \A t \in XConsumers : at'[t] = at[t]
    BY <1>1, XFacts DEF ProduceFails, Go, ExType, XLabels
  <2>2. ExType'
    BY <1>1, <2>1 DEF ProduceFails, ExType
  <2>3. waiting \subseteq XConsumers
    BY DEF ExType
  <2>4. UNCHANGED <<list, left, waiting, made, put, got>>
    BY <1>1 DEF ProduceFails
  <2>5. /\ \A c \in waiting : at'[c] = "woken"
        /\ \A c \in XConsumers : at'[c] = "end" => left = 0
        /\ list # << >> => \E c \in XConsumers : at'[c] # "end" /\ c \notin waiting
    BY <2>1, <2>3 DEF CondInv
  <2>6. put' = got' \o list' /\ left' = Cardinality(XProducers) * XMessages - Len(got')
    BY <2>4 DEF CondInv
  <2>7. (\A q \in XProducers : made'[q] <= XMessages) /\ \A i \in 1 .. Len(put') : put'[i][2] \in 1 .. made'[put'[i][1]]
    BY <2>4, Zenon DEF CondInv
  <2>8. \A i, j \in 1 .. Len(put') : put'[i] = put'[j] => i = j
    <3>1. \A i, j \in 1 .. Len(put) : put[i] = put[j] => i = j
      BY DEF CondInv
    <3>2. put' = put
      BY <2>4
    <3> QED
      BY <3>1, <3>2
  <2> QED
    BY <2>2, <2>4, <2>5, <2>6, <2>7, <2>8 DEF CondInv
<1>2. ASSUME NEW c \in XConsumers, WakeUp(c) PROVE ExType' /\ CondInv'
  <2>1. waiting' = waiting \ {c} /\ UNCHANGED <<list, full, sems, left, at, made, put, got>>
    BY <1>2 DEF WakeUp
  <2>2. ExType'
    BY <2>1 DEF ExType
  <2>3. (\A t \in waiting' : at'[t] = "woken")
        /\ (list # << >> => \E t \in XConsumers : at[t] # "end" /\ t \notin waiting')
    BY <2>1 DEF CondInv
  <2>4. put' = got' \o list' /\ left' = Cardinality(XProducers) * XMessages - Len(got')
    BY <2>1 DEF CondInv
  <2>5. (\A p \in XProducers : made'[p] <= XMessages) /\ \A i \in 1 .. Len(put') : put'[i][2] \in 1 .. made'[put'[i][1]]
    BY <2>1, Zenon DEF CondInv
  <2>6. \A i, j \in 1 .. Len(put') : put'[i] = put'[j] => i = j
    <3>1. \A i, j \in 1 .. Len(put) : put[i] = put[j] => i = j
      BY DEF CondInv
    <3>2. put' = put
      BY <2>1
    <3> QED
      BY <3>1, <3>2
  <2>7. \A t \in XConsumers : at'[t] = "end" => left' = 0
    BY <2>1 DEF CondInv
  <2> QED
    BY <2>1, <2>2, <2>3, <2>4, <2>5, <2>6, <2>7 DEF CondInv
<1> QED
  BY <1>1, <1>2

LEMMA CondArrives == ASSUME ExType, CondInv, program = "ex2" PROVE MessagesArrive
<1>1. put = got \o list /\ left = Main.total - Len(got)
  BY MainThreads DEF CondInv
<1>2. Quiet => got = put
  <2> SUFFICES ASSUME Quiet PROVE got = put
    OBVIOUS
  <2>1. \A c \in XConsumers : at[c] = "end" \/ c \in waiting
    BY XFacts DEF Quiet
  <2>2. list = << >>
    BY <2>1 DEF CondInv
  <2> QED
    BY <1>1, <2>2, Passed DEF ExType
<1> QED
  BY <1>1, <1>2 DEF MessagesArrive

-----------------------------------------------------------------------------
(* ex3.c.                                                                   *)

\* A thread that goes to a label.
LEMMA Gone ==
  ASSUME ExType, NEW t \in XThreads, NEW l \in XLabels, Go(t, l)
  PROVE  at' \in [XThreads -> XLabels] /\ at'[t] = l /\ \A x \in XThreads \ {t} : at'[x] = at[x]
BY DEF Go, ExType

\* Posting and waiting.
LEMMA Permits ==
  \A s \in [read : Nat, write : Nat] :
    /\ s.read \in Nat /\ s.write \in Nat
    /\ /\ [s EXCEPT !.read = @ + 1] \in [read : Nat, write : Nat]
       /\ [s EXCEPT !.read = @ + 1].read = s.read + 1 /\ [s EXCEPT !.read = @ + 1].write = s.write
    /\ /\ [s EXCEPT !.write = @ + 1] \in [read : Nat, write : Nat]
       /\ [s EXCEPT !.write = @ + 1].write = s.write + 1 /\ [s EXCEPT !.write = @ + 1].read = s.read
    /\ s.read > 0 => /\ [s EXCEPT !.read = @ - 1] \in [read : Nat, write : Nat]
                     /\ [s EXCEPT !.read = @ - 1].read = s.read - 1 /\ [s EXCEPT !.read = @ - 1].write = s.write
    /\ s.write > 0 => /\ [s EXCEPT !.write = @ - 1] \in [read : Nat, write : Nat]
                      /\ [s EXCEPT !.write = @ - 1].write = s.write - 1 /\ [s EXCEPT !.write = @ - 1].read = s.read
OBVIOUS

LEMMA SemProduceInv ==
  ASSUME ExType, SemInv, program = "ex3", NEW p \in XProducers, SemProduce(p) \/ ProduceFails(p)
  PROVE  ExType' /\ SemInv'
<1>1. p \in XThreads /\ p \notin XConsumers /\ \A x \in XProducers \union XConsumers : x \in XThreads
  BY XFacts
<1>2. PICK f, g : f = at /\ g = at'
  OBVIOUS
<1>3. PICK a, b, c, d : /\ a = CountAt(XProducers, {"post"}, f) /\ b = CountAt(XConsumers, {"lock"}, f)
                        /\ c = CountAt(XProducers, {"post"}, g) /\ d = CountAt(XConsumers, {"lock"}, g)
  OBVIOUS
<1>4. Len(list) = sems.read + a + b /\ put = got \o list
  BY <1>2, <1>3, Zenon DEF SemInv
<1>5. CASE /\ at[p] = "run" /\ list' = Append(list, Msg(p)) /\ put' = Append(put, Msg(p)) /\ Count(p)
           /\ Go(p, "post") /\ UNCHANGED <<full, sems, left, waiting, got>>
  <2>1. g \in [XThreads -> XLabels] /\ g[p] = "post" /\ f[p] = "run" /\ \A x \in XThreads \ {p} : g[x] = f[x]
    BY <1>1, <1>2, <1>5, Gone DEF XLabels
  <2>2. a \in Nat /\ b \in Nat /\ c = a + 1 /\ d = b
    <3>1. \A x \in (XProducers \union XConsumers) \ {p} : g[x] = f[x]
      BY <1>1, <2>1
    <3>2. a \in Nat /\ c = a + 1
      BY <1>3, <2>1, <3>1, CountMoves, XFacts
    <3>3. b \in Nat /\ d = b
      BY <1>1, <1>3, <3>1, CountMoves, XFacts
    <3> QED
      BY <3>2, <3>3
  <2>3. PICK m \in XMsgs : m = Msg(p)
    BY MsgType
  <2>4. list' \in Seq(XMsgs) /\ put' \in Seq(XMsgs) /\ Len(list') = Len(list) + 1
    BY <1>5, <2>3 DEF ExType
  <2>5. put' = got' \o list'
    <3>1. PICK h, k \in Seq(XMsgs) : h = got /\ k = list
      BY DEF ExType
    <3>2. Append(h \o k, m) = h \o Append(k, m)
      OBVIOUS
    <3> QED
      BY <1>4, <1>5, <2>3, <3>1, <3>2, Zenon
  <2>6. made' \in [XThreads -> Nat]
    BY <1>1, <1>5 DEF Count, ExType
  <2>7. ExType'
    BY <1>2, <1>5, <2>1, <2>4, <2>6 DEF ExType
  <2>8. Len(list') = sems'.read + c + d
    BY <1>4, <1>5, <2>2, <2>4 DEF ExType
  <2>9. /\ \A q \in XProducers : at'[q] \in {"run", "post", "end"}
        /\ \A q \in XConsumers : at'[q] \in {"run", "lock"}
    BY <1>1, <1>2, <2>1 DEF SemInv
  <2> QED
    BY <1>2, <1>3, <1>5, <2>5, <2>7, <2>8, <2>9 DEF SemInv
<1>6. CASE /\ at[p] = "post" /\ sems' = [sems EXCEPT !.read = @ + 1]
           /\ Go(p, "end") /\ UNCHANGED <<list, full, left, waiting, made, put, got>>
  <2>1. g \in [XThreads -> XLabels] /\ g[p] = "end" /\ f[p] = "post" /\ \A x \in XThreads \ {p} : g[x] = f[x]
    BY <1>1, <1>2, <1>6, Gone DEF XLabels
  <2>2. a \in Nat /\ b \in Nat /\ c = a - 1 /\ d = b
    BY <1>1, <1>3, <2>1, CountMoves, XFacts
  <2>3. sems' \in [read : Nat, write : Nat] /\ sems'.read = sems.read + 1 /\ sems.read \in Nat
    BY <1>6, Permits DEF ExType
  <2>7. ExType'
    BY <1>2, <1>6, <2>1, <2>3 DEF ExType
  <2>8. Len(list') = sems'.read + c + d
    BY <1>4, <1>6, <2>2, <2>3
  <2>9. /\ \A q \in XProducers : at'[q] \in {"run", "post", "end"}
        /\ \A q \in XConsumers : at'[q] \in {"run", "lock"}
    BY <1>1, <1>2, <2>1 DEF SemInv
  <2> QED
    BY <1>2, <1>3, <1>6, <2>7, <2>8, <2>9 DEF SemInv
<1>7. CASE ProduceFails(p)
  <2>0. at[p] = "run" /\ Go(p, "end") /\ UNCHANGED <<list, full, sems, left, waiting, made, put, got>>
    BY <1>7 DEF ProduceFails
  <2>1. g \in [XThreads -> XLabels] /\ g[p] = "end" /\ f[p] = "run" /\ \A x \in XThreads \ {p} : g[x] = f[x]
    BY <1>1, <1>2, <2>0, Gone DEF XLabels
  <2>2. c = a /\ d = b
    <3>1. (f[p] \in {"post"} <=> g[p] \in {"post"}) /\ p \notin XConsumers
      BY <1>1, <2>1
    <3>2. (\A x \in XProducers \ {p} : g[x] = f[x]) /\ \A x \in XConsumers \ {p} : g[x] = f[x]
      BY <1>1, <2>1
    <3>3. PICK L : L = {"post"}
      OBVIOUS
    <3>4. CountAt(XProducers, L, g) = CountAt(XProducers, L, f)
      BY <3>1, <3>2, <3>3, CountStays
    <3>5. d = b
      BY <1>3, <3>1, <3>2, CountMoves, XFacts
    <3> QED
      BY <1>3, <3>3, <3>4, <3>5
  <2>7. ExType'
    BY <1>2, <2>0, <2>1 DEF ExType
  <2>8. Len(list') = sems'.read + c + d
    BY <1>4, <2>0, <2>2
  <2>9. /\ \A q \in XProducers : at'[q] \in {"run", "post", "end"}
        /\ \A q \in XConsumers : at'[q] \in {"run", "lock"}
    BY <1>1, <1>2, <2>1 DEF SemInv
  <2> QED
    BY <1>2, <1>3, <2>0, <2>7, <2>8, <2>9 DEF SemInv
<1> QED
  BY <1>5, <1>6, <1>7 DEF SemProduce

\* A consumer that has passed the semaphore finds a message.
LEMMA SemFound ==
  ASSUME ExType, SemInv, NEW c \in XConsumers, at[c] = "lock" PROVE list # << >>
<1>1. PICK f : f = at
  OBVIOUS
<1>2. PICK a, b : a = CountAt(XProducers, {"post"}, f) /\ b = CountAt(XConsumers, {"lock"}, f)
  OBVIOUS
<1>3. f[c] = "lock" /\ \A x : f[x] = f[x]
  BY <1>1
<1>4. a \in Nat /\ b \in Nat /\ b > 0
  BY <1>2, <1>3, CountMoves, XFacts
<1>5. Len(list) = sems.read + a + b
  BY <1>1, <1>2, Zenon DEF SemInv
<1>6. sems.read \in Nat
  BY DEF ExType
<1> QED
  BY <1>4, <1>5, <1>6

\* ... and left above 0.
LEMMA SemLeft ==
  ASSUME ExType, SemInv, SemSent, NEW c \in XConsumers, at[c] = "lock" PROVE left > 0
<1>1. PICK f : f = at
  OBVIOUS
<1>2. PICK n : n = CountAt(XProducers, {"post", "end"}, f)
  OBVIOUS
<1>3. n \in Nat /\ n <= Cardinality(XProducers)
  <2>1. IsFiniteSet(XProducers) /\ {x \in XProducers : f[x] \in {"post", "end"}} \in SUBSET XProducers
    BY XFacts
  <2>2. /\ Cardinality({x \in XProducers : f[x] \in {"post", "end"}}) <= Cardinality(XProducers)
        /\ IsFiniteSet({x \in XProducers : f[x] \in {"post", "end"}})
    BY <2>1, FS_Subset
  <2>3. Cardinality({x \in XProducers : f[x] \in {"post", "end"}}) \in Nat
    BY <2>2, FS_CardinalityType
  <2> QED
    BY <1>2, <2>2, <2>3 DEF CountAt
<1>4. Len(put) <= n
  BY <1>1, <1>2, Zenon DEF SemSent
<1>5. PICK g, l \in Seq(XMsgs) : g = got /\ l = list
  BY DEF ExType
<1>6. Len(put) = Len(g) + Len(l) /\ Len(g) \in Nat /\ Len(l) \in Nat /\ l # << >>
  BY <1>5, SemFound DEF SemInv
<1>7. left = Cardinality(XProducers) - Len(g) /\ Cardinality(XProducers) \in Nat
  BY <1>5, XFacts DEF SemInv
<1>8. Len(l) > 0
  BY <1>6
<1> QED
  BY <1>3, <1>4, <1>6, <1>7, <1>8

\* A message is sent by a producer that goes on from its first step.
LEMMA SemSentStep ==
  ASSUME ExType, SemSent, program = "ex3", NEW t \in XThreads,
         \/ t \in XProducers /\ (SemProduce(t) \/ ProduceFails(t))
         \/ t \in XConsumers /\ SemConsume(t)
  PROVE  SemSent'
<1>1. PICK f, g, L : f = at /\ g = at' /\ L = {"post", "end"}
  OBVIOUS
<1>2. PICK m, n : m = CountAt(XProducers, L, f) /\ n = CountAt(XProducers, L, g)
  OBVIOUS
<1>3. Len(put) <= m /\ Len(put) \in Nat
  BY <1>1, <1>2, LenProperties DEF SemSent, ExType
<1>4. \A x \in XProducers \ {t} : g[x] = f[x]
  BY <1>1, XFacts DEF SemProduce, ProduceFails, SemConsume, Go, ExType
<1>5. /\ m \in Nat /\ n \in Nat
      /\ t \notin XProducers \/ (f[t] \in L <=> g[t] \in L) => n = m
      /\ t \in XProducers /\ f[t] \notin L /\ g[t] \in L => n = m + 1
  BY <1>2, <1>4, CountMoves, XFacts
<1>6. CASE t \notin XProducers
  <2>1. put' = put
    BY <1>6 DEF SemConsume
  <2> QED
    BY <1>1, <1>2, <1>3, <1>5, <1>6, <2>1 DEF SemSent
<1>7. CASE t \in XProducers
  <2>1. g[t] \in L
    BY <1>1, <1>7, XFacts DEF SemProduce, ProduceFails, Go, ExType
  <2>2. \/ put' = put
        \/ f[t] = "run" /\ put' = Append(put, Msg(t))
    BY <1>1, <1>7, XFacts DEF SemProduce, ProduceFails
  <2>3. put' = put \/ (f[t] \notin L /\ Len(put') = Len(put) + 1)
    <3>1. PICK e \in XMsgs : e = Msg(t)
      BY <1>7, MsgType
    <3> QED
      BY <1>1, <2>2, <3>1 DEF ExType
  <2> QED
    BY <1>1, <1>2, <1>3, <1>5, <1>7, <2>1, <2>3 DEF SemSent
<1> QED
  BY <1>6, <1>7

LEMMA SemConsumeInv ==
  ASSUME ExType, SemInv, SemSent, program = "ex3", NEW t \in XConsumers, SemConsume(t)
  PROVE  ExType' /\ SemInv'
<1>1. t \in XThreads /\ t \notin XProducers /\ \A x \in XProducers \union XConsumers : x \in XThreads
  BY XFacts
<1>2. PICK f, g : f = at /\ g = at'
  OBVIOUS
<1>3. PICK a, b, c, d : /\ a = CountAt(XProducers, {"post"}, f) /\ b = CountAt(XConsumers, {"lock"}, f)
                        /\ c = CountAt(XProducers, {"post"}, g) /\ d = CountAt(XConsumers, {"lock"}, g)
  OBVIOUS
<1>4. Len(list) = sems.read + a + b /\ put = got \o list /\ left = Cardinality(XProducers) - Len(got)
  BY <1>2, <1>3, Zenon DEF SemInv
<1>5. CASE /\ at[t] = "run" /\ sems.read > 0 /\ sems' = [sems EXCEPT !.read = @ - 1]
           /\ Go(t, "lock") /\ UNCHANGED <<list, full, left, waiting, made, put, got>>
  <2>1. g \in [XThreads -> XLabels] /\ g[t] = "lock" /\ f[t] = "run" /\ \A x \in XThreads \ {t} : g[x] = f[x]
    BY <1>1, <1>2, <1>5, Gone DEF XLabels
  <2>2. a \in Nat /\ b \in Nat /\ c = a /\ d = b + 1
    <3>1. (\A x \in XProducers \ {t} : g[x] = f[x]) /\ \A x \in XConsumers \ {t} : g[x] = f[x]
      BY <1>1, <2>1
    <3>2. a \in Nat /\ c = a
      BY <1>1, <1>3, <3>1, CountMoves, XFacts
    <3>3. b \in Nat /\ d = b + 1
      BY <1>3, <2>1, <3>1, CountMoves, XFacts
    <3> QED
      BY <3>2, <3>3
  <2>3. sems' \in [read : Nat, write : Nat] /\ sems'.read = sems.read - 1 /\ sems.read \in Nat
    BY <1>5, Permits DEF ExType
  <2>7. ExType'
    BY <1>2, <1>5, <2>1, <2>3 DEF ExType
  <2>8. Len(list') = sems'.read + c + d
    BY <1>4, <1>5, <2>2, <2>3
  <2>9. /\ \A q \in XProducers : at'[q] \in {"run", "post", "end"}
        /\ \A q \in XConsumers : at'[q] \in {"run", "lock"}
    BY <1>1, <1>2, <2>1 DEF SemInv
  <2> QED
    BY <1>2, <1>3, <1>5, <2>7, <2>8, <2>9 DEF SemInv
<1>6. CASE /\ at[t] = "lock" /\ left > 0 /\ got' = Append(got, Head(list)) /\ list' = Tail(list) /\ left' = left - 1
           /\ Go(t, "run") /\ UNCHANGED <<full, sems, waiting, made, put>>
  <2>1. g \in [XThreads -> XLabels] /\ g[t] = "run" /\ f[t] = "lock" /\ \A x \in XThreads \ {t} : g[x] = f[x]
    BY <1>1, <1>2, <1>6, Gone DEF XLabels
  <2>2. a \in Nat /\ b \in Nat /\ c = a /\ d = b - 1
    <3>1. (\A x \in XProducers \ {t} : g[x] = f[x]) /\ \A x \in XConsumers \ {t} : g[x] = f[x]
      BY <1>1, <2>1
    <3>2. a \in Nat /\ c = a
      BY <1>1, <1>3, <3>1, CountMoves, XFacts
    <3>3. b \in Nat /\ d = b - 1
      BY <1>3, <2>1, <3>1, CountMoves, XFacts
    <3> QED
      BY <3>2, <3>3
  <2>3. list # << >>
    BY <1>6, SemFound
  <2>4. got \in Seq(XMsgs) /\ list \in Seq(XMsgs)
    BY DEF ExType
  <2>5. /\ Append(got, Head(list)) \o Tail(list) = got \o list /\ Head(list) \in XMsgs
        /\ Tail(list) \in Seq(XMsgs) /\ Len(Tail(list)) = Len(list) - 1
    BY <2>3, <2>4, Passed
  <2>6. got' \in Seq(XMsgs) /\ Len(got') = Len(got) + 1 /\ Len(got) \in Nat
    BY <1>6, <2>4, <2>5
  <2>7. ExType'
    BY <1>2, <1>6, <2>1, <2>5, <2>6 DEF ExType
  <2>8. Len(list') = sems'.read + c + d
    <3>1. PICK n \in Nat : n = sems.read
      BY Permits DEF ExType
    <3>2. Len(list') = Len(list) - 1 /\ n = sems'.read
      BY <1>6, <2>5, <3>1
    <3>3. Len(list) = n + a + b
      BY <1>4, <3>1, Zenon
    <3>4. \A x, y : x = n + a + b /\ y = x - 1 => y = n + a + (b - 1)
      BY <2>2
    <3>5. Len(list') = n + a + (b - 1)
      BY <3>2, <3>3, <3>4, Zenon
    <3> QED
      BY <2>2, <3>2, <3>5, Zenon
  <2>9. /\ \A q \in XProducers : at'[q] \in {"run", "post", "end"}
        /\ \A q \in XConsumers : at'[q] \in {"run", "lock"}
    BY <1>1, <1>2, <2>1 DEF SemInv
  <2>10. put' = got' \o list'
    BY <1>4, <1>6, <2>5, Zenon
  <2>11. left' = Cardinality(XProducers) - Len(got')
    BY <1>4, <1>6, <2>6, XFacts
  <2> QED
    BY <1>2, <1>3, <1>6, <2>7, <2>8, <2>9, <2>10, <2>11 DEF SemInv
<1> QED
  BY <1>5, <1>6, SemLeft DEF SemConsume

LEMMA SemArrives == ASSUME ExType, SemInv, program = "ex3" PROVE MessagesArrive
<1>1. put = got \o list /\ left = Main.total - Len(got)
  BY MainThreads DEF SemInv
<1>2. \A c \in XConsumers : at[c] = "lock" => list # << >>
  BY SemFound
<1>3. Quiet => got = put
  <2> SUFFICES ASSUME Quiet PROVE got = put
    OBVIOUS
  <2>1. PICK f : f = at
    OBVIOUS
  <2>2. (\A p \in XProducers : f[p] \notin {"post"}) /\ \A c \in XConsumers : f[c] \notin {"lock"}
    BY <2>1, XFacts DEF Quiet, SemInv
  <2>3. CountAt(XProducers, {"post"}, f) = 0 /\ CountAt(XConsumers, {"lock"}, f) = 0
    BY <2>2, CountNone
  <2>4. sems.read = 0
    <3>1. OneConsumer \in XConsumers /\ OneConsumer \in XThreads
      BY XFacts
    <3>2. at[OneConsumer] \in {"run", "lock"} /\ OneConsumer \notin waiting
      BY <3>1 DEF SemInv
    <3> QED
      BY <3>1, <3>2 DEF Quiet
  <2>5. Len(list) = sems.read + CountAt(XProducers, {"post"}, f) + CountAt(XConsumers, {"lock"}, f)
    BY <2>1, Zenon DEF SemInv
  <2>6. list = << >> /\ got \in Seq(XMsgs)
    BY <2>3, <2>4, <2>5 DEF ExType
  <2>7. got \o << >> = got
    BY <2>6, Passed
  <2> QED
    BY <1>1, <2>6, <2>7, Zenon
<1> QED
  BY <1>1, <1>2, <1>3 DEF MessagesArrive

-----------------------------------------------------------------------------
(* ex4.c.                                                                   *)

\* The counts of the threads T when t, one of them, goes on.
LEMMA StepCounts ==
  ASSUME NEW T, IsFiniteSet(T), NEW f, NEW g, NEW t \in T, \A x \in T \ {t} : g[x] = f[x],
         NEW a, NEW b, NEW c, NEW k, NEW l, NEW m,
         a = CountAt(T, {"lock"}, f), b = CountAt(T, {"post"}, f), c = CountAt(T, {"post", "end"}, f),
         k = CountAt(T, {"lock"}, g), l = CountAt(T, {"post"}, g), m = CountAt(T, {"post", "end"}, g)
  PROVE  /\ a \in Nat /\ b \in Nat /\ c \in Nat
         /\ f[t] = "run" /\ g[t] = "lock" => k = a + 1 /\ l = b /\ m = c
         /\ f[t] = "lock" /\ g[t] = "post" => a > 0 /\ k = a - 1 /\ l = b + 1 /\ m = c + 1
         /\ f[t] = "post" /\ g[t] = "end" => b > 0 /\ k = a /\ l = b - 1 /\ m = c
<1>1. /\ a \in Nat
      /\ f[t] = "run" /\ g[t] = "lock" => k = a + 1
      /\ f[t] = "lock" /\ g[t] = "post" => a > 0 /\ k = a - 1
      /\ f[t] = "post" /\ g[t] = "end" => k = a
  BY CountMoves
<1>2. /\ b \in Nat
      /\ f[t] = "run" /\ g[t] = "lock" => l = b
      /\ f[t] = "lock" /\ g[t] = "post" => l = b + 1
      /\ f[t] = "post" /\ g[t] = "end" => b > 0 /\ l = b - 1
  <2>1. b \in Nat /\ (f[t] = "run" /\ g[t] = "lock" => l = b)
    BY CountMoves
  <2>2. f[t] = "lock" /\ g[t] = "post" => l = b + 1
    BY CountMoves
  <2>3. f[t] = "post" /\ g[t] = "end" => b > 0 /\ l = b - 1
    BY CountMoves
  <2> QED
    BY <2>1, <2>2, <2>3
<1>3. /\ c \in Nat
      /\ f[t] = "run" /\ g[t] = "lock" => m = c
      /\ f[t] = "lock" /\ g[t] = "post" => m = c + 1
      /\ f[t] = "post" /\ g[t] = "end" => m = c
  <2>1. c \in Nat /\ (f[t] = "run" /\ g[t] = "lock" => m = c)
    BY CountMoves, ZenonT(30)
  <2>2. ASSUME f[t] = "lock", g[t] = "post" PROVE m = c + 1
    <3>1. PICK L : L = {"post", "end"}
      OBVIOUS
    <3>2. f[t] \notin L /\ g[t] \in L
      BY <2>2, <3>1
    <3>3. CountAt(T, L, g) = CountAt(T, L, f) + 1
      BY <3>2, CountMoves
    <3> QED
      BY <3>1, <3>3, Zenon
  <2>3. f[t] = "post" /\ g[t] = "end" => m = c
    BY CountMoves
  <2> QED
    BY <2>1, <2>2, <2>3
<1> QED
  BY <1>1, <1>2, <1>3

\* A count in which nobody moves.
LEMMA CountSame ==
  ASSUME NEW T, NEW L, NEW f, NEW g, \A x \in T : g[x] = f[x] PROVE CountAt(T, L, g) = CountAt(T, L, f)
<1>1. {x \in T : g[x] \in L} = {x \in T : f[x] \in L}
  OBVIOUS
<1> QED
  BY <1>1, Zenon DEF CountAt

\* The permit when a producer goes on.
LEMMA ProducerPermit ==
  ASSUME NEW r \in Nat, NEW w \in Nat, NEW n \in Nat, NEW i \in Nat, NEW o \in Nat,
         NEW f, NEW g, NEW t \in XProducers, \A x \in XThreads \ {t} : g[x] = f[x],
         OnePermit(r, w, n, i, o, f)
  PROVE  /\ f[t] = "run" /\ g[t] = "lock" /\ w > 0 => OnePermit(r, w - 1, n, i, o, g)
         /\ f[t] = "lock" /\ g[t] = "post" => n = 0 /\ OnePermit(r, w, 1, i + 1, o, g)
         /\ f[t] = "post" /\ g[t] = "end" => OnePermit(r + 1, w, n, i, o, g)
<1>1. PICK a, b, c, k, l, m :
        /\ a = CountAt(XProducers, {"lock"}, f) /\ b = CountAt(XProducers, {"post"}, f)
        /\ c = CountAt(XProducers, {"post", "end"}, f)
        /\ k = CountAt(XProducers, {"lock"}, g) /\ l = CountAt(XProducers, {"post"}, g)
        /\ m = CountAt(XProducers, {"post", "end"}, g)
  OBVIOUS
<1>2. PICK d, e, q :
        /\ d = CountAt(XConsumers, {"lock"}, f) /\ e = CountAt(XConsumers, {"post"}, f)
        /\ q = CountAt(XConsumers, {"post", "end"}, f)
  OBVIOUS
<1>3. (\A x \in XProducers \ {t} : g[x] = f[x]) /\ \A x \in XConsumers : g[x] = f[x]
  BY XFacts
<1>4. /\ d = CountAt(XConsumers, {"lock"}, g) /\ e = CountAt(XConsumers, {"post"}, g)
      /\ q = CountAt(XConsumers, {"post", "end"}, g)
  BY <1>2, <1>3, CountSame
<1>5. d \in Nat /\ e \in Nat
  BY <1>2, <1>3, CountMoves, XFacts
<1>6. /\ a \in Nat /\ b \in Nat /\ c \in Nat
      /\ f[t] = "run" /\ g[t] = "lock" => k = a + 1 /\ l = b /\ m = c
      /\ f[t] = "lock" /\ g[t] = "post" => a > 0 /\ k = a - 1 /\ l = b + 1 /\ m = c + 1
      /\ f[t] = "post" /\ g[t] = "end" => b > 0 /\ k = a /\ l = b - 1 /\ m = c
  BY <1>1, <1>3, StepCounts, XFacts
<1>7. r + w + a + b + d + e = 1 /\ n = r + b + d /\ i = c /\ o = q
  BY <1>1, <1>2, Zenon DEF OnePermit
<1>8. \A r1, w1, n1, i1, o1 : r1 + w1 + k + l + d + e = 1 /\ n1 = r1 + l + d /\ i1 = m /\ o1 = q
                               => OnePermit(r1, w1, n1, i1, o1, g)
  BY <1>1, <1>4, Zenon DEF OnePermit
<1>9. ASSUME f[t] = "run", g[t] = "lock", w > 0 PROVE OnePermit(r, w - 1, n, i, o, g)
  <2>1. r + (w - 1) + k + l + d + e = 1 /\ n = r + l + d /\ i = m /\ o = q
    BY <1>5, <1>6, <1>7, <1>9
  <2> QED
    BY <1>8, <2>1, Zenon
<1>10. ASSUME f[t] = "lock", g[t] = "post" PROVE n = 0 /\ OnePermit(r, w, 1, i + 1, o, g)
  <2>1. n = 0 /\ r + w + k + l + d + e = 1 /\ 1 = r + l + d /\ i + 1 = m /\ o = q
    BY <1>5, <1>6, <1>7, <1>10
  <2> QED
    BY <1>8, <2>1, Zenon
<1>11. ASSUME f[t] = "post", g[t] = "end" PROVE OnePermit(r + 1, w, n, i, o, g)
  <2>1. (r + 1) + w + k + l + d + e = 1 /\ n = (r + 1) + l + d /\ i = m /\ o = q
    BY <1>5, <1>6, <1>7, <1>11
  <2> QED
    BY <1>8, <2>1, Zenon
<1> QED
  BY <1>9, <1>10, <1>11, Zenon

\* The permit when a consumer goes on.
LEMMA ConsumerPermit ==
  ASSUME NEW r \in Nat, NEW w \in Nat, NEW n \in Nat, NEW i \in Nat, NEW o \in Nat,
         NEW f, NEW g, NEW t \in XConsumers, \A x \in XThreads \ {t} : g[x] = f[x],
         OnePermit(r, w, n, i, o, f)
  PROVE  /\ f[t] = "run" /\ g[t] = "lock" /\ r > 0 => OnePermit(r - 1, w, n, i, o, g)
         /\ f[t] = "lock" /\ g[t] = "post" => n = 1 /\ OnePermit(r, w, 0, i, o + 1, g)
         /\ f[t] = "post" /\ g[t] = "end" => OnePermit(r, w + 1, n, i, o, g)
<1>1. PICK a, b, c, k, l, m :
        /\ a = CountAt(XConsumers, {"lock"}, f) /\ b = CountAt(XConsumers, {"post"}, f)
        /\ c = CountAt(XConsumers, {"post", "end"}, f)
        /\ k = CountAt(XConsumers, {"lock"}, g) /\ l = CountAt(XConsumers, {"post"}, g)
        /\ m = CountAt(XConsumers, {"post", "end"}, g)
  OBVIOUS
<1>2. PICK d, e, q :
        /\ d = CountAt(XProducers, {"lock"}, f) /\ e = CountAt(XProducers, {"post"}, f)
        /\ q = CountAt(XProducers, {"post", "end"}, f)
  OBVIOUS
<1>3. (\A x \in XConsumers \ {t} : g[x] = f[x]) /\ \A x \in XProducers : g[x] = f[x]
  BY XFacts
<1>4. /\ d = CountAt(XProducers, {"lock"}, g) /\ e = CountAt(XProducers, {"post"}, g)
      /\ q = CountAt(XProducers, {"post", "end"}, g)
  BY <1>2, <1>3, CountSame
<1>5. d \in Nat /\ e \in Nat
  BY <1>2, <1>3, CountMoves, XFacts
<1>6. /\ a \in Nat /\ b \in Nat /\ c \in Nat
      /\ f[t] = "run" /\ g[t] = "lock" => k = a + 1 /\ l = b /\ m = c
      /\ f[t] = "lock" /\ g[t] = "post" => a > 0 /\ k = a - 1 /\ l = b + 1 /\ m = c + 1
      /\ f[t] = "post" /\ g[t] = "end" => b > 0 /\ k = a /\ l = b - 1 /\ m = c
  BY <1>1, <1>3, StepCounts, XFacts
<1>7. r + w + d + e + a + b = 1 /\ n = r + e + a /\ i = q /\ o = c
  BY <1>1, <1>2, Zenon DEF OnePermit
<1>8. \A r1, w1, n1, i1, o1 : r1 + w1 + d + e + k + l = 1 /\ n1 = r1 + e + k /\ i1 = q /\ o1 = m
                               => OnePermit(r1, w1, n1, i1, o1, g)
  BY <1>1, <1>4, Zenon DEF OnePermit
<1>9. ASSUME f[t] = "run", g[t] = "lock", r > 0 PROVE OnePermit(r - 1, w, n, i, o, g)
  <2>1. (r - 1) + w + d + e + k + l = 1 /\ n = (r - 1) + e + k /\ i = q /\ o = m
    BY <1>5, <1>6, <1>7, <1>9
  <2> QED
    BY <1>8, <2>1, Zenon
<1>10. ASSUME f[t] = "lock", g[t] = "post" PROVE n = 1 /\ OnePermit(r, w, 0, i, o + 1, g)
  <2>1. n = 1 /\ r + w + d + e + k + l = 1 /\ 0 = r + e + k /\ i = q /\ o + 1 = m
    BY <1>5, <1>6, <1>7, <1>10
  <2> QED
    BY <1>8, <2>1, Zenon
<1>11. ASSUME f[t] = "post", g[t] = "end" PROVE OnePermit(r, w + 1, n, i, o, g)
  <2>1. r + (w + 1) + d + e + k + l = 1 /\ n = r + e + k /\ i = q /\ o = m
    BY <1>5, <1>6, <1>7, <1>11
  <2> QED
    BY <1>8, <2>1, Zenon
<1> QED
  BY <1>9, <1>10, <1>11, Zenon

\* What one int puts into the one byte of the buffer, and takes from it.
LEMMA OneByte ==
  ASSUME ExType, NEW m \in XMsgs
  PROVE  /\ list = << >> => Stored(m) = << m >>
         /\ Len(list) = 1 => /\ Loaded = list /\ SubSeq(list, Len(Loaded) + 1, Len(list)) = << >>
                             /\ Append(got, Head(list)) = got \o list /\ Head(list) \in XMsgs
<1>1. PICK k \in Nat \ {0} : k = INT_BYTES
  BY XFacts
<1>2. Min({k, 1}) = 1
  <2>1. 1 \in {k, 1} /\ (\A y \in {k, 1} : 1 <= y) /\ \A x \in {k, 1} : (\A y \in {k, 1} : x <= y) => x = 1
    OBVIOUS
  <2> QED
    BY <2>1, Zenon DEF Min
<1>3. PICK u : u = list
  OBVIOUS
<1>4. u \in Seq(XMsgs) /\ NUM_ITEMS = 1
  BY <1>3, XFacts DEF ExType
<1>5. ASSUME list = << >> PROVE Stored(m) = << m >>
  <2>1. NUM_ITEMS - Len(list) = 1
    BY <1>4, <1>5
  <2>2. Stored(m) = SubSeq(BytesOf(m), 1, 1)
    BY <1>1, <1>2, <2>1, Zenon DEF Stored
  <2>3. BytesOf(m)[1] = m
    BY <1>1 DEF BytesOf
  <2>4. SubSeq(BytesOf(m), 1, 1) \in Seq(XMsgs) /\ Len(SubSeq(BytesOf(m), 1, 1)) = 1 /\ SubSeq(BytesOf(m), 1, 1)[1] = m
    <3>1. PICK s : s = BytesOf(m)
      OBVIOUS
    <3>2. \A i \in 1 .. 1 : s[i] \in XMsgs
      BY <2>3, <3>1
    <3>3. /\ SubSeq(s, 1, 1) \in Seq(XMsgs) /\ Len(SubSeq(s, 1, 1)) = IF 1 <= 1 THEN 1 - 1 + 1 ELSE 0
          /\ \A i \in 1 .. 1 - 1 + 1 : SubSeq(s, 1, 1)[i] = s[1 + i - 1]
      BY <3>2, SubSeqProperties
    <3> QED
      BY <2>3, <3>1, <3>3
  <2>5. \A s \in Seq(XMsgs) : Len(s) = 1 /\ s[1] = m => s = << m >>
    OBVIOUS
  <2> QED
    BY <2>2, <2>4, <2>5, Zenon
<1>6. ASSUME Len(list) = 1
      PROVE  /\ Loaded = list /\ SubSeq(list, Len(Loaded) + 1, Len(list)) = << >>
             /\ Append(got, Head(list)) = got \o list /\ Head(list) \in XMsgs
  <2>1. SubSeq(u, 1, 1) = u
    BY <1>3, <1>4, <1>6, SubSeqFull
  <2>2. Loaded = list
    BY <1>1, <1>2, <1>3, <1>6, <2>1, Zenon DEF Loaded
  <2>3. Len(Loaded) + 1 = 2
    BY <1>6, <2>2
  <2>4. SubSeq(u, 2, 1) = << >>
    BY SubSeqEmpty
  <2>5. list = << Head(list) >> /\ Head(list) \in XMsgs
    BY <1>3, <1>4, <1>6
  <2>6. got \in Seq(XMsgs)
    BY DEF ExType
  <2>7. \A x \in XMsgs : Append(got, x) = got \o << x >>
    BY <2>6, Passed
  <2> QED
    BY <1>3, <1>6, <2>2, <2>3, <2>4, <2>5, <2>7, Zenon
<1> QED
  BY <1>5, <1>6

\* The rest of the invariant when a thread goes from one label to the next.
BufferRest(h, k) ==
  \A t \in XThreads : /\ h[t] \in {"run", "lock", "post", "end"}
                      /\ k[t] = IF h[t] \in {"run", "lock"} THEN 0 ELSE 1

LEMMA BufferProduceInv ==
  ASSUME ExType, BufferInv, program = "ex4", NEW p \in XProducers, BufferProduce(p)
  PROVE  ExType' /\ BufferInv'
<1>1. p \in XThreads /\ PerProducer = 1
  BY XFacts, MainThreads
<1>2. PICK f, g : f = at /\ g = at'
  OBVIOUS
<1>3. PICK r, w, n, i, o \in Nat : r = sems.read /\ w = sems.write /\ n = Len(list) /\ i = Len(put) /\ o = Len(got)
  BY Permits, Lengths DEF ExType
<1>4. OnePermit(r, w, n, i, o, f) /\ BufferRest(f, made) /\ put = got \o list /\ waiting = {}
  BY <1>2, <1>3, Zenon DEF BufferInv, BufferRest
<1>5. \A r1, w1, n1, i1, o1 :
        /\ r1 = sems'.read /\ w1 = sems'.write /\ n1 = Len(list') /\ i1 = Len(put') /\ o1 = Len(got')
        /\ OnePermit(r1, w1, n1, i1, o1, g) /\ BufferRest(g, made') /\ put' = got' \o list' /\ waiting' = {}
        => BufferInv'
  BY <1>2, Zenon DEF BufferInv, BufferRest
<1>6. CASE /\ at[p] = "run" /\ made[p] < PerProducer /\ sems.write > 0 /\ sems' = [sems EXCEPT !.write = @ - 1]
           /\ Go(p, "lock") /\ UNCHANGED <<list, full, left, waiting, made, put, got>>
  <2>1. g \in [XThreads -> XLabels] /\ g[p] = "lock" /\ f[p] = "run" /\ \A x \in XThreads \ {p} : g[x] = f[x]
    BY <1>1, <1>2, <1>6, Gone DEF XLabels
  <2>2. sems' \in [read : Nat, write : Nat] /\ r = sems'.read /\ w - 1 = sems'.write /\ w > 0
    BY <1>3, <1>6, Permits DEF ExType
  <2>3. OnePermit(r, w - 1, n, i, o, g)
    BY <1>4, <2>1, <2>2, ProducerPermit
  <2>4. BufferRest(g, made')
    BY <1>4, <1>6, <2>1 DEF BufferRest
  <2>5. ExType'
    BY <1>2, <1>6, <2>1, <2>2 DEF ExType
  <2> QED
    BY <1>3, <1>4, <1>5, <1>6, <2>2, <2>3, <2>4, <2>5, Zenon
<1>7. CASE /\ at[p] = "lock" /\ list' = list \o Stored(Msg(p)) /\ put' = Append(put, Msg(p)) /\ Count(p)
           /\ Go(p, "post") /\ UNCHANGED <<full, sems, left, waiting, got>>
  <2>1. g \in [XThreads -> XLabels] /\ g[p] = "post" /\ f[p] = "lock" /\ \A x \in XThreads \ {p} : g[x] = f[x]
    BY <1>1, <1>2, <1>7, Gone DEF XLabels
  <2>2. n = 0 /\ OnePermit(r, w, 1, i + 1, o, g)
    BY <1>4, <2>1, ProducerPermit
  <2>3. PICK m \in XMsgs : m = Msg(p)
    BY MsgType
  <2>4. list = << >> /\ << m >> \in Seq(XMsgs) /\ << >> \o << m >> = << m >> /\ Len(<< m >>) = 1
    <3>1. list = << >>
      <4>1. list \in Seq(XMsgs) /\ Len(list) = 0
        BY <1>3, <2>2, Zenon DEF ExType
      <4> QED
        BY <4>1
    <3>2. << m >> \in Seq(XMsgs) /\ Len(<< m >>) = 1
      OBVIOUS
    <3>3. \A s \in Seq(XMsgs) : << >> \o s = s
      BY ConcatEmptySeq
    <3> QED
      BY <3>1, <3>2, <3>3
  <2>5. list' = << m >>
    BY <1>7, <2>3, <2>4, OneByte, Zenon
  <2>6. put = got /\ put \in Seq(XMsgs)
    BY <1>4, <2>4 DEF ExType
  <2>7. put' \in Seq(XMsgs) /\ Len(put') = i + 1 /\ put' = got \o << m >>
    BY <1>3, <1>7, <2>3, <2>6, Passed
  <2>8. made' \in [XThreads -> Nat] /\ made'[p] = made[p] + 1 /\ \A x \in XThreads \ {p} : made'[x] = made[x]
    BY <1>1, <1>7 DEF Count, ExType
  <2>9. BufferRest(g, made')
    BY <1>1, <1>4, <2>1, <2>8 DEF BufferRest
  <2>10. ExType'
    BY <1>2, <1>7, <2>1, <2>4, <2>5, <2>7, <2>8 DEF ExType
  <2>11. r = sems'.read /\ w = sems'.write /\ 1 = Len(list') /\ o = Len(got') /\ put' = got' \o list' /\ waiting' = {}
    BY <1>3, <1>4, <1>7, <2>4, <2>5, <2>7, Zenon
  <2> QED
    BY <1>5, <2>2, <2>7, <2>9, <2>10, <2>11, Zenon
<1>8. CASE /\ at[p] = "post" /\ sems' = [sems EXCEPT !.read = @ + 1]
           /\ Go(p, IF made[p] = PerProducer THEN "end" ELSE "run")
           /\ UNCHANGED <<list, full, left, waiting, made, put, got>>
  <2>0. f[p] = "post" /\ made[p] = 1
    BY <1>1, <1>2, <1>4, <1>8 DEF BufferRest
  <2>1. g \in [XThreads -> XLabels] /\ g[p] = "end" /\ \A x \in XThreads \ {p} : g[x] = f[x]
    BY <1>1, <1>2, <1>8, <2>0, Gone DEF XLabels
  <2>2. sems' \in [read : Nat, write : Nat] /\ r + 1 = sems'.read /\ w = sems'.write
    BY <1>3, <1>8, Permits DEF ExType
  <2>3. OnePermit(r + 1, w, n, i, o, g)
    BY <1>4, <2>0, <2>1, ProducerPermit
  <2>4. BufferRest(g, made')
    BY <1>4, <1>8, <2>0, <2>1 DEF BufferRest
  <2>5. ExType'
    BY <1>2, <1>8, <2>1, <2>2 DEF ExType
  <2> QED
    BY <1>3, <1>4, <1>5, <1>8, <2>2, <2>3, <2>4, <2>5, Zenon
<1> QED
  BY <1>6, <1>7, <1>8 DEF BufferProduce

LEMMA BufferConsumeInv ==
  ASSUME ExType, BufferInv, program = "ex4", NEW c \in XConsumers, BufferConsume(c)
  PROVE  ExType' /\ BufferInv'
<1>1. c \in XThreads /\ c \in XConsumers /\ PerProducer = 1
  BY XFacts, MainThreads
<1>2. PICK f, g : f = at /\ g = at'
  OBVIOUS
<1>3. PICK r, w, n, i, o \in Nat : r = sems.read /\ w = sems.write /\ n = Len(list) /\ i = Len(put) /\ o = Len(got)
  BY Permits, Lengths DEF ExType
<1>4. OnePermit(r, w, n, i, o, f) /\ BufferRest(f, made) /\ put = got \o list /\ waiting = {}
  BY <1>2, <1>3, Zenon DEF BufferInv, BufferRest
<1>5. \A r1, w1, n1, i1, o1 :
        /\ r1 = sems'.read /\ w1 = sems'.write /\ n1 = Len(list') /\ i1 = Len(put') /\ o1 = Len(got')
        /\ OnePermit(r1, w1, n1, i1, o1, g) /\ BufferRest(g, made') /\ put' = got' \o list' /\ waiting' = {}
        => BufferInv'
  BY <1>2, Zenon DEF BufferInv, BufferRest
<1>6. CASE /\ at[c] = "run" /\ made[c] < PerProducer /\ sems.read > 0 /\ sems' = [sems EXCEPT !.read = @ - 1]
           /\ Go(c, "lock") /\ UNCHANGED <<list, full, left, waiting, made, put, got>>
  <2>1. g \in [XThreads -> XLabels] /\ g[c] = "lock" /\ f[c] = "run" /\ \A x \in XThreads \ {c} : g[x] = f[x]
    BY <1>1, <1>2, <1>6, Gone DEF XLabels
  <2>2. sems' \in [read : Nat, write : Nat] /\ r - 1 = sems'.read /\ w = sems'.write /\ r > 0
    BY <1>3, <1>6, Permits DEF ExType
  <2>3. OnePermit(r - 1, w, n, i, o, g)
    <3>1. OnePermit(r, w, n, i, o, f) /\ (\A x \in XThreads \ {c} : g[x] = f[x]) /\ f[c] = "run" /\ g[c] = "lock" /\ r > 0
      BY <1>4, <2>1, <2>2
    <3> QED
      BY <3>1, ConsumerPermit
  <2>4. BufferRest(g, made')
    BY <1>4, <1>6, <2>1 DEF BufferRest
  <2>5. ExType'
    BY <1>2, <1>6, <2>1, <2>2 DEF ExType
  <2> QED
    BY <1>3, <1>4, <1>5, <1>6, <2>2, <2>3, <2>4, <2>5, Zenon
<1>7. CASE /\ at[c] = "lock" /\ got' = Append(got, Head(Loaded)) /\ list' = SubSeq(list, Len(Loaded) + 1, Len(list))
           /\ Count(c) /\ Go(c, "post") /\ UNCHANGED <<full, sems, left, waiting, put>>
  <2>1. g \in [XThreads -> XLabels] /\ g[c] = "post" /\ f[c] = "lock" /\ \A x \in XThreads \ {c} : g[x] = f[x]
    BY <1>1, <1>2, <1>7, Gone DEF XLabels
  <2>2. n = 1 /\ OnePermit(r, w, 0, i, o + 1, g)
    <3>1. OnePermit(r, w, n, i, o, f) /\ (\A x \in XThreads \ {c} : g[x] = f[x]) /\ f[c] = "lock" /\ g[c] = "post"
      BY <1>4, <2>1
    <3>2. f[c] = "lock" /\ g[c] = "post" => n = 1 /\ OnePermit(r, w, 0, i, o + 1, g)
      BY <3>1, ConsumerPermit, SMTT(60)
    <3> QED
      BY <3>1, <3>2, Zenon
  <2>3. PICK m : m \in XMsgs
    <3>1. <<OneProducer, 0>> \in XMsgs
      BY XFacts, Zenon DEF XMsgs
    <3> QED
      BY <3>1
  <2>4. got' = got \o list /\ list' = << >>
    BY <1>3, <1>7, <2>2, <2>3, OneByte, Zenon
  <2>5. got' \in Seq(XMsgs) /\ Len(got') = o + 1 /\ list' \in Seq(XMsgs) /\ Len(list') = 0 /\ got' \o << >> = got'
    <3>1. got \o list \in Seq(XMsgs) /\ Len(got \o list) = o + 1
      BY <1>3, <2>2, Lengths
    <3>2. \A s \in Seq(XMsgs) : s \o << >> = s
      BY ConcatEmptySeq
    <3> QED
      BY <2>4, <3>1, <3>2
  <2>8. made' \in [XThreads -> Nat] /\ made'[c] = made[c] + 1 /\ \A x \in XThreads \ {c} : made'[x] = made[x]
    BY <1>1, <1>7 DEF Count, ExType
  <2>9. BufferRest(g, made')
    BY <1>1, <1>4, <2>1, <2>8 DEF BufferRest
  <2>10. ExType'
    BY <1>2, <1>7, <2>1, <2>5, <2>8 DEF ExType
  <2>11. r = sems'.read /\ w = sems'.write /\ i = Len(put') /\ put' = got' \o list' /\ waiting' = {}
    BY <1>3, <1>4, <1>7, <2>4, <2>5, Zenon
  <2> QED
    BY <1>5, <2>2, <2>5, <2>9, <2>10, <2>11, Zenon
<1>8. CASE /\ at[c] = "post" /\ sems' = [sems EXCEPT !.write = @ + 1]
           /\ Go(c, IF made[c] = PerProducer THEN "end" ELSE "run")
           /\ UNCHANGED <<list, full, left, waiting, made, put, got>>
  <2>0. f[c] = "post" /\ made[c] = 1
    BY <1>1, <1>2, <1>4, <1>8 DEF BufferRest
  <2>1. g \in [XThreads -> XLabels] /\ g[c] = "end" /\ \A x \in XThreads \ {c} : g[x] = f[x]
    BY <1>1, <1>2, <1>8, <2>0, Gone DEF XLabels
  <2>2. sems' \in [read : Nat, write : Nat] /\ r = sems'.read /\ w + 1 = sems'.write
    BY <1>3, <1>8, Permits DEF ExType
  <2>3. OnePermit(r, w + 1, n, i, o, g)
    BY <1>4, <2>0, <2>1, ConsumerPermit, ZenonT(30)
  <2>4. BufferRest(g, made')
    BY <1>4, <1>8, <2>0, <2>1 DEF BufferRest
  <2>5. ExType'
    BY <1>2, <1>8, <2>1, <2>2 DEF ExType
  <2> QED
    BY <1>3, <1>4, <1>5, <1>8, <2>2, <2>3, <2>4, <2>5, Zenon
<1> QED
  BY <1>6, <1>7, <1>8 DEF BufferConsume

\* All threads at their ends have put and read the same number of messages.
LEMMA BufferArrives == ASSUME ExType, BufferInv, program = "ex4" PROVE MessagesArrive
<1>1. PICK f : f = at
  OBVIOUS
<1>2. PICK r, w, n, i, o \in Nat : r = sems.read /\ w = sems.write /\ n = Len(list) /\ i = Len(put) /\ o = Len(got)
  BY Permits, Lengths DEF ExType
<1>3. OnePermit(r, w, n, i, o, f)
  BY <1>1, <1>2, Zenon DEF BufferInv
<1>4. /\ put = got \o list /\ waiting = {} /\ got \in Seq(XMsgs) /\ list \in Seq(XMsgs) /\ i = o + n
  BY <1>2, Lengths DEF BufferInv, ExType
<1>5. PICK a, b, c, d :
        /\ a = CountAt(XProducers, {"lock"}, f) /\ b = CountAt(XProducers, {"post"}, f)
        /\ c = CountAt(XConsumers, {"lock"}, f) /\ d = CountAt(XConsumers, {"post"}, f)
  OBVIOUS
<1>6. a \in Nat /\ b \in Nat /\ c \in Nat /\ d \in Nat
  BY <1>5, CountMoves, XFacts
<1>7. r + w + a + b + c + d = 1 /\ n = r + b + c
  BY <1>3, <1>5, Zenon DEF OnePermit
<1>8. n <= 1 /\ NUM_ITEMS = 1
  BY <1>6, <1>7, XFacts
<1>9. IsPrefix(got, put) /\ Len(put) - Len(got) <= NUM_ITEMS
  <2>1. IsPrefix(got, got \o list)
    BY <1>4, PrefixOf
  <2> QED
    BY <1>2, <1>4, <1>8, <2>1
<1>10. Quiet => got = put
  <2> SUFFICES ASSUME Quiet PROVE got = put
    OBVIOUS
  <2>1. (\A t \in XProducers : f[t] \in {"post", "end"}) /\ \A t \in XConsumers : f[t] \in {"post", "end"}
    BY <1>1, <1>4, XFacts DEF Quiet
  <2>2. /\ CountAt(XProducers, {"post", "end"}, f) = Cardinality(XProducers)
        /\ CountAt(XConsumers, {"post", "end"}, f) = Cardinality(XConsumers)
    BY <2>1, CountAll
  <2>3. i = o
    BY <1>3, <2>2, XFacts DEF OnePermit
  <2>4. list = << >>
    BY <1>2, <1>4, <2>3
  <2>5. got \o << >> = got
    BY <1>4, Passed
  <2> QED
    BY <1>4, <2>4, <2>5, Zenon
<1> QED
  BY <1>9, <1>10 DEF MessagesArrive

-----------------------------------------------------------------------------
(* ex6.c.                                                                   *)

LEMMA BarrierProduceInv ==
  ASSUME ExType, BarrierInv, program = "ex6", BarrierProduce(OneProducer)
  PROVE  ExType' /\ BarrierInv'
<1>1. PICK p \in XProducers : p = OneProducer
  BY XFacts
<1>2. p \in XThreads /\ p \notin XConsumers /\ \A x \in XProducers \union XConsumers : x \in XThreads
  BY XFacts
<1>3. PICK f, g : f = at /\ g = at'
  OBVIOUS
<1>4. Len(got) = CountAt(XConsumers, {"end"}, f) /\ ToSet(got) \subseteq ToSet(put)
  BY <1>3, Zenon DEF BarrierInv
<1>5. ASSUME NEW l \in XLabels, l # "run", Go(p, l)
      PROVE  /\ at' \in [XThreads -> XLabels] /\ at'[p] = l
             /\ CountAt(XConsumers, {"end"}, g) = CountAt(XConsumers, {"end"}, f)
             /\ (\A q \in XProducers \ {p} : at'[q] = "end") /\ \A q \in XConsumers : at'[q] \in {"run", "end"}
  <2>1. at' \in [XThreads -> XLabels] /\ at'[p] = l /\ \A x \in XThreads \ {p} : at'[x] = at[x]
    BY <1>2, <1>5, Gone
  <2>2. \A x \in XConsumers : g[x] = f[x]
    BY <1>2, <1>3, <2>1
  <2>3. CountAt(XConsumers, {"end"}, g) = CountAt(XConsumers, {"end"}, f)
    BY <2>2, CountSame
  <2> QED
    BY <1>1, <1>2, <2>1, <2>3 DEF BarrierInv
<1>6. CASE /\ at[p] = "run" /\ list' = <<Msg(p)>> /\ put' = Append(put, Msg(p)) /\ Count(p)
           /\ full' = TRUE /\ waiting' = {} /\ Go(p, "join") /\ UNCHANGED <<sems, left, got>>
  <2>1. /\ at' \in [XThreads -> XLabels] /\ at'[p] = "join"
        /\ CountAt(XConsumers, {"end"}, g) = CountAt(XConsumers, {"end"}, f)
        /\ (\A q \in XProducers \ {p} : at'[q] = "end") /\ \A q \in XConsumers : at'[q] \in {"run", "end"}
    BY <1>5, <1>6 DEF XLabels
  <2>2. PICK m \in XMsgs : m = Msg(p)
    BY MsgType
  <2>3. list' \in Seq(XMsgs) /\ Len(list') = 1 /\ list'[1] = m
    BY <1>6, <2>2
  <2>4. put \in Seq(XMsgs) /\ put' = Append(put, m)
    BY <1>6, <2>2 DEF ExType
  <2>5. put' \in Seq(XMsgs) /\ m \in ToSet(put') /\ ToSet(put) \subseteq ToSet(put')
    <3>1. PICK u, v : u = put /\ v = put' /\ v = Append(u, m) /\ u \in Seq(XMsgs)
      BY <2>4
    <3>2. v \in Seq(XMsgs) /\ Len(v) = Len(u) + 1 /\ v[Len(u) + 1] = m /\ \A i \in 1 .. Len(u) : v[i] = u[i]
      BY <3>1
    <3>3. m \in ToSet(v) /\ \A x \in ToSet(u) : x \in ToSet(v)
      BY <3>1, <3>2 DEF ToSet
    <3> QED
      BY <3>1, <3>2, <3>3
  <2>6. made' \in [XThreads -> Nat]
    BY <1>2, <1>6 DEF Count, ExType
  <2>7. ExType'
    BY <1>6, <2>1, <2>3, <2>5, <2>6 DEF ExType
  <2>8. ToSet(got') \subseteq ToSet(put') /\ Len(got') = CountAt(XConsumers, {"end"}, at')
    BY <1>3, <1>4, <1>6, <2>1, <2>5, Zenon
  <2>9. full' /\ waiting' = {} /\ list'[1] \in ToSet(put')
    BY <1>6, <2>3, <2>5, Zenon
  <2> QED
    BY <1>1, <2>1, <2>3, <2>7, <2>8, <2>9 DEF BarrierInv
<1>7. CASE /\ at[p] = "join" /\ sems.read > 0 /\ sems' = [sems EXCEPT !.read = @ - 1] /\ left' = left - 1
           /\ Go(p, IF left = 1 THEN "end" ELSE "join") /\ UNCHANGED <<list, full, waiting, made, put, got>>
  <2>1. PICK l \in XLabels : l = (IF left = 1 THEN "end" ELSE "join") /\ l # "run"
    BY DEF XLabels
  <2>2. /\ at' \in [XThreads -> XLabels] /\ at'[p] = l
        /\ CountAt(XConsumers, {"end"}, g) = CountAt(XConsumers, {"end"}, f)
        /\ (\A q \in XProducers \ {p} : at'[q] = "end") /\ \A q \in XConsumers : at'[q] \in {"run", "end"}
    BY <1>5, <1>7, <2>1
  <2>3. sems' \in [read : Nat, write : Nat]
    BY <1>7, Permits DEF ExType
  <2>4. ExType'
    BY <1>7, <2>2, <2>3 DEF ExType
  <2>5. ToSet(got') \subseteq ToSet(put') /\ Len(got') = CountAt(XConsumers, {"end"}, at')
    BY <1>3, <1>4, <1>7, <2>2, Zenon
  <2> QED
    BY <1>1, <1>7, <2>1, <2>2, <2>4, <2>5 DEF BarrierInv
<1> QED
  BY <1>1, <1>6, <1>7 DEF BarrierProduce

LEMMA BarrierConsumeInv ==
  ASSUME ExType, BarrierInv, program = "ex6", NEW c \in XConsumers, BarrierConsume(c) \/ WakeUp(c)
  PROVE  ExType' /\ BarrierInv'
<1>1. CASE /\ ~full /\ waiting' = waiting \union {c} /\ UNCHANGED <<list, full, sems, left, at, made, put, got>>
  <2>1. ExType'
    BY <1>1 DEF ExType
  <2> QED
    BY <1>1, <2>1 DEF BarrierInv
<1>2. CASE WakeUp(c)
  <2>1. waiting' = waiting \ {c} /\ c \in waiting /\ UNCHANGED <<list, full, sems, left, at, made, put, got>>
    BY <1>2 DEF WakeUp
  <2>2. ExType'
    BY <2>1 DEF ExType
  <2> QED
    BY <2>1, <2>2 DEF BarrierInv
<1>3. CASE /\ at[c] = "run" /\ full /\ got' = got \o list /\ sems' = [sems EXCEPT !.read = @ + 1]
           /\ Go(c, "end") /\ UNCHANGED <<list, full, left, waiting, made, put>>
  <2>1. PICK f, g : f = at /\ g = at'
    OBVIOUS
  <2>2. c \in XThreads /\ OneProducer \in XProducers /\ c \notin XProducers /\ \A x \in XProducers \union XConsumers : x \in XThreads
    BY XFacts
  <2>3. g \in [XThreads -> XLabels] /\ g[c] = "end" /\ f[c] = "run" /\ \A x \in XThreads \ {c} : g[x] = f[x]
    BY <1>3, <2>1, <2>2, Gone DEF XLabels
  <2>4. CountAt(XConsumers, {"end"}, g) = CountAt(XConsumers, {"end"}, f) + 1
    <3>1. \A x \in XConsumers \ {c} : g[x] = f[x]
      BY <2>2, <2>3
    <3>2. f[c] \notin {"end"} /\ g[c] \in {"end"}
      BY <2>3
    <3>3. PICK L : L = {"end"}
      OBVIOUS
    <3>4. CountAt(XConsumers, L, g) = CountAt(XConsumers, L, f) + 1
      BY <3>1, <3>2, <3>3, CountMoves, XFacts
    <3> QED
      BY <3>3, <3>4, Zenon
  <2>5. Len(list) = 1 /\ list[1] \in ToSet(put) /\ ToSet(got) \subseteq ToSet(put)
        /\ Len(got) = CountAt(XConsumers, {"end"}, f)
    BY <1>3, <2>1, Zenon DEF BarrierInv
  <2>6. got' \in Seq(XMsgs) /\ Len(got') = Len(got) + 1
    BY <1>3, <2>5, Lengths
  <2>7. sems' \in [read : Nat, write : Nat]
    BY <1>3, Permits DEF ExType
  <2>8. ExType'
    BY <1>3, <2>1, <2>3, <2>6, <2>7 DEF ExType
  <2>9. Len(got') = CountAt(XConsumers, {"end"}, at')
    BY <2>1, <2>4, <2>5, <2>6, Zenon
  <2>10. ToSet(got') \subseteq ToSet(put')
    <3>1. PICK u, v, w, s : u = got /\ v = list /\ w = u \o v /\ s = ToSet(put) /\ u \in Seq(XMsgs) /\ v \in Seq(XMsgs)
      BY DEF ExType
    <3>2. \A i \in 1 .. Len(u) : u[i] \in s
      <4>1. \A x \in ToSet(u) : x \in s
        BY <2>5, <3>1, Zenon
      <4>2. \A i \in 1 .. Len(u) : u[i] \in ToSet(u)
        BY <3>1 DEF ToSet
      <4> QED
        BY <4>1, <4>2, Zenon
    <3>3. Len(v) = 1 /\ v[1] \in s
      BY <2>5, <3>1
    <3>4. w \in Seq(XMsgs) /\ Len(w) = Len(u) + 1 /\ w[Len(u) + 1] = v[1] /\ \A i \in 1 .. Len(u) : w[i] = u[i]
      <4>1. /\ u \o v \in Seq(XMsgs) /\ Len(u \o v) = Len(u) + Len(v)
            /\ \A i \in 1 .. Len(u) + Len(v) : (u \o v)[i] = IF i <= Len(u) THEN u[i] ELSE v[i - Len(u)]
        BY <3>1, ConcatProperties
      <4>2. Len(u) \in Nat
        BY <3>1, LenProperties
      <4>3. /\ w \in Seq(XMsgs) /\ Len(w) = Len(u) + 1
            /\ \A i \in 1 .. Len(u) + 1 : w[i] = IF i <= Len(u) THEN u[i] ELSE v[i - Len(u)]
        BY <3>1, <3>3, <4>1, Zenon
      <4> QED
        BY <4>2, <4>3
    <3>5. \A i \in 1 .. Len(w) : w[i] \in s
      <4>1. \A i \in 1 .. Len(w) : i \in 1 .. Len(u) \/ i = Len(u) + 1
        BY <3>1, <3>4
      <4> QED
        BY <3>2, <3>3, <3>4, <4>1
    <3>6. \A x \in ToSet(w) : x \in s
      BY <3>4, <3>5 DEF ToSet
    <3>7. w = got' /\ s = ToSet(put')
      BY <1>3, <3>1, Zenon
    <3> QED
      BY <3>6, <3>7
  <2>11. /\ \A p \in XProducers \ {OneProducer} : at'[p] = "end"
         /\ \A x \in XConsumers : at'[x] \in {"run", "end"}
         /\ at'[OneProducer] = at[OneProducer]
    BY <2>1, <2>2, <2>3 DEF BarrierInv
  <2> QED
    BY <1>3, <2>8, <2>9, <2>10, <2>11 DEF BarrierInv
<1> QED
  BY <1>1, <1>2, <1>3 DEF BarrierConsume

\* When the producer has ended the message was there, and nobody waits for it.
LEMMA BarrierArrives == ASSUME ExType, BarrierInv, program = "ex6" PROVE MessagesArrive
<1>1. Quiet => Len(got) = Cardinality(XConsumers)
  <2> SUFFICES ASSUME Quiet PROVE Len(got) = Cardinality(XConsumers)
    OBVIOUS
  <2>1. PICK f : f = at
    OBVIOUS
  <2>2. OneProducer \in XThreads /\ OneProducer \notin XConsumers
    BY XFacts
  <2>3. at[OneProducer] = "end"
    BY <2>2 DEF Quiet, ExType
  <2>4. waiting = {}
    BY <2>3 DEF BarrierInv
  <2>5. \A c \in XConsumers : f[c] \in {"end"}
    BY <2>1, <2>4, XFacts DEF Quiet
  <2>6. CountAt(XConsumers, {"end"}, f) = Cardinality(XConsumers)
    BY <2>5, CountAll
  <2> QED
    BY <2>1, <2>6, Zenon DEF BarrierInv
<1>2. \A m \in ToSet(got) : m \in ToSet(put)
  BY DEF BarrierInv
<1> QED
  BY <1>1, <1>2 DEF MessagesArrive

-----------------------------------------------------------------------------
(* All of them.                                                             *)

\* What main of each program starts with.
LEMMA ExInitInv ==
  ASSUME ExInit, program \in {"ex1", "ex2", "ex3", "ex4", "ex6", "pingpong", "uid"} PROVE ExInv
<1>1. Main.write \in Nat /\ Main.total \in Int
  <2>1. Cardinality(XProducers) * XMessages \in Nat /\ Cardinality(XProducers) * NUM_ITEMS \in Nat
        /\ Cardinality(XProducers) \in Nat /\ Cardinality(XConsumers) \in Nat /\ XMessages \in Nat /\ NUM_ITEMS \in Nat
    BY XFacts
  <2> QED
    BY <2>1 DEF Main, Ex1Main, Ex2Main, Ex3Main, Ex4Main, Ex6Main
<1>2. /\ list = << >> /\ put = << >> /\ got = << >> /\ full = FALSE /\ waiting = {} /\ left = Main.total
      /\ sems = [read |-> 0, write |-> Main.write] /\ made = [t \in XThreads |-> 0]
      /\ at = [t \in XThreads |-> IF t \in Main.producers \union Main.consumers THEN "run" ELSE "end"]
  BY DEF ExInit
<1>3. sems \in [read : Nat, write : Nat] /\ sems.read = 0 /\ sems.write = Main.write
  BY <1>1, <1>2
<1>4. ExType
  <2>1. << >> \in Seq(XMsgs)
    BY EmptySeq
  <2>2. at \in [XThreads -> XLabels]
    BY <1>2 DEF XLabels
  <2> QED
    BY <1>1, <1>2, <1>3, <2>1, <2>2 DEF ExType
<1>5. Len(<< >>) = 0 /\ << >> \o << >> = << >>
  OBVIOUS
<1>6. \A t \in XThreads : /\ t \in Main.producers \union Main.consumers => at[t] = "run"
                          /\ t \notin Main.producers \union Main.consumers => at[t] = "end"
                          /\ made[t] = 0
  BY <1>2
<1>7. PICK f : f = at
  OBVIOUS
<1>8. ASSUME NEW T, T \subseteq Main.producers \union Main.consumers, T \subseteq XThreads, NEW L, "run" \notin L
      PROVE  CountAt(T, L, f) = 0
  <2>1. \A x \in T : f[x] \notin L
    BY <1>6, <1>7, <1>8
  <2> QED
    BY <2>1, CountNone
<1>9. program = "ex1" => SpinInv
  BY <1>2, <1>5, <1>6, MainThreads, XFacts DEF SpinInv
<1>10. program = "ex2" => CondInv
  <2> SUFFICES ASSUME program = "ex2" PROVE CondInv
    OBVIOUS
  <2>1. \A t \in XProducers \union XConsumers : at[t] = "run" /\ made[t] = 0
    BY <1>6, MainThreads, XFacts
  <2>2. Cardinality(XProducers) * XMessages \in Nat /\ Main.total = Cardinality(XProducers) * XMessages
    BY MainThreads, XFacts
  <2> QED
    <3>1. put = got \o list /\ left = Cardinality(XProducers) * XMessages - Len(got)
      BY <1>2, <1>5, <2>2
    <3>2. \A i \in 1 .. Len(put) : FALSE
      BY <1>2, <1>5
    <3>3. (\A p \in XProducers : made[p] <= XMessages) /\ \A c \in XConsumers : at[c] # "end"
      BY <2>1, XFacts
    <3> QED
      BY <1>2, <3>1, <3>2, <3>3 DEF CondInv
<1>11. program = "ex3" => SemInv /\ SemSent
  <2> SUFFICES ASSUME program = "ex3" PROVE SemInv /\ SemSent
    OBVIOUS
  <2>1. \A t \in XProducers \union XConsumers : at[t] = "run"
    BY <1>6, MainThreads, XFacts
  <2>2. Cardinality(XProducers) \in Nat /\ Main.total = Cardinality(XProducers)
    BY MainThreads, XFacts
  <2>3. CountAt(XProducers, {"post"}, f) = 0 /\ CountAt(XConsumers, {"lock"}, f) = 0
    BY <1>8, MainThreads, XFacts
  <2>4. Len(list) = sems.read + CountAt(XProducers, {"post"}, at) + CountAt(XConsumers, {"lock"}, at)
    BY <1>2, <1>3, <1>5, <1>7, <2>3
  <2>5. SemSent
    <3>1. CountAt(XProducers, {"post", "end"}, f) = 0
      BY <1>8, MainThreads, XFacts
    <3>2. Len(put) = 0
      BY <1>2, <1>5
    <3> QED
      BY <1>7, <3>1, <3>2 DEF SemSent
  <2> QED
    BY <1>2, <1>5, <2>1, <2>2, <2>4, <2>5 DEF SemInv
<1>12. program = "ex4" => BufferInv
  <2> SUFFICES ASSUME program = "ex4" PROVE BufferInv
    OBVIOUS
  <2>1. \A t \in XThreads : at[t] = "run" /\ made[t] = 0
    BY <1>6, MainThreads, XFacts
  <2>2. /\ CountAt(XProducers, {"lock"}, f) = 0 /\ CountAt(XProducers, {"post"}, f) = 0
        /\ CountAt(XConsumers, {"lock"}, f) = 0 /\ CountAt(XConsumers, {"post"}, f) = 0
        /\ CountAt(XProducers, {"post", "end"}, f) = 0 /\ CountAt(XConsumers, {"post", "end"}, f) = 0
    BY <1>8, MainThreads, XFacts
  <2>3. OnePermit(0, 1, 0, 0, 0, f)
    BY <2>2 DEF OnePermit
  <2>4. sems.read = 0 /\ sems.write = 1 /\ Len(list) = 0 /\ Len(put) = 0 /\ Len(got) = 0
    BY <1>2, <1>3, <1>5, MainThreads
  <2>5. OnePermit(sems.read, sems.write, Len(list), Len(put), Len(got), at)
    BY <1>7, <2>3, <2>4, Zenon
  <2> QED
    BY <1>2, <1>5, <2>1, <2>5 DEF BufferInv
<1>13. program = "ex6" => BarrierInv
  <2> SUFFICES ASSUME program = "ex6" PROVE BarrierInv
    OBVIOUS
  <2>1. /\ \A p \in XProducers \ {OneProducer} : at[p] = "end"
        /\ \A c \in XConsumers : at[c] = "run"
        /\ at[OneProducer] = "run"
    BY <1>6, MainThreads, XFacts
  <2>2. CountAt(XConsumers, {"end"}, f) = 0
    BY <1>8, MainThreads, XFacts
  <2>3. Len(got) = CountAt(XConsumers, {"end"}, at) /\ ToSet(got) \subseteq ToSet(put)
    BY <1>2, <1>5, <1>7, <2>2
  <2> QED
    BY <1>2, <2>1, <2>3 DEF BarrierInv
<1> QED
  BY <1>2, <1>4, <1>9, <1>10, <1>11, <1>12, <1>13 DEF ExInv

\* A step of a thread of one of the programs.
LEMMA ExNextInv == ExInv /\ ExNext => ExInv'
<1> SUFFICES ASSUME ExInv, ExNext PROVE ExInv'
  OBVIOUS
<1>1. UNCHANGED program /\ ExType /\ program \in {"ex1", "ex2", "ex3", "ex4", "ex6", "pingpong", "uid"}
  BY DEF ExNext, ThreadStep, ExInv
<1>2. \/ \E p \in Main.producers : ProducerMsg(p)
      \/ \E c \in Main.consumers : ConsumerMsg(c)
      \/ \E c \in Main.consumers : WakeUp(c)
  BY DEF ExNext, ThreadStep
<1>3. program \in {"ex1", "ex2", "ex3", "ex4", "ex6"}
  BY <1>2 DEF ProducerMsg, ConsumerMsg, WakeUp
<1>4. CASE program = "ex1"
  <2>1. SpinInv /\ Main.producers = {OneProducer} /\ Main.consumers = {OneConsumer}
    BY <1>4, MainThreads DEF ExInv
  <2>2. SpinProduce(OneProducer) \/ SpinConsume(OneConsumer)
    BY <1>2, <1>4, <2>1 DEF ProducerMsg, ConsumerMsg, WakeUp
  <2>3. ExType' /\ SpinInv'
    BY <1>1, <1>4, <2>1, <2>2, SpinProduceInv, SpinConsumeInv
  <2> QED
    BY <1>1, <1>4, <2>3 DEF ExInv
<1>5. CASE program = "ex2"
  <2>1. CondInv /\ Main.producers = XProducers /\ Main.consumers = XConsumers
    BY <1>5, MainThreads DEF ExInv
  <2>2. \/ \E p \in XProducers : CondProduce(p) \/ ProduceFails(p)
        \/ \E c \in XConsumers : CondConsume(c) \/ WakeUp(c)
    BY <1>2, <1>5, <2>1 DEF ProducerMsg, ConsumerMsg
  <2>3. ExType' /\ CondInv'
    BY <1>1, <1>5, <2>1, <2>2, CondProduceInv, CondConsumeInv, CondOtherInv
  <2> QED
    BY <1>1, <1>5, <2>3 DEF ExInv
<1>6. CASE program = "ex3"
  <2>1. SemInv /\ SemSent /\ Main.producers = XProducers /\ Main.consumers = XConsumers
    BY <1>6, MainThreads DEF ExInv
  <2>2. \/ \E p \in XProducers : SemProduce(p) \/ ProduceFails(p)
        \/ \E c \in XConsumers : SemConsume(c)
    BY <1>2, <1>6, <2>1 DEF ProducerMsg, ConsumerMsg, WakeUp
  <2>3. ExType' /\ SemInv'
    BY <1>1, <1>6, <2>1, <2>2, SemProduceInv, SemConsumeInv
  <2>4. SemSent'
    BY <1>1, <1>6, <2>1, <2>2, SemSentStep, XFacts
  <2> QED
    BY <1>1, <1>6, <2>3, <2>4 DEF ExInv
<1>7. CASE program = "ex4"
  <2>1. BufferInv /\ Main.producers = XProducers /\ Main.consumers = XConsumers
    BY <1>7, MainThreads DEF ExInv
  <2>2. (\E p \in XProducers : BufferProduce(p)) \/ \E c \in XConsumers : BufferConsume(c)
    BY <1>2, <1>7, <2>1 DEF ProducerMsg, ConsumerMsg, WakeUp
  <2>3. ExType' /\ BufferInv'
    BY <1>1, <1>7, <2>1, <2>2, BufferProduceInv, BufferConsumeInv
  <2> QED
    BY <1>1, <1>7, <2>3 DEF ExInv
<1>8. CASE program = "ex6"
  <2>1. BarrierInv /\ Main.producers = {OneProducer} /\ Main.consumers = XConsumers
    BY <1>8, MainThreads DEF ExInv
  <2>2. BarrierProduce(OneProducer) \/ \E c \in XConsumers : BarrierConsume(c) \/ WakeUp(c)
    BY <1>2, <1>8, <2>1 DEF ProducerMsg, ConsumerMsg
  <2>3. ExType' /\ BarrierInv'
    BY <1>1, <1>8, <2>1, <2>2, BarrierProduceInv, BarrierConsumeInv
  <2> QED
    BY <1>1, <1>8, <2>3 DEF ExInv
<1> QED
  BY <1>3, <1>4, <1>5, <1>6, <1>7, <1>8

\* What the invariant says of the messages.
LEMMA ExArrives == ExInv => MessagesArrive
<1> SUFFICES ASSUME ExInv PROVE MessagesArrive
  OBVIOUS
<1>1. CASE program \in {"pingpong", "uid"}
  BY <1>1 DEF ExInv, MessagesArrive
<1> QED
  BY <1>1, SpinArrives, CondArrives, SemArrives, BufferArrives, BarrierArrives DEF ExInv

XInv == ExInv /\ BallInv /\ UIDInv

LEMMA XInitInv == XInit => XInv
BY ExInitInv, BallInitInv, UIDInitInv DEF XInit, XInv

LEMMA XNextInv == XInv /\ [XNext]_xVars => XInv'
<1> SUFFICES ASSUME XInv, [XNext]_xVars PROVE XInv'
  OBVIOUS
<1>1. ASSUME UNCHANGED <<program, exVars>> PROVE ExInv'
  <2>1. UNCHANGED <<program, list, full, sems, left, waiting, at, made, put, got>>
    BY <1>1 DEF exVars
  <2>2. ExInv
    BY DEF XInv
  <2>3. ExType => ExType'
    BY <2>1, Zenon DEF ExType
  <2>4. SpinInv => SpinInv'
    BY <2>1, Zenon DEF SpinInv
  <2>5. CondInv => CondInv'
    BY <2>1, Zenon DEF CondInv
  <2>6. SemInv /\ SemSent => SemInv' /\ SemSent'
    BY <2>1, Zenon DEF SemInv, SemSent
  <2>7. BufferInv => BufferInv'
    BY <2>1, Zenon DEF BufferInv
  <2>8. BarrierInv => BarrierInv'
    BY <2>1, Zenon DEF BarrierInv
  <2> QED
    BY <2>1, <2>2, <2>3, <2>4, <2>5, <2>6, <2>7, <2>8, Zenon DEF ExInv
<1>2. ASSUME UNCHANGED ball PROVE BallInv'
  BY <1>2, Zenon DEF XInv, BallInv
<1>3. ASSUME UNCHANGED uids PROVE UIDInv'
  BY <1>3 DEF XInv, UIDInv, GoodUID, UIDsDiffer
<1>4. CASE ExNext
  BY <1>2, <1>3, <1>4, ExNextInv DEF XInv, ExNext, ThreadStep
<1>5. CASE PingPong
  BY <1>1, <1>3, <1>5, BallNextInv DEF XInv, PingPong
<1>6. CASE UIDNext
  BY <1>1, <1>2, <1>6, UIDNextInv DEF XInv, UIDNext
<1>7. CASE UNCHANGED xVars
  BY <1>1, <1>2, <1>3, <1>7 DEF XInv, xVars
<1> QED
  BY <1>4, <1>5, <1>6, <1>7 DEF XNext

\* In the programs that exchange messages, with any number of threads and messages, each
\* message is read as it was written, in order and once, whichever way the threads are
\* interleaved, and all of them are read when nothing moves any more; the ping-pong
\* programs have one ball; and no two good identifiers of uid.c are the same.
THEOREM ExchangesKept == XSpec => []ExchangesHold
<1>1. XInv => ExchangesHold
  BY ExArrives, BallImplied DEF XInv, UIDInv, ExchangesHold
<1> QED
  BY <1>1, XInitInv, XNextInv, PTL DEF XSpec

=============================================================================
