----------------------------- MODULE HeapProofs ------------------------------
(***************************************************************************)
(* The two users of the heap's algorithms: the heap on its vector, which   *)
(* implements the priority queue, and the task scheduler.                  *)
(***************************************************************************)
EXTENDS Sched, Heap, FiniteSetTheorems, TLAPS

TaskHeap == INSTANCE HeapOpsProofs WITH Compare <- WrapperTaskCmp
ItemHeap == INSTANCE HeapOpsProofs

\* The lemmas of HeapOpsProofs are about the operators that Sched uses.
LEMMA SchedUsesHeap ==
  /\ \A h, x : Ops!Push(h, x) = TaskHeap!Push(h, x)
  /\ \A h : Ops!Pop(h) = TaskHeap!Pop(h)
  /\ \A h, i : Ops!Removed(h, i) = TaskHeap!Removed(h, i)
  /\ \A h : TaskHeap!ToSet(h) = ToSet(h)
  /\ \A r : Ops!RemoveIndex(r) = TaskHeap!RemoveIndex(r)
<1>1. \A h, i : Ops!HeapifyUp(h, i) = TaskHeap!HeapifyUp(h, i)
  BY DEF Ops!HeapifyUp, TaskHeap!HeapifyUp, Ops!UpTurn, TaskHeap!UpTurn, Ops!PARENT, TaskHeap!PARENT, Ops!SwapElem, TaskHeap!SwapElem
<1>2. \A h, i : Ops!HeapifyDown(h, i) = TaskHeap!HeapifyDown(h, i)
  BY DEF Ops!HeapifyDown, TaskHeap!HeapifyDown, Ops!DownTurn, TaskHeap!DownTurn, Ops!LEFT, TaskHeap!LEFT, Ops!RIGHT,
         TaskHeap!RIGHT, Ops!LargerChild, TaskHeap!LargerChild, Ops!SwapElem, TaskHeap!SwapElem
<1>3. \A h, x : Ops!Push(h, x) = TaskHeap!Push(h, x)
  BY <1>1 DEF Ops!Push, TaskHeap!Push
<1>4. \A h : Ops!Pop(h) = TaskHeap!Pop(h)
  BY <1>2 DEF Ops!Pop, TaskHeap!Pop, Ops!PopBack, TaskHeap!PopBack, Ops!SwapElem, TaskHeap!SwapElem
<1>5. \A h, i : Ops!Removed(h, i) = TaskHeap!Removed(h, i)
  BY DEF Ops!Removed, TaskHeap!Removed, Ops!PopBack, TaskHeap!PopBack, Ops!SwapElem, TaskHeap!SwapElem, Ops!PARENT,
         TaskHeap!PARENT, Ops!HeapifyUp, TaskHeap!HeapifyUp, Ops!UpTurn, TaskHeap!UpTurn, Ops!HeapifyDown,
         TaskHeap!HeapifyDown, Ops!DownTurn, TaskHeap!DownTurn, Ops!LEFT, TaskHeap!LEFT, Ops!RIGHT, TaskHeap!RIGHT,
         Ops!LargerChild, TaskHeap!LargerChild
<1>6. \A h : TaskHeap!ToSet(h) = ToSet(h)
  BY DEF TaskHeap!ToSet, ToSet
<1>7. \A r : Ops!RemoveIndex(r) = TaskHeap!RemoveIndex(r)
  BY DEF TaskHeap!RemoveIndex, Ops!RemoveIndex, TaskHeap!Matches, Ops!Matches
<1> QED
  BY <1>3, <1>4, <1>5, <1>6, <1>7

-----------------------------------------------------------------------------
(* The task scheduler.                                                      *)

TaskRecords == [uid : Tasks, left : Int]

\* h is a heap of tasks, none of which is there twice.
TaskHeapOK(h) == h \in Seq(TaskRecords) /\ TaskHeap!Distinct(h) /\ TaskHeap!IsHeap(h)

\* The tasks h in the heap and those in r are apart, and were created; exactly
\* the others of the created ones have been cleaned, once.
Owned(h, r, c, d) ==
  /\ h \intersect r = {}
  /\ \A x, y \in h \union r : x.uid = y.uid => x = y
  /\ \A x \in h \union r : x.uid \in c
  /\ \A t \in Tasks : d[t] = IF t \in c /\ \A x \in h \union r : x.uid # t THEN 1 ELSE 0

\* The inductive invariant.
SchedInv ==
  /\ TaskHeapOK(heap)
  /\ pc \in {"caller", "loop", "sleep", "op"}
  /\ running \in SUBSET TaskRecords
  /\ IF pc \in {"sleep", "op"} THEN \E x : running = {x} ELSE running = {}
  /\ created \in SUBSET Tasks /\ cleaned \in [Tasks -> Nat]
  /\ Owned(ToSet(heap), running, created, cleaned)

\* WrapperTaskCmp orders the tasks by their time.
LEMMA TasksOrdered == TaskHeap!Ordered(TaskRecords)
BY DEF TaskHeap!Ordered, TaskRecords, WrapperTaskCmp

\* What a second does to a task.
Later(x) == [x EXCEPT !.left = @ - 1]

LEMMA TaskRecordFacts ==
  /\ \A x \in TaskRecords : /\ Later(x) \in TaskRecords /\ Later(x).uid = x.uid /\ Later(x).left = x.left - 1
                            /\ x.uid \in Tasks /\ x.left \in Int
  /\ \A x, y \in TaskRecords : x.uid = y.uid /\ x.left = y.left => x = y
<1>1. \A x \in TaskRecords : x.uid \in Tasks /\ x.left \in Int /\ x = [uid |-> x.uid, left |-> x.left]
  BY DEF TaskRecords
<1>2. \A x \in TaskRecords : Later(x) = [uid |-> x.uid, left |-> x.left - 1]
  BY <1>1 DEF Later
<1>3. \A u \in Tasks, n \in Int : [uid |-> u, left |-> n] \in TaskRecords
  BY DEF TaskRecords
<1>4. \A x \in TaskRecords : x.left - 1 \in Int
  BY <1>1
<1> QED
  BY <1>1, <1>2, <1>3, <1>4

\* HeapPush of a task.
LEMMA PushTask ==
  ASSUME NEW h, TaskHeapOK(h), NEW x \in TaskRecords, x \notin ToSet(h)
  PROVE  TaskHeapOK(Ops!Push(h, x)) /\ ToSet(Ops!Push(h, x)) = ToSet(h) \union {x}
<1>1. x \notin TaskHeap!ToSet(h)
  BY SchedUsesHeap
<1>2. /\ TaskHeapOK(TaskHeap!Push(h, x))
      /\ TaskHeap!ToSet(TaskHeap!Push(h, x)) = TaskHeap!ToSet(h) \union {x}
  BY <1>1, TasksOrdered, TaskHeap!PushKeepsHeap DEF TaskHeapOK
<1> QED
  BY <1>2, SchedUsesHeap

\* HeapPop of a task: the one it takes out is due first.
LEMMA PopTask ==
  ASSUME NEW h, TaskHeapOK(h), h # << >>
  PROVE  /\ TaskHeapOK(Ops!Pop(h)) /\ ToSet(Ops!Pop(h)) = ToSet(h) \ {h[1]}
         /\ h[1] \in ToSet(h) /\ \A y \in ToSet(h) : h[1].left <= y.left
<1>1. TaskHeap!Takes(TaskHeap!Pop(h), h, h[1], TaskRecords) /\ TaskHeap!IsHeap(TaskHeap!Pop(h))
  BY TasksOrdered, TaskHeap!PopKeepsHeap DEF TaskHeapOK
<1>2. TaskHeapOK(Ops!Pop(h)) /\ ToSet(Ops!Pop(h)) = ToSet(h) \ {h[1]}
  BY <1>1, SchedUsesHeap DEF TaskHeap!Takes, TaskHeapOK
<1>3. h \in Seq(TaskRecords) /\ Len(h) \in Nat /\ Len(h) > 0
  BY DEF TaskHeapOK
<1>4. h[1] \in ToSet(h) /\ h[1] \in TaskRecords
  BY <1>3 DEF ToSet
<1>5. ASSUME NEW y \in ToSet(h) PROVE h[1].left <= y.left
  <2>1. PICK j \in 1 .. Len(h) : y = h[j]
    BY <1>3 DEF ToSet
  <2>2. WrapperTaskCmp(h[j], h[1]) <= 0
    BY TasksOrdered, TaskHeap!RootIsGreatest DEF TaskHeapOK
  <2>3. h[j] \in TaskRecords
    BY <1>3
  <2> QED
    BY <1>4, <2>1, <2>2, <2>3 DEF WrapperTaskCmp, TaskRecords
<1> QED
  BY <1>2, <1>4, <1>5

\* HeapRemove of a task.
LEMMA RemoveTask ==
  ASSUME NEW h, TaskHeapOK(h), NEW i \in 1 .. Len(h)
  PROVE  TaskHeapOK(Ops!Removed(h, i)) /\ ToSet(Ops!Removed(h, i)) = ToSet(h) \ {h[i]} /\ h[i] \in ToSet(h)
<1>1. TaskHeap!Takes(TaskHeap!Removed(h, i), h, h[i], TaskRecords) /\ TaskHeap!IsHeap(TaskHeap!Removed(h, i))
  BY TasksOrdered, TaskHeap!RemovedKeepsHeap DEF TaskHeapOK
<1>2. h[i] \in ToSet(h)
  BY DEF TaskHeapOK, ToSet
<1> QED
  BY <1>1, <1>2, SchedUsesHeap DEF TaskHeap!Takes, TaskHeapOK

\* A second that passes leaves the order as it is.
LEMMA TickTasks ==
  ASSUME NEW h, TaskHeapOK(h), NEW g, g = [i \in DOMAIN h |-> Later(h[i])]
  PROVE  TaskHeapOK(g) /\ ToSet(g) = {Later(x) : x \in ToSet(h)}
<1>1. h \in Seq(TaskRecords) /\ DOMAIN h = 1 .. Len(h) /\ Len(h) \in Nat /\ \A i \in 1 .. Len(h) : h[i] \in TaskRecords
  BY DEF TaskHeapOK
<1>2. g \in Seq(TaskRecords) /\ Len(g) = Len(h) /\ \A i \in 1 .. Len(h) : g[i] = Later(h[i])
  <2>1. \A i \in 1 .. Len(h) : Later(h[i]) \in TaskRecords
    BY <1>1, TaskRecordFacts
  <2>2. g = [i \in 1 .. Len(h) |-> Later(h[i])]
    BY <1>1
  <2>3. g \in [1 .. Len(h) -> TaskRecords]
    BY <2>1, <2>2
  <2> QED
    BY <1>1, <2>2, <2>3
<1>3. \A i \in 1 .. Len(h) : g[i].uid = h[i].uid /\ g[i].left = h[i].left - 1
  BY <1>1, <1>2, TaskRecordFacts
<1>4. TaskHeap!Distinct(g)
  <2> SUFFICES ASSUME NEW i \in 1 .. Len(h), NEW j \in 1 .. Len(h), g[i] = g[j] PROVE i = j
    BY <1>2 DEF TaskHeap!Distinct
  <2>1. h[i].uid = h[j].uid /\ h[i].left - 1 = h[j].left - 1 /\ h[i].left \in Int /\ h[j].left \in Int
    <3>1. h[i] \in TaskRecords /\ h[j] \in TaskRecords
      BY <1>1
    <3>2. h[i].left \in Int /\ h[j].left \in Int
      BY <3>1, TaskRecordFacts
    <3>3. /\ g[i].uid = h[i].uid /\ g[i].left = h[i].left - 1
          /\ g[j].uid = h[j].uid /\ g[j].left = h[j].left - 1
      BY <1>3
    <3>4. h[i].uid = h[j].uid /\ h[i].left - 1 = h[j].left - 1
      BY <3>3
    <3> QED
      BY <3>2, <3>4
  <2>2. h[i] = h[j]
    BY <1>1, <2>1, TaskRecordFacts
  <2> QED
    BY <2>2 DEF TaskHeapOK, TaskHeap!Distinct
<1>5. TaskHeap!IsHeap(g)
  <2> SUFFICES ASSUME NEW j \in 2 .. Len(h) PROVE WrapperTaskCmp(g[j], g[TaskHeap!PARENT(j)]) <= 0
    BY <1>2 DEF TaskHeap!IsHeap
  <2> DEFINE p == TaskHeap!PARENT(j)
  <2>1. WrapperTaskCmp(h[j], h[p]) <= 0
    BY DEF TaskHeapOK, TaskHeap!IsHeap
  <2>2. p \in 1 .. Len(h) /\ j \in 1 .. Len(h)
    BY <1>1 DEF TaskHeap!PARENT
  <2> HIDE DEF p
  <2>3. h[j].left \in Int /\ h[p].left \in Int /\ g[j].left = h[j].left - 1 /\ g[p].left = h[p].left - 1
    BY <1>1, <1>3, <2>2, TaskRecordFacts
  <2>4. WrapperTaskCmp(g[j], g[p]) <= 0
    BY <2>1, <2>3 DEF WrapperTaskCmp
  <2> QED
    BY <2>4 DEF p
<1>6. \A x : x \in ToSet(g) <=> x \in {Later(y) : y \in ToSet(h)}
  <2>1. \A x : x \in ToSet(g) <=> \E i \in 1 .. Len(h) : x = g[i]
    BY <1>2 DEF ToSet
  <2>2. \A x : x \in ToSet(h) <=> \E i \in 1 .. Len(h) : x = h[i]
    BY <1>1 DEF ToSet
  <2> QED
    BY <1>2, <2>1, <2>2
<1>7. ToSet(g) = {Later(x) : x \in ToSet(h)}
  BY <1>6
<1> QED
  BY <1>2, <1>4, <1>5, <1>7 DEF TaskHeapOK

LEMMA SchedInvInit == Init => SchedInv
<1> SUFFICES ASSUME Init PROVE SchedInv
  OBVIOUS
<1>1. heap = << >> /\ running = {} /\ created = {} /\ cleaned = [t \in Tasks |-> 0] /\ pc = "caller"
  BY DEF Init
<1>2. ToSet(heap) = {}
  BY <1>1 DEF ToSet
<1>3. TaskHeapOK(heap)
  BY <1>1 DEF TaskHeapOK, TaskHeap!Distinct, TaskHeap!IsHeap
<1>4. Owned(ToSet(heap), running, created, cleaned)
  BY <1>1, <1>2 DEF Owned
<1> QED
  BY <1>1, <1>3, <1>4 DEF SchedInv

\* Of the tasks in h and r those in g and q stay; the others have these uids.
Leave(h, r, g, q, uids) ==
  /\ g \union q \subseteq h \union r /\ g \intersect q = {}
  /\ \A x \in h \union r : x.uid \in Tasks
  /\ \A t : t \in uids <=> \E x \in (h \union r) \ (g \union q) : x.uid = t

\* What TaskDestroy writes.
Cleaned(d, uids) == [t \in Tasks |-> IF t \in uids THEN d[t] + 1 ELSE d[t]]

\* The account stays right when TaskDestroy is called for the tasks that leave.
LEMMA Destroyed ==
  ASSUME NEW h, NEW r, NEW c, NEW d \in [Tasks -> Nat], Owned(h, r, c, d),
         NEW g, NEW q, NEW uids, Leave(h, r, g, q, uids)
  PROVE  Cleaned(d, uids) \in [Tasks -> Nat] /\ Owned(g, q, c, Cleaned(d, uids))
<1> USE DEF Leave
<1> DEFINE e == Cleaned(d, uids)
<1>1. e \in [Tasks -> Nat] /\ \A t \in Tasks : e[t] = IF t \in uids THEN d[t] + 1 ELSE d[t]
  BY DEF Cleaned
<1> HIDE DEF e
<1>2. ASSUME NEW t \in Tasks PROVE e[t] = IF t \in c /\ \A x \in g \union q : x.uid # t THEN 1 ELSE 0
  <2>1. CASE t \in uids
    <3>1. PICK x \in (h \union r) \ (g \union q) : x.uid = t
      BY <2>1
    <3>2. t \in c /\ d[t] = 0
      BY <3>1 DEF Owned
    <3>3. \A y \in g \union q : y.uid # t
      BY <3>1 DEF Owned
    <3> QED
      BY <1>1, <2>1, <3>2, <3>3
  <2>2. CASE t \notin uids
    <3>1. e[t] = d[t]
      BY <1>1, <2>2
    <3>2. (\A x \in g \union q : x.uid # t) <=> (\A x \in h \union r : x.uid # t)
      BY <2>2
    <3> QED
      BY <3>1, <3>2 DEF Owned
  <2> QED
    BY <2>1, <2>2
<1> QED
  BY <1>1, <1>2 DEF Owned, e

LEMMA SchedInvNext == SchedInv /\ [Next]_vars => SchedInv'
<1> SUFFICES ASSUME SchedInv, [Next]_vars PROVE SchedInv'
  OBVIOUS
<1>1. /\ TaskHeapOK(heap) /\ pc \in {"caller", "loop", "sleep", "op"} /\ running \in SUBSET TaskRecords
      /\ IF pc \in {"sleep", "op"} THEN \E x : running = {x} ELSE running = {}
      /\ created \in SUBSET Tasks /\ cleaned \in [Tasks -> Nat]
      /\ Owned(ToSet(heap), running, created, cleaned)
  BY DEF SchedInv
<1>2. \A x \in ToSet(heap) : x \in TaskRecords /\ x.uid \in Tasks
  BY <1>1, TaskRecordFacts DEF TaskHeapOK, ToSet
<1>3. \A x \in ToSet(heap) \union running : x.uid \in Tasks
  BY <1>1, <1>2, TaskRecordFacts
<1>4. ASSUME NEW t \in Tasks, NEW interval \in Intervals, SchedAdd(t, interval) PROVE SchedInv'
  <2> DEFINE x == [uid |-> t, left |-> interval]
  <2>1. x \in TaskRecords /\ x.uid = t
    BY SchedAssumption DEF TaskRecords
  <2>2. t \notin created /\ created' = created \union {t} /\ heap' = Ops!Push(heap, x) /\ UNCHANGED <<running, pc, cleaned>>
    BY <1>4 DEF SchedAdd
  <2> HIDE DEF x
  <2>3. x \notin ToSet(heap) /\ x \notin running
    BY <1>1, <2>1, <2>2 DEF Owned
  <2>4. TaskHeapOK(heap') /\ ToSet(heap') = ToSet(heap) \union {x}
    BY <1>1, <2>1, <2>2, <2>3, PushTask
  <2>5. Owned(ToSet(heap'), running', created', cleaned')
    BY <1>1, <2>1, <2>2, <2>3, <2>4 DEF Owned
  <2> QED
    BY <1>1, <2>2, <2>4, <2>5 DEF SchedInv
<1>5. ASSUME NEW t \in Tasks, SchedRemove(t) PROVE SchedInv'
  <2> DEFINE r == [j \in DOMAIN heap |-> WrapperTaskIsMatch(heap[j], t)]
             i == Ops!RemoveIndex(r)
  <2>1. /\ IF i = 0 THEN UNCHANGED <<heap, cleaned>> ELSE heap' = Ops!Removed(heap, i) /\ TaskDestroy({heap[i].uid})
        /\ UNCHANGED <<running, pc, created>>
    BY <1>5 DEF SchedRemove
  <2>2. DOMAIN r \subseteq Nat /\ DOMAIN r = 1 .. Len(heap)
    BY <1>1 DEF TaskHeapOK
  <2>3. i = 0 \/ i \in 1 .. Len(heap)
    <3> HIDE DEF r
    <3> QED
      BY <2>2, SchedUsesHeap, TaskHeap!FirstMatch
  <2> HIDE DEF i
  <2>4. CASE i = 0
    BY <1>1, <2>1, <2>4 DEF SchedInv
  <2>5. CASE i # 0
    <3>1. heap' = Ops!Removed(heap, i) /\ i \in 1 .. Len(heap)
      BY <2>1, <2>3, <2>5
    <3>2. TaskHeapOK(heap') /\ ToSet(heap') = ToSet(heap) \ {heap[i]} /\ heap[i] \in ToSet(heap)
      BY <1>1, <3>1, RemoveTask
    <3>3. cleaned' = Cleaned(cleaned, {heap[i].uid})
      BY <2>1, <2>5 DEF TaskDestroy, Cleaned
    <3>4. Leave(ToSet(heap), running, ToSet(heap'), running, {heap[i].uid})
      BY <1>1, <1>3, <3>2 DEF Owned, Leave
    <3>5. cleaned' \in [Tasks -> Nat] /\ Owned(ToSet(heap'), running, created, cleaned')
      BY <1>1, <3>3, <3>4, Destroyed
    <3> QED
      BY <1>1, <2>1, <3>2, <3>5 DEF SchedInv
  <2> QED
    BY <2>4, <2>5
<1>6. CASE SchedClear
  <2>1. heap' = << >> /\ TaskDestroy(Queued) /\ UNCHANGED <<running, pc, created>>
    BY <1>6 DEF SchedClear
  <2>2. TaskHeapOK(heap') /\ ToSet(heap') = {}
    BY <2>1 DEF TaskHeapOK, TaskHeap!Distinct, TaskHeap!IsHeap, ToSet
  <2>3. cleaned' \in [Tasks -> Nat] /\ Owned(ToSet(heap'), running, created, cleaned')
    <3>1. cleaned' = Cleaned(cleaned, Queued)
      BY <2>1 DEF TaskDestroy, Cleaned
    <3>2. \A u : u \in Queued <=> \E x \in ToSet(heap) : x.uid = u
      BY DEF Queued, Uids
    <3>3. (ToSet(heap) \union running) \ (ToSet(heap') \union running) = ToSet(heap)
      BY <1>1, <2>2 DEF Owned
    <3>4. Leave(ToSet(heap), running, ToSet(heap'), running, Queued)
      BY <1>3, <2>2, <3>2, <3>3 DEF Leave
    <3> QED
      BY <1>1, <3>1, <3>4, Destroyed
  <2> QED
    BY <1>1, <2>1, <2>2, <2>3 DEF SchedInv
<1>7. CASE SchedStop
  BY <1>1, <1>7 DEF SchedStop, SchedInv
<1>8. CASE SchedRun
  BY <1>1, <1>8 DEF SchedRun, SchedInv
<1>9. CASE TakeEarliest
  <2>1. pc = "loop" /\ heap # << >> /\ running' = {Head(heap)} /\ heap' = Ops!Pop(heap) /\ pc' = "sleep" /\ UNCHANGED <<created, cleaned>>
    BY <1>9 DEF TakeEarliest, GoesOn
  <2>2. TaskHeapOK(heap') /\ ToSet(heap') = ToSet(heap) \ {heap[1]} /\ heap[1] \in ToSet(heap)
    BY <1>1, <2>1, PopTask
  <2>3. running = {} /\ running' = {heap[1]}
    BY <1>1, <2>1 DEF TaskHeapOK
  <2>4. ToSet(heap') \union running' = ToSet(heap) \union running /\ ToSet(heap') \intersect running' = {}
    BY <2>2, <2>3
  <2>5. Owned(ToSet(heap'), running', created', cleaned')
    BY <1>1, <2>1, <2>4 DEF Owned
  <2> QED
    BY <1>1, <1>2, <2>1, <2>2, <2>3, <2>5 DEF SchedInv
<1>10. CASE TaskRun
  BY <1>1, <1>10 DEF TaskRun, SchedInv
<1>11. CASE SchedRunReturns
  BY <1>1, <1>11 DEF SchedRunReturns, SchedInv
<1>12. ASSUME NEW result \in {-1, 0}, TaskEnds(result) PROVE SchedInv'
  <2>1. TaskDestroy(Uids(running)) /\ running' = {} /\ pc' = "loop" /\ UNCHANGED <<heap, created>>
    BY <1>12 DEF TaskEnds
  <2>2. cleaned' \in [Tasks -> Nat] /\ Owned(ToSet(heap), running', created, cleaned')
    <3>1. cleaned' = Cleaned(cleaned, Uids(running))
      BY <2>1 DEF TaskDestroy, Cleaned
    <3>2. \A u : u \in Uids(running) <=> \E x \in running : x.uid = u
      BY DEF Uids
    <3>3. (ToSet(heap) \union running) \ (ToSet(heap) \union running') = running
      BY <1>1, <2>1 DEF Owned
    <3>4. Leave(ToSet(heap), running, ToSet(heap), running', Uids(running))
      BY <1>3, <2>1, <3>2, <3>3 DEF Leave
    <3> QED
      BY <1>1, <3>1, <3>4, Destroyed
  <2> QED
    BY <1>1, <2>1, <2>2 DEF SchedInv
<1>13. ASSUME NEW result \in Intervals, TaskAgain(result) PROVE SchedInv'
  <2>1. PICK x \in running : heap' = Ops!Push(heap, [x EXCEPT !.left = result])
    BY <1>13 DEF TaskAgain
  <2>2. pc = "op" /\ running' = {} /\ pc' = "loop" /\ UNCHANGED <<created, cleaned>>
    BY <1>13 DEF TaskAgain
  <2>3. PICK y \in TaskRecords : y = [x EXCEPT !.left = result]
    <3>1. x \in TaskRecords /\ result \in Int
      BY <1>1, SchedAssumption
    <3>2. x = [uid |-> x.uid, left |-> x.left] /\ x.uid \in Tasks
      BY <3>1 DEF TaskRecords
    <3>3. [x EXCEPT !.left = result] = [uid |-> x.uid, left |-> result]
      BY <3>2
    <3>4. [uid |-> x.uid, left |-> result] \in TaskRecords
      BY <3>1, <3>2 DEF TaskRecords
    <3> QED
      BY <3>3, <3>4
  <2>4. y.uid = x.uid /\ running = {x}
    BY <1>1, <2>2, <2>3 DEF TaskRecords
  <2>5. y \notin ToSet(heap)
    BY <1>1, <2>4 DEF Owned
  <2>6. TaskHeapOK(heap') /\ ToSet(heap') = ToSet(heap) \union {y}
    BY <1>1, <2>1, <2>3, <2>5, PushTask
  <2>7. Owned(ToSet(heap'), running', created', cleaned')
    BY <1>1, <2>2, <2>4, <2>5, <2>6 DEF Owned
  <2> QED
    BY <1>1, <2>2, <2>6, <2>7 DEF SchedInv
<1>14. CASE Tick
  <2>1. /\ heap' = [i \in DOMAIN heap |-> Later(heap[i])] /\ running' = {Later(x) : x \in running}
        /\ UNCHANGED <<pc, created, cleaned>>
    BY <1>14 DEF Tick, Later
  <2>2. TaskHeapOK(heap') /\ ToSet(heap') = {Later(x) : x \in ToSet(heap)}
    BY <1>1, <2>1, TickTasks
  <2>3. \A x \in ToSet(heap) \union running : x \in TaskRecords /\ Later(x).uid = x.uid
    BY <1>1, <1>2, TaskRecordFacts
  <2>4. running' \in SUBSET TaskRecords
    BY <1>1, <2>1, TaskRecordFacts
  <2>5. IF pc' \in {"sleep", "op"} THEN \E x : running' = {x} ELSE running' = {}
    <3>1. CASE pc \in {"sleep", "op"}
      <4>1. PICK x : running = {x}
        BY <1>1, <3>1
      <4>2. running' = {Later(x)}
        BY <2>1, <4>1
      <4> QED
        BY <2>1, <3>1, <4>2
    <3>2. CASE pc \notin {"sleep", "op"}
      BY <1>1, <2>1, <3>2
    <3> QED
      BY <3>1, <3>2
  <2>6. Owned(ToSet(heap'), running', created', cleaned')
    BY <1>1, <2>1, <2>2, <2>3 DEF Owned
  <2> QED
    BY <1>1, <2>1, <2>2, <2>4, <2>5, <2>6 DEF SchedInv
<1>15. CASE UNCHANGED vars
  BY <1>1, <1>15 DEF vars, SchedInv
<1> QED
  BY <1>4, <1>5, <1>6, <1>7, <1>8, <1>9, <1>10, <1>11, <1>12, <1>13, <1>14, <1>15 DEF Next, Call, OpReturns, RunStep

\* The invariant gives the account that OneOwner states.
LEMMA SchedInvOneOwner == SchedInv => OneOwner
<1> SUFFICES ASSUME SchedInv PROVE OneOwner
  OBVIOUS
<1>1. /\ TaskHeapOK(heap) /\ pc \in {"caller", "loop", "sleep", "op"} /\ running \in SUBSET TaskRecords
      /\ IF pc \in {"sleep", "op"} THEN \E x : running = {x} ELSE running = {}
      /\ cleaned \in [Tasks -> Nat]
      /\ Owned(ToSet(heap), running, created, cleaned)
  BY DEF SchedInv
<1>2. Cardinality(Queued) = Len(heap)
  <2> DEFINE n == Len(heap)
             f == [i \in 1 .. n |-> heap[i].uid]
  <2>1. n \in Nat /\ \A x : x \in ToSet(heap) <=> \E i \in 1 .. n : x = heap[i]
    BY <1>1 DEF TaskHeapOK, ToSet
  <2>2. \A u : u \in Queued <=> \E i \in 1 .. n : u = heap[i].uid
    <3>1. \A u : u \in Queued <=> \E x \in ToSet(heap) : x.uid = u
      BY DEF Queued, Uids
    <3> QED
      BY <2>1, <3>1
  <2>3. \A i, j \in 1 .. n : heap[i].uid = heap[j].uid => i = j
    <3>1. \A i, j \in 1 .. n : heap[i].uid = heap[j].uid => heap[i] = heap[j]
      BY <1>1, <2>1 DEF Owned
    <3>2. \A i, j \in 1 .. n : heap[i] = heap[j] => i = j
      BY <1>1 DEF TaskHeapOK, TaskHeap!Distinct
    <3> QED
      BY <3>1, <3>2
  <2>4. f \in Bijection(1 .. n, Queued)
    <3>1. f \in [1 .. n -> Queued]
      BY <2>2
    <3>2. \A i, j \in 1 .. n : f[i] = f[j] => i = j
      BY <2>3
    <3>3. \A u \in Queued : \E i \in 1 .. n : f[i] = u
      BY <2>2
    <3> QED
      BY <3>1, <3>2, <3>3 DEF Bijection, Injection, Surjection, IsInjective
  <2>5. IsFiniteSet(1 .. n) /\ Cardinality(1 .. n) = n
    <3> DEFINE k == IF 1 > n THEN 0 ELSE n - 1 + 1
    <3>1. 1 \in Int /\ n \in Int /\ k = n
      BY <2>1
    <3>2. IsFiniteSet(1 .. n) /\ Cardinality(1 .. n) = k
      BY <3>1, FS_Interval, Zenon
    <3> HIDE DEF k, n
    <3> QED
      BY <3>1, <3>2, Zenon
  <2> HIDE DEF f
  <2>6. ExistsBijection(1 .. n, Queued)
    BY <2>4 DEF ExistsBijection
  <2> QED
    BY <2>5, <2>6, FS_Bijection
<1>3. ASSUME NEW t \in Tasks
      PROVE  cleaned[t] + Cardinality({x \in ToSet(heap) \union running : x.uid = t}) = IF t \in created THEN 1 ELSE 0
  <2> DEFINE own == {x \in ToSet(heap) \union running : x.uid = t}
  <2>1. cleaned[t] = IF t \in created /\ \A x \in ToSet(heap) \union running : x.uid # t THEN 1 ELSE 0
    BY <1>1 DEF Owned
  <2>2. CASE own = {}
    <3>1. \A x \in ToSet(heap) \union running : x.uid # t
      BY <2>2
    <3>2. Cardinality(own) = 0
      BY <2>2, FS_EmptySet
    <3> HIDE DEF own
    <3>3. cleaned[t] = IF t \in created THEN 1 ELSE 0
      BY <2>1, <3>1
    <3>4. cleaned[t] + Cardinality(own) = IF t \in created THEN 1 ELSE 0
      BY <3>2, <3>3
    <3> QED
      BY <3>4 DEF own
  <2>3. CASE own # {}
    <3>1. PICK x \in ToSet(heap) \union running : x.uid = t
      BY <2>3
    <3>2. own = {x}
      BY <1>1, <3>1 DEF Owned
    <3>3. Cardinality(own) = 1
      BY <3>2, FS_Singleton
    <3>4. t \in created /\ cleaned[t] = 0
      BY <1>1, <2>1, <3>1 DEF Owned
    <3> HIDE DEF own
    <3>5. cleaned[t] + Cardinality(own) = IF t \in created THEN 1 ELSE 0
      BY <3>3, <3>4
    <3> QED
      BY <3>5 DEF own
  <2> QED
    BY <2>2, <2>3
<1>4. running # {} <=> pc \in {"sleep", "op"}
  BY <1>1
<1> QED
  BY <1>2, <1>3, <1>4 DEF OneOwner

\* Every task that was added is once in the heap, being executed, or destroyed
\* once, for any number of tasks and any op_funcs: SchedAdd, SchedRemove,
\* SchedClear, SchedStop and SchedRun lose none and clean none up twice.
THEOREM TasksHaveOneOwner == Spec => []OneOwner
<1>1. Spec => []SchedInv
  BY SchedInvInit, SchedInvNext, PTL DEF Spec
<1> QED
  BY <1>1, SchedInvOneOwner, PTL

\* SchedRun executes the task that is due first: what HeapPop takes out of the
\* array is the least of all that are in it.
THEOREM RunsEarliestFirst == Spec => EarliestFirst
<1> DEFINE First == pc = "loop" /\ pc' = "sleep" => \A x \in running', y \in ToSet(heap') : x.left <= y.left
<1>1. SchedInv /\ [Next]_vars => [First]_vars
  <2> SUFFICES ASSUME SchedInv, Next, pc = "loop", pc' = "sleep"
               PROVE  \A x \in running', y \in ToSet(heap') : x.left <= y.left
    OBVIOUS
  <2>1. TakeEarliest
    BY DEF Next, Call, OpReturns, RunStep, SchedAdd, SchedRemove, SchedClear, SchedStop, SchedRun, TaskEnds,
           TaskAgain, TaskRun, SchedRunReturns, Tick, Callable
  <2>2. heap # << >> /\ running' = {Head(heap)} /\ heap' = Ops!Pop(heap)
    BY <2>1 DEF TakeEarliest, GoesOn
  <2>3. TaskHeapOK(heap)
    BY DEF SchedInv
  <2>4. ToSet(heap') \subseteq ToSet(heap) /\ \A y \in ToSet(heap) : heap[1].left <= y.left
    BY <2>2, <2>3, PopTask
  <2>5. running' = {heap[1]}
    BY <2>2, <2>3 DEF TaskHeapOK
  <2> QED
    BY <2>4, <2>5
<1>2. Spec => []SchedInv
  BY SchedInvInit, SchedInvNext, PTL DEF Spec
<1> QED
  BY <1>1, <1>2, PTL DEF Spec, EarliestFirst

-----------------------------------------------------------------------------
(* The heap on its vector.                                                  *)

\* The lemmas of HeapOpsProofs are about the operators that Heap uses.
LEMMA VectorUsesHeap ==
  /\ \A h, x : VecOps!Push(h, x) = ItemHeap!Push(h, x)
  /\ \A h : VecOps!Pop(h) = ItemHeap!Pop(h)
  /\ \A h, i : VecOps!Removed(h, i) = ItemHeap!Removed(h, i)
  /\ \A h : ItemHeap!ToSet(h) = ToSet(h)
  /\ \A r : VecOps!RemoveIndex(r) = ItemHeap!RemoveIndex(r)
<1>1. \A h, x : VecOps!Push(h, x) = ItemHeap!Push(h, x)
  BY DEF VecOps!Push, ItemHeap!Push, VecOps!HeapifyUp, ItemHeap!HeapifyUp, VecOps!UpTurn, ItemHeap!UpTurn,
         VecOps!PARENT, ItemHeap!PARENT, VecOps!SwapElem, ItemHeap!SwapElem
<1>2. \A h : VecOps!Pop(h) = ItemHeap!Pop(h)
  BY DEF VecOps!Pop, ItemHeap!Pop, VecOps!PopBack, ItemHeap!PopBack, VecOps!SwapElem, ItemHeap!SwapElem,
         VecOps!HeapifyDown, ItemHeap!HeapifyDown, VecOps!DownTurn, ItemHeap!DownTurn, VecOps!LEFT, ItemHeap!LEFT,
         VecOps!RIGHT, ItemHeap!RIGHT, VecOps!LargerChild, ItemHeap!LargerChild
<1>3. \A h, i : VecOps!Removed(h, i) = ItemHeap!Removed(h, i)
  BY DEF VecOps!Removed, ItemHeap!Removed, VecOps!PopBack, ItemHeap!PopBack, VecOps!SwapElem, ItemHeap!SwapElem,
         VecOps!PARENT, ItemHeap!PARENT, VecOps!HeapifyUp, ItemHeap!HeapifyUp, VecOps!UpTurn, ItemHeap!UpTurn,
         VecOps!HeapifyDown, ItemHeap!HeapifyDown, VecOps!DownTurn, ItemHeap!DownTurn, VecOps!LEFT, ItemHeap!LEFT,
         VecOps!RIGHT, ItemHeap!RIGHT, VecOps!LargerChild, ItemHeap!LargerChild
<1>4. \A h : ItemHeap!ToSet(h) = ToSet(h)
  BY DEF ItemHeap!ToSet, ToSet
<1>5. \A r : VecOps!RemoveIndex(r) = ItemHeap!RemoveIndex(r)
  BY DEF ItemHeap!RemoveIndex, VecOps!RemoveIndex, ItemHeap!Matches, VecOps!Matches
<1> QED
  BY <1>1, <1>2, <1>3, <1>4, <1>5

\* Items are ordered by their keys.
LEMMA ItemsOrdered == ItemHeap!Ordered(Items) /\ \A x \in Items : Key(x) \in KeySet /\ Key(x) \in Int
<1>1. \A x \in Items : x[1] \in KeySet /\ x[1] \in Int
  BY HeapAssumption DEF Items
<1> QED
  BY <1>1 DEF ItemHeap!Ordered, Compare, Key

\* The inductive invariant: the vector is a heap and fits into its buffer.
HeapInv ==
  /\ vec \in Seq(Items) /\ ItemHeap!Distinct(vec) /\ ItemHeap!IsHeap(vec)
  /\ capacity \in Nat
  /\ BufferFits

\* VectorPopBack leaves enough room, and never less than the default.
LEMMA ShrunkFits ==
  ASSUME NEW c \in Nat, c >= DEFAULT_CAPACITY, NEW s \in Nat, s <= c
  PROVE  Shrunk(c, s) \in Nat /\ Shrunk(c, s) >= DEFAULT_CAPACITY /\ s <= Shrunk(c, s)
BY HeapAssumption DEF Shrunk, VectorReserve

\* PQClear never leaves less than the default, for any number of pops.
LEMMA ShrinkAllFits ==
  ASSUME NEW c \in Nat, c >= DEFAULT_CAPACITY, NEW s \in Nat, s <= c
  PROVE  ShrinkAll(c, s) \in Nat /\ ShrinkAll(c, s) >= DEFAULT_CAPACITY
<1> DEFINE S == {v \in [c : Nat, s : Nat] : v.c >= DEFAULT_CAPACITY /\ v.s <= v.c}
           v0 == [c |-> c, s |-> s]
           step == [v \in S |-> PopTurn(v)]
           turn == CHOOSE t : t = [n \in Nat |-> IF n = 0 THEN v0 ELSE PopTurn(t[n - 1])]
<1>1. ShrinkAll(c, s) = turn[s].c
  BY DEF ShrinkAll
<1>2. v0 \in S /\ step \in [S -> S]
  <2>1. ASSUME NEW v \in S PROVE PopTurn(v) \in S
    <3>1. v.c \in Nat /\ v.s \in Nat /\ v.c >= DEFAULT_CAPACITY /\ v.s <= v.c
      OBVIOUS
    <3>2. Shrunk(v.c, v.s) \in Nat /\ Shrunk(v.c, v.s) >= DEFAULT_CAPACITY /\ v.s <= Shrunk(v.c, v.s)
      BY <3>1, ShrunkFits
    <3>3. CASE v.s > 0
      <4>1. PopTurn(v) = [c |-> Shrunk(v.c, v.s), s |-> v.s - 1]
        BY <3>3 DEF PopTurn
      <4>2. v.s - 1 \in Nat /\ v.s - 1 <= Shrunk(v.c, v.s)
        BY <3>1, <3>2, <3>3
      <4> QED
        BY <3>2, <4>1, <4>2
    <3>4. CASE ~(v.s > 0)
      BY <3>4 DEF PopTurn
    <3> QED
      BY <3>3, <3>4
  <2> QED
    BY <2>1
<1>run. PICK f : ItemHeap!Iterates(f, S, v0, step)
  <2> HIDE DEF S, v0, step
  <2> QED
    BY <1>2, ItemHeap!Iteration
<1>3. f \in [Nat -> S] /\ f[0] = v0 /\ \A n \in Nat : f[n + 1] = step[f[n]]
  BY <1>run DEF ItemHeap!Iterates
<1>4. \A n \in Nat : f[n + 1] = PopTurn(f[n])
  BY <1>3
<1> HIDE DEF v0, step, S
<1>5. f = [n \in Nat |-> IF n = 0 THEN v0 ELSE PopTurn(f[n - 1])]
  <2>1. \A n \in Nat : f[n] = IF n = 0 THEN v0 ELSE PopTurn(f[n - 1])
    BY <1>3, <1>4
  <2> QED
    BY <1>3, <2>1
<1>6. turn = [n \in Nat |-> IF n = 0 THEN v0 ELSE PopTurn(turn[n - 1])]
  BY <1>5
<1> HIDE DEF turn
<1>7. \A n \in Nat : turn[n] = f[n]
  <2> DEFINE Same == {n \in Nat : turn[n] = f[n]}
  <2>1. 0 \in Same
    BY <1>3, <1>6
  <2>2. ASSUME NEW n \in Nat, n \in Same PROVE n + 1 \in Same
    BY <1>4, <1>6, <2>2
  <2>3. \A n \in Nat : n \in Same
    <3> HIDE DEF Same
    <3> QED
      BY <2>1, <2>2, ItemHeap!AllNumbers
  <2> QED
    BY <2>3
<1>8. ShrinkAll(c, s) = f[s].c /\ f[s] \in S
  BY <1>1, <1>3, <1>7
<1> QED
  BY <1>8 DEF S

LEMMA HeapInvInit == HeapInit => HeapInv
<1> SUFFICES ASSUME HeapInit PROVE HeapInv
  OBVIOUS
<1>1. vec = << >> /\ capacity = VectorCreate(DEF_CAPACITY)
  BY DEF HeapInit
<1>2. capacity \in Nat /\ capacity >= DEFAULT_CAPACITY /\ capacity >= 0
  BY <1>1, HeapAssumption DEF VectorCreate
<1>3. vec \in Seq(Items) /\ Len(vec) = 0
  BY <1>1
<1> QED
  BY <1>2, <1>3 DEF HeapInv, BufferFits, ItemHeap!Distinct, ItemHeap!IsHeap

\* The first item of a heap that is not empty is a greatest one.
LEMMA FirstIsGreatest ==
  ASSUME HeapInv, vec # << >>
  PROVE  vec[1] = Head(vec) /\ vec[1] \in ToSet(vec) /\ \A y \in ToSet(vec) : Key(y) <= Key(vec[1])
<1>1. vec \in Seq(Items) /\ ItemHeap!IsHeap(vec) /\ Len(vec) \in Nat
  BY DEF HeapInv
<1>2. \A x : x \in ToSet(vec) <=> \E i \in 1 .. Len(vec) : x = vec[i]
  BY <1>1 DEF ToSet
<1>3. 1 \in 1 .. Len(vec) /\ vec[1] \in Items /\ vec[1] = Head(vec)
  BY <1>1
<1>4. \A j \in 1 .. Len(vec) : Compare(vec[j], vec[1]) <= 0
  BY <1>1, ItemsOrdered, ItemHeap!RootIsGreatest
<1>5. ASSUME NEW j \in 1 .. Len(vec) PROVE Key(vec[j]) <= Key(vec[1])
  <2>1. vec[j] \in Items /\ Key(vec[j]) \in Int /\ Key(vec[1]) \in Int
    BY <1>1, <1>3, ItemsOrdered
  <2>2. Key(vec[j]) - Key(vec[1]) <= 0
    BY <1>4 DEF Compare, Key
  <2> QED
    BY <2>1, <2>2
<1> QED
  BY <1>2, <1>3, <1>5

\* HeapRemove takes an item that is_match answers 0 for, if there is one.
LEMMA RemoveMatchStep ==
  ASSUME HeapInv, NEW Z, Z \subseteq ToSet(vec), NEW r, DOMAIN r = 1 .. Len(vec),
         \A j \in 1 .. Len(vec) : r[j] = 0 <=> vec[j] \in Z, NEW call, RemoveMatch(r, call)
  PROVE  HeapInv' /\ Queue!TakeOne(Z, call)
<1>1. /\ vec \in Seq(Items) /\ ItemHeap!Distinct(vec) /\ ItemHeap!IsHeap(vec) /\ capacity \in Nat
      /\ Len(vec) <= capacity /\ capacity >= DEFAULT_CAPACITY /\ Len(vec) \in Nat
  BY DEF HeapInv, BufferFits
<1>2. \A x : x \in ToSet(vec) <=> \E i \in 1 .. Len(vec) : x = vec[i]
  BY <1>1 DEF ToSet
<1>3. PICK i : /\ i = VecOps!RemoveIndex(r)
               /\ IF i = 0 THEN ret' = call /\ UNCHANGED <<vec, capacity>>
                  ELSE vec' = VecOps!Removed(vec, i) /\ Shrink /\ ret' = Append(call, vec[i])
  BY DEF RemoveMatch
<1>4. \/ i = 0 /\ \A j \in 1 .. Len(vec) : r[j] # 0
      \/ i \in 1 .. Len(vec) /\ r[i] = 0
  <2>1. DOMAIN r \subseteq Nat
    BY <1>1
  <2> QED
    BY <1>3, <2>1, VectorUsesHeap, ItemHeap!FirstMatch
<1>5. CASE i = 0
  <2>1. Z = {}
    BY <1>2, <1>4, <1>5
  <2> QED
    BY <1>3, <1>5, <2>1 DEF HeapInv, BufferFits, Queue!TakeOne
<1>6. CASE i # 0
  <2>1. vec' = VecOps!Removed(vec, i) /\ Shrink /\ ret' = Append(call, vec[i]) /\ i \in 1 .. Len(vec) /\ vec[i] \in Z
    BY <1>3, <1>4, <1>6
  <2>2. ItemHeap!Takes(ItemHeap!Removed(vec, i), vec, vec[i], Items) /\ ItemHeap!IsHeap(ItemHeap!Removed(vec, i))
    BY <1>1, <2>1, ItemsOrdered, ItemHeap!RemovedKeepsHeap
  <2>3. /\ vec' \in Seq(Items) /\ Len(vec') = Len(vec) - 1 /\ ItemHeap!Distinct(vec') /\ ItemHeap!IsHeap(vec')
        /\ ToSet(vec') = ToSet(vec) \ {vec[i]}
    BY <2>1, <2>2, VectorUsesHeap DEF ItemHeap!Takes
  <2>4. capacity' \in Nat /\ Len(vec) - 1 <= capacity' /\ capacity' >= DEFAULT_CAPACITY
    BY <1>1, <2>1, ShrunkFits DEF Shrink
  <2>5. Queue!TakeOne(Z, call)
    BY <2>1, <2>3 DEF Queue!TakeOne
  <2> QED
    BY <2>3, <2>4, <2>5 DEF HeapInv, BufferFits
<1> QED
  BY <1>5, <1>6

\* What every call does, to the array and in the priority queue.
HeapStep == HeapInv' /\ Queue!Next

LEMMA HeapCalls == HeapInv /\ HeapNext => HeapStep
<1> SUFFICES ASSUME HeapInv, HeapNext PROVE HeapStep
  OBVIOUS
<1>1. /\ vec \in Seq(Items) /\ ItemHeap!Distinct(vec) /\ ItemHeap!IsHeap(vec) /\ capacity \in Nat
      /\ Len(vec) <= capacity /\ capacity >= DEFAULT_CAPACITY /\ Len(vec) \in Nat
  BY DEF HeapInv, BufferFits
<1>2. \A x : x \in ToSet(vec) <=> \E i \in 1 .. Len(vec) : x = vec[i]
  BY <1>1 DEF ToSet
<1>3. ASSUME NEW x \in Items, HeapPush(x) PROVE HeapStep
  <2>1. x \notin ToSet(vec) /\ vec' = VecOps!Push(vec, x) /\ Grow /\ ret' = <<"push", x>>
    BY <1>3 DEF HeapPush
  <2>2. /\ ItemHeap!Push(vec, x) \in Seq(Items) /\ Len(ItemHeap!Push(vec, x)) = Len(vec) + 1
        /\ ItemHeap!Distinct(ItemHeap!Push(vec, x)) /\ ItemHeap!IsHeap(ItemHeap!Push(vec, x))
        /\ ItemHeap!ToSet(ItemHeap!Push(vec, x)) = ItemHeap!ToSet(vec) \union {x}
    <3>1. x \notin ItemHeap!ToSet(vec)
      BY <2>1, VectorUsesHeap
    <3> QED
      BY <1>1, <3>1, ItemsOrdered, ItemHeap!PushKeepsHeap
  <2>3. /\ vec' \in Seq(Items) /\ Len(vec') = Len(vec) + 1 /\ ItemHeap!Distinct(vec') /\ ItemHeap!IsHeap(vec')
        /\ ToSet(vec') = ToSet(vec) \union {x}
    BY <2>1, <2>2, VectorUsesHeap
  <2>4. capacity' \in Nat /\ Len(vec) + 1 <= capacity' /\ capacity' >= DEFAULT_CAPACITY
    BY <1>1, <2>1, HeapAssumption DEF Grow, VectorReserve
  <2>5. Queue!Push(x)
    BY <2>1, <2>3 DEF Queue!Push
  <2> QED
    BY <2>3, <2>4, <2>5 DEF HeapStep, HeapInv, BufferFits, Queue!Next
<1>4. CASE HeapPop \/ HeapPeek
  <2>1. CASE Aborts /\ vec = << >>
    <3>1. ToSet(vec) = {}
      BY <2>1 DEF ToSet
    <3>2. Queue!Aborts
      BY <2>1, <3>1 DEF Aborts, Queue!Aborts
    <3> QED
      BY <1>1, <2>1, <3>2 DEF HeapStep, HeapInv, BufferFits, Aborts, Queue!Next
  <2>2. CASE vec # << >> /\ ret' = <<"peek", Head(vec)>> /\ UNCHANGED <<vec, capacity>>
    <3>1. Queue!Peek
      BY <2>2, FirstIsGreatest DEF Queue!Peek
    <3> QED
      BY <1>1, <2>2, <3>1 DEF HeapStep, HeapInv, BufferFits, Queue!Next
  <2>3. CASE vec # << >> /\ vec' = VecOps!Pop(vec) /\ Shrink /\ ret' = <<"pop", Head(vec)>>
    <3>1. ItemHeap!Takes(ItemHeap!Pop(vec), vec, vec[1], Items) /\ ItemHeap!IsHeap(ItemHeap!Pop(vec))
      BY <1>1, <2>3, ItemsOrdered, ItemHeap!PopKeepsHeap
    <3>2. /\ vec' \in Seq(Items) /\ Len(vec') = Len(vec) - 1 /\ ItemHeap!Distinct(vec') /\ ItemHeap!IsHeap(vec')
          /\ ToSet(vec') = ToSet(vec) \ {vec[1]}
      BY <2>3, <3>1, VectorUsesHeap DEF ItemHeap!Takes
    <3>3. capacity' \in Nat /\ Len(vec) - 1 <= capacity' /\ capacity' >= DEFAULT_CAPACITY
      BY <1>1, <2>3, ShrunkFits DEF Shrink
    <3>4. Queue!Pop
      BY <2>3, <3>2, FirstIsGreatest DEF Queue!Pop
    <3> QED
      BY <3>2, <3>3, <3>4 DEF HeapStep, HeapInv, BufferFits, Queue!Next
  <2> QED
    BY <1>4, <2>1, <2>2, <2>3 DEF HeapPop, HeapPeek
<1>5. ASSUME NEW k \in KeySet, HeapRemove(k) \/ PQErase(k) PROVE HeapStep
  <2>1. PICK x \in Items : Key(x) = k
    <3>1. PICK name \in Names : TRUE
      BY HeapAssumption
    <3>2. <<k, name>> \in Items /\ Key(<<k, name>>) = k
      BY DEF Items, Key
    <3> QED
      BY <3>2
  <2>2. DOMAIN vec = 1 .. Len(vec) /\ k \in Int /\ \A j \in 1 .. Len(vec) : vec[j] \in ToSet(vec) /\ Key(vec[j]) \in Int
    BY <1>1, <1>2, ItemsOrdered, HeapAssumption
  <2>3. CASE HeapRemove(k)
    <3> DEFINE r == [j \in DOMAIN vec |-> Key(vec[j]) - k]
               Z == {y \in ToSet(vec) : Key(y) = k}
    <3>1. PICK call : call = <<"remove", k>> /\ RemoveMatch(r, call)
      BY <2>3 DEF HeapRemove
    <3>2. DOMAIN r = 1 .. Len(vec) /\ \A j \in 1 .. Len(vec) : r[j] = 0 <=> vec[j] \in Z
      BY <2>2
    <3>3. Z \subseteq ToSet(vec)
      OBVIOUS
    <3>4. HeapInv' /\ Queue!TakeOne(Z, call)
      <4> HIDE DEF r, Z
      <4> QED
        BY <3>1, <3>2, <3>3, RemoveMatchStep
    <3>5. Queue!Remove(k)
      BY <3>1, <3>4 DEF Queue!Remove
    <3> QED
      BY <2>1, <3>4, <3>5 DEF HeapStep, Queue!Next
  <2>4. CASE PQErase(k)
    <3> DEFINE r == [j \in DOMAIN vec |-> IF Key(vec[j]) = k THEN 1 ELSE 0]
               Z == {y \in ToSet(vec) : Key(y) # k}
    <3>1. PICK call : call = <<"erase", k>> /\ RemoveMatch(r, call)
      BY <2>4 DEF PQErase
    <3>2. DOMAIN r = 1 .. Len(vec) /\ \A j \in 1 .. Len(vec) : r[j] = 0 <=> vec[j] \in Z
      BY <2>2
    <3>3. Z \subseteq ToSet(vec)
      OBVIOUS
    <3>4. HeapInv' /\ Queue!TakeOne(Z, call)
      <4> HIDE DEF r, Z
      <4> QED
        BY <3>1, <3>2, <3>3, RemoveMatchStep
    <3>5. Queue!Erase(k)
      BY <3>1, <3>4 DEF Queue!Erase
    <3> QED
      BY <2>1, <3>4, <3>5 DEF HeapStep, Queue!Next
  <2> QED
    BY <1>5, <2>3, <2>4
<1>6. CASE PQClear
  <2>1. vec' = << >> /\ capacity' = ShrinkAll(capacity, Len(vec)) /\ ret' = <<"clear">>
    BY <1>6 DEF PQClear
  <2>2. capacity' \in Nat /\ capacity' >= DEFAULT_CAPACITY /\ 0 <= capacity'
    BY <1>1, <2>1, ShrinkAllFits
  <2>3. vec' \in Seq(Items) /\ Len(vec') = 0 /\ ToSet(vec') = {}
    BY <2>1 DEF ToSet
  <2>4. Queue!Clear
    BY <2>1, <2>3 DEF Queue!Clear
  <2> QED
    BY <2>2, <2>3, <2>4 DEF HeapStep, HeapInv, BufferFits, ItemHeap!Distinct, ItemHeap!IsHeap, Queue!Next
<1> QED
  BY <1>3, <1>4, <1>5, <1>6 DEF HeapNext

\* The elements fit into the vector's buffer after every sequence of calls, for
\* every default capacity: VectorPopBack never shrinks it below its size.
THEOREM VectorNeverOverflows == HeapSpec => []BufferFits
<1>1. HeapInv /\ [HeapNext]_heapVars => HeapInv'
  <2>1. HeapInv /\ UNCHANGED heapVars => HeapInv'
    BY DEF HeapInv, heapVars, BufferFits
  <2> QED
    BY <2>1, HeapCalls DEF HeapStep
<1>2. HeapInv => BufferFits
  BY DEF HeapInv
<1> QED
  BY <1>1, <1>2, HeapInvInit, PTL DEF HeapSpec

\* The heap implements the priority queue, for any items and any sequence of
\* calls: HeapPush, HeapPeek, HeapPop, HeapRemove, PQErase and PQClear each do what the
\* abstract call does to the set of items, and return what it may return.
THEOREM HeapImplementsQueue == HeapSpec => ImplementsQueue
<1>1. HeapInit => Queue!Init
  <2>1. vec = << >> => ToSet(vec) = {}
    BY DEF ToSet
  <2> QED
    BY <2>1 DEF HeapInit, Queue!Init
<1>2. HeapInv /\ [HeapNext]_heapVars => HeapInv' /\ [Queue!Next]_(Queue!vars)
  <2>1. HeapInv /\ UNCHANGED heapVars => HeapInv' /\ UNCHANGED Queue!vars
    BY DEF HeapInv, heapVars, BufferFits, Queue!vars
  <2> QED
    BY <2>1, HeapCalls DEF HeapStep
<1> QED
  BY <1>1, <1>2, HeapInvInit, PTL DEF HeapSpec, ImplementsQueue, Queue!Spec

=============================================================================
