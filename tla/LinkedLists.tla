----------------------------- MODULE LinkedLists -----------------------------
(***************************************************************************)
(* The doubly linked list (ds/src/dll.c) and the sorted list on top of it  *)
(* (ds/src/sortedl.c).  Two lists live in one memory of nodes; head and    *)
(* tail of a list are nodes inside of its struct.  malloc fails when the   *)
(* memory is used up.                                                      *)
(*                                                                         *)
(* The singly linked list (ds/src/sll.c) and the queue on top of it        *)
(* (ds/src/queue.c).  The last node of a list is a dummy whose data points *)
(* back at the list, so that an insertion that moves the dummy can find    *)
(* the tail to set.                                                        *)
(***************************************************************************)
EXTENDS Integers, Sequences, SequencesExt, FiniteSetsExt

CONSTANTS
  DLLNodes,   \* addresses malloc can return, a set of numbers
  DLLData     \* what the user stores, a set of numbers

VARIABLES
  dllMem,   \* the links and the data of all nodes, and the addresses in use
  sortedUse, \* the lists are used through sortedl.h
  dllModel,  \* the sequence each list stands for
  dllTold    \* the last call returned what the sequences say

dllVars == <<dllMem, sortedUse, dllModel, dllTold>>

\* The two lists; 0 is NULL, negative addresses are of heads and tails.
DLLs == {1, 2}
OtherDLL(l) == 3 - l
HeadOf(l) == -l
TailOf(l) == -2 - l
DLLAddresses == DLLNodes \union {HeadOf(l) : l \in DLLs} \union {TailOf(l) : l \in DLLs}

-----------------------------------------------------------------------------
(* The functions of dll.c on a memory m.                                    *)

JoinNode(m, left, right) == [m EXCEPT !.next[left] = right, !.prev[right] = left]

\* DLLCreate for both lists: head and tail point at each other.
DLLCreate ==
  LET blank == [next |-> [n \in DLLAddresses |-> 0],
                prev |-> [n \in DLLAddresses |-> 0],
                data |-> [n \in DLLNodes |-> 0], used |-> {}]
  IN  JoinNode(JoinNode(blank, HeadOf(1), TailOf(1)), HeadOf(2), TailOf(2))

DLLBegin(m, l) == m.next[HeadOf(l)]
DLLEnd(l) == TailOf(l)
DLLIsEmpty(m, l) == DLLBegin(m, l) = DLLEnd(l)

\* The nodes a loop over [from, to) visits; a loop that goes astray ends
\* with the nodes.
RECURSIVE Walk(_, _, _, _)
Walk(m, from, to, fuel) ==
  IF from = to \/ from = 0 \/ fuel = 0 THEN << >>
  ELSE <<from>> \o Walk(m, m.next[from], to, fuel - 1)

NodesOf(m, from, to) == Walk(m, from, to, Cardinality(DLLAddresses))

\* CreateNode and InsertBetween: the memory with the new node and its address.
InsertBetween(m, left, right, x) ==
  LET n == Min(DLLNodes \ m.used)
  IN  JoinNode(JoinNode([m EXCEPT !.data[n] = x, !.used = @ \union {n}], left, n), n, right)

\* DLLInsert: the memory, and the iterator it returns.
DLLInsert(m, l, where, x) ==
  IF m.used = DLLNodes
  THEN [m |-> m, iter |-> DLLEnd(l)]
  ELSE [m |-> InsertBetween(m, m.prev[where], where, x), iter |-> Min(DLLNodes \ m.used)]

\* free: what is left in a node afterwards is never read.
Freed(m, n) == [m EXCEPT !.next[n] = 0, !.prev[n] = 0, !.data[n] = 0, !.used = @ \ {n}]

\* Mutant: the node behind the removed one keeps its prev.
MutRemoveNode(m, n) == Freed([m EXCEPT !.next[m.prev[n]] = m.next[n]], n)

RemoveNode(m, n) == Freed(JoinNode(m, m.prev[n], m.next[n]), n)

\* DLLFind: the first of [from, to) whose data is_match accepts, or to.
DLLFind(m, from, to, matches) ==
  LET r == NodesOf(m, from, to)
      hits == {i \in DOMAIN r : m.data[r[i]] \in matches}
  IN  IF hits = {} THEN to ELSE r[Min(hits)]

\* DLLForEach with an action that counts and stops after a given number.
DLLForEach(m, from, to, limit) ==
  LET n == Len(NodesOf(m, from, to)) IN IF n > limit THEN limit ELSE n

DLLCount(m, l) == DLLForEach(m, DLLBegin(m, l), DLLEnd(l), Cardinality(DLLAddresses))

\* DLLMultiFind: every match is pushed to the back of output until malloc
\* fails.
DLLMultiFind(m, from, to, matches, output) ==
  LET hits == SelectSeq(NodesOf(m, from, to), LAMBDA n : m.data[n] \in matches)
      room == Cardinality(DLLNodes \ m.used)
      copied == SubSeq(hits, 1, IF Len(hits) < room THEN Len(hits) ELSE room)
      push(acc, n) == DLLInsert(acc, output, DLLEnd(output), m.data[n]).m
  IN  [m |-> FoldLeft(push, m, copied),
       status |-> IF Len(hits) = Len(copied) THEN 0 ELSE IF copied = << >> THEN -1 ELSE -2]

DLLSplice(m, where, from, to) ==
  LET last == m.prev[to]
      cut == JoinNode(m, m.prev[from], to)
  IN  JoinNode(JoinNode(cut, cut.prev[where], from), last, where)

\* DLLDestroy: the nodes are removed from the front one by one.
RECURSIVE DLLDestroy(_, _)
DLLDestroy(m, l) ==
  IF DLLIsEmpty(m, l) THEN m ELSE DLLDestroy(RemoveNode(m, DLLBegin(m, l)), l)

-----------------------------------------------------------------------------
(* The functions of sortedl.c.                                              *)

\* GetSortedPosition: the first element that is not less than data.
GetSortedPosition(m, from, to, x) == DLLFind(m, from, to, {y \in DLLData : y >= x})

SortedLInsert(m, l, x) == DLLInsert(m, l, GetSortedPosition(m, DLLBegin(m, l), DLLEnd(l), x), x)

SortedLFind(m, from, to, x) ==
  LET at == GetSortedPosition(m, from, to, x)
  IN  IF at # to /\ m.data[at] = x THEN at ELSE to

\* SortedLMerge: d walks over dest, s over src, and each s is spliced in
\* before the first d that is not less.
RECURSIVE SortedLMerge(_, _, _, _)
SortedLMerge(m, dest, d, src) ==
  LET s == DLLBegin(m, src) IN
  IF s = DLLEnd(src) THEN m
  ELSE IF d # DLLEnd(dest) /\ m.data[d] < m.data[s]
       THEN SortedLMerge(m, dest, m.next[d], src)
       ELSE SortedLMerge(DLLSplice(m, d, s, m.next[s]), dest, d, src)

-----------------------------------------------------------------------------
(* The calls a program makes.                                               *)

\* The i-th node of a list, its tail if there are fewer.
DLLIter(l, i) == IF i > Len(dllModel[l]) THEN DLLEnd(l) ELSE NodesOf(dllMem, DLLBegin(dllMem, l), DLLEnd(l))[i]

NoRoom == dllMem.used = DLLNodes

\* DLLInsert, and DLLPushFront and DLLPushBack at the two ends.
DLLInsertCall(l, i, x) ==
  LET r == DLLInsert(dllMem, l, DLLIter(l, i), x) IN
  /\ ~sortedUse
  /\ dllMem' = r.m
  /\ dllModel' = IF NoRoom THEN dllModel ELSE [dllModel EXCEPT ![l] = InsertAt(@, i, x)]
  /\ dllTold' = (r.iter = IF NoRoom THEN DLLEnd(l) ELSE DLLIter(l, i)')
  /\ UNCHANGED sortedUse

\* DLLRemove returns the next node; DLLPopFront, DLLPopBack and SortedLRemove.
DLLRemoveCall(l, i) ==
  /\ ~sortedUse
  /\ dllMem' = RemoveNode(dllMem, DLLIter(l, i))
  /\ dllModel' = [dllModel EXCEPT ![l] = RemoveAt(@, i)]
  /\ dllTold' = (dllMem.next[DLLIter(l, i)] = DLLIter(l, i)')
  /\ UNCHANGED sortedUse

DLLSetDataCall(l, i, x) ==
  /\ ~sortedUse
  /\ dllMem' = [dllMem EXCEPT !.data[DLLIter(l, i)] = x]
  /\ dllModel' = [dllModel EXCEPT ![l] = ReplaceAt(@, i, x)]
  /\ dllTold' = TRUE /\ UNCHANGED sortedUse

DLLMultiFindCall(l, x) ==
  LET r == DLLMultiFind(dllMem, DLLBegin(dllMem, l), DLLEnd(l), {x}, OtherDLL(l))
      hits == SelectSeq(dllModel[l], LAMBDA y : y = x)
      room == Cardinality(DLLNodes \ dllMem.used)
  IN  /\ ~sortedUse
      /\ dllMem' = r.m
      /\ dllModel' = [dllModel EXCEPT ![OtherDLL(l)] = @ \o SubSeq(hits, 1, Min({room, Len(hits)}))]
      /\ dllTold' = (r.status = IF Len(hits) <= room THEN 0 ELSE IF room = 0 THEN -1 ELSE -2)
      /\ UNCHANGED sortedUse

\* DLLSplice of elements i to j of list l, before the k-th of list d.
DLLSpliceCall(l, i, j, d, k) ==
  /\ ~sortedUse /\ i <= j
  /\ d = l => k < i \/ k > j
  /\ dllMem' = DLLSplice(dllMem, DLLIter(d, k), DLLIter(l, i), DLLIter(l, j + 1))
  /\ LET part == SubSeq(dllModel[l], i, j)
         rest == SubSeq(dllModel[l], 1, i - 1) \o SubSeq(dllModel[l], j + 1, Len(dllModel[l]))
         into == IF d = l THEN rest ELSE dllModel[d]
         at   == IF d = l /\ k > j THEN k - Len(part) ELSE k
     IN  dllModel' = [dllModel EXCEPT ![l] = rest,
                                ![d] = SubSeq(into, 1, at - 1) \o part \o SubSeq(into, at, Len(into))]
  /\ dllTold' = TRUE /\ UNCHANGED sortedUse

DLLDestroyCall(l) ==
  /\ dllMem' = DLLDestroy(dllMem, l)
  /\ dllModel' = [dllModel EXCEPT ![l] = << >>]
  /\ dllTold' = TRUE /\ UNCHANGED sortedUse

SortedLInsertCall(l, x) ==
  LET r == SortedLInsert(dllMem, l, x)
      less == SelectSeq(dllModel[l], LAMBDA y : y < x)
  IN  /\ sortedUse
      /\ dllMem' = r.m
      /\ dllModel' = IF NoRoom THEN dllModel
                  ELSE [dllModel EXCEPT ![l] = less \o <<x>> \o SelectSeq(@, LAMBDA y : y >= x)]
      /\ dllTold' = (r.iter = IF NoRoom THEN DLLEnd(l) ELSE DLLIter(l, Len(less) + 1)')
      /\ UNCHANGED sortedUse

\* The iterator that is returned is taken before the node goes.
SortedLRemoveCall(l, i) ==
  LET after == dllMem.next[DLLIter(l, i)] IN
  /\ sortedUse
  /\ dllMem' = RemoveNode(dllMem, DLLIter(l, i))
  /\ dllModel' = [dllModel EXCEPT ![l] = RemoveAt(@, i)]
  /\ dllTold' = (after = DLLIter(l, i)')
  /\ UNCHANGED sortedUse

\* SortedLPopFront and SortedLPopBack return the data.
SortedLPopCall(l, node) ==
  /\ sortedUse /\ ~DLLIsEmpty(dllMem, l)
  /\ dllMem' = RemoveNode(dllMem, node)
  /\ LET front == node = DLLBegin(dllMem, l) IN
     /\ dllModel' = [dllModel EXCEPT ![l] = IF front THEN Tail(@) ELSE Front(@)]
     /\ dllTold' = (dllMem.data[node] = IF front THEN Head(dllModel[l]) ELSE Last(dllModel[l]))
  /\ UNCHANGED sortedUse

SortedLMergeCall(dest) ==
  LET src == OtherDLL(dest) IN
  /\ sortedUse
  /\ dllMem' = SortedLMerge(dllMem, dest, DLLBegin(dllMem, dest), src)
  /\ dllModel' = [dllModel EXCEPT ![dest] = SortSeq(dllModel[dest] \o dllModel[src], <), ![src] = << >>]
  /\ dllTold' = TRUE /\ UNCHANGED sortedUse

DLLInit ==
  /\ dllMem = DLLCreate
  /\ sortedUse \in BOOLEAN
  /\ dllModel = [l \in DLLs |-> << >>]
  /\ dllTold = TRUE

DLLNext ==
  \E l \in DLLs :
    \/ \E x \in DLLData : SortedLInsertCall(l, x) \/ DLLMultiFindCall(l, x)
    \/ SortedLMergeCall(l) \/ DLLDestroyCall(l)
    \/ SortedLPopCall(l, DLLBegin(dllMem, l)) \/ SortedLPopCall(l, dllMem.prev[DLLEnd(l)])
    \/ \E i \in 1 .. Len(dllModel[l]) + 1, x \in DLLData : DLLInsertCall(l, i, x)
    \/ \E i \in 1 .. Len(dllModel[l]) :
         \/ DLLRemoveCall(l, i) \/ SortedLRemoveCall(l, i)
         \/ \E x \in DLLData : DLLSetDataCall(l, i, x)
         \/ \E j \in 1 .. Len(dllModel[l]), d \in DLLs : \E k \in 1 .. Len(dllModel[d]) + 1 :
              DLLSpliceCall(l, i, j, d, k)

-----------------------------------------------------------------------------
\* Whatever the calls, each list is the sequence it stands for, forwards and
\* backwards, no node is lost or in two lists, searching and counting give the
\* answers of the sequence, and a sorted list is sorted.
ListsAgree ==
  /\ dllTold
  /\ \A l \in DLLs :
       LET r == NodesOf(dllMem, DLLBegin(dllMem, l), DLLEnd(l)) IN
       /\ [i \in DOMAIN r |-> dllMem.data[r[i]]] = dllModel[l]
       /\ \A i \in DOMAIN r : dllMem.prev[DLLIter(l, i + 1)] = r[i]
       /\ dllMem.prev[DLLBegin(dllMem, l)] = HeadOf(l)
       /\ DLLCount(dllMem, l) = Len(dllModel[l])
       /\ sortedUse => \A i, j \in DOMAIN r : i < j => dllModel[l][i] <= dllModel[l][j]
       /\ sortedUse => \A x \in DLLData :
            (SortedLFind(dllMem, DLLBegin(dllMem, l), DLLEnd(l), x) # DLLEnd(l)) = (x \in ToSet(dllModel[l]))
  /\ Cardinality(dllMem.used) = Len(dllModel[1]) + Len(dllModel[2])

-----------------------------------------------------------------------------

CONSTANTS
  SLLNodes,   \* addresses malloc can return, a set of positive numbers
  SLLData     \* what the user stores, a set of positive numbers

VARIABLES
  sll,       \* links and data of the nodes, head and tail of the lists
  sllModel,  \* the sequence each list stands for
  sllTold,   \* the last call returned what the sequences say
  stale      \* lists that must not be used any more

sllVars == <<sll, sllModel, sllTold, stale>>

SLLs == {1, 2}
OtherSLL(l) == 3 - l
SLLRef(l) == -l      \* the pointer to list l in its dummy; 0 is NULL

-----------------------------------------------------------------------------
(* The functions of sll.c on a memory m.                                    *)

\* SLLCreate of both lists: nodes 1 and 2 are the dummies.
SLLCreate ==
  [next |-> [n \in SLLNodes |-> 0],
   data |-> [n \in SLLNodes |-> IF n \in SLLs THEN SLLRef(n) ELSE 0],
   head |-> [l \in SLLs |-> l], tail |-> [l \in SLLs |-> l], used |-> SLLs]

\* The nodes of a loop over [from, to).
RECURSIVE SLLRange(_, _, _, _)
SLLRange(m, from, to, fuel) ==
  IF from = to \/ from = 0 \/ fuel = 0 THEN << >>
  ELSE <<from>> \o SLLRange(m, m.next[from], to, fuel - 1)

SLLItems(m, l) == SLLRange(m, m.head[l], m.tail[l], Cardinality(SLLNodes))

SLLIsEmpty(m, l) == m.head[l] = m.tail[l]

\* Mutant: the tail is not moved with the dummy.
MutSetTailOf(m, n) == m

\* The dummy has a new address: the list it points back at learns of it.
SetTailOf(m, n) ==
  IF m.next[n] = 0 THEN [m EXCEPT !.tail[-m.data[n]] = n] ELSE m

\* SLLInsert: a new node behind where takes over its contents, where gets the
\* data.  Without memory the list stays as it is and its last node is returned.
SLLInsert(m, where, x) ==
  IF m.used = SLLNodes
  THEN [m |-> m, iter |-> Last(SLLRange(m, where, 0, Cardinality(SLLNodes)))]
  ELSE LET n == Min(SLLNodes \ m.used) IN
       [m |-> SetTailOf([m EXCEPT !.data[n] = m.data[where], !.next[n] = m.next[where],
                                  !.next[where] = n, !.data[where] = x,
                                  !.used = @ \union {n}], n),
        iter |-> where]

\* SLLRemove: the node takes over the contents of the next one, which is freed.
SLLRemove(m, n) ==
  LET t == m.next[n] IN
  SetTailOf([m EXCEPT !.data[n] = m.data[t], !.next[n] = m.next[t],
                      !.data[t] = 0, !.next[t] = 0, !.used = @ \ {t}], n)

SLLFind(m, from, to, matches) ==
  LET r == SLLRange(m, from, to, Cardinality(SLLNodes))
      hits == {i \in DOMAIN r : m.data[r[i]] \in matches}
  IN  IF hits = {} THEN to ELSE r[Min(hits)]

\* SLLForEach with CountAction.
SLLCount(m, l) == Len(SLLItems(m, l))

\* SLLAppend: the end of dst is linked to the nodes of src and becomes the
\* first of them; src keeps the dummy only.  If one of the lists is empty nothing
\* is moved and the other one returned: src, when dst is empty.
SLLAppend(m, src, dst) ==
  IF SLLIsEmpty(m, src) THEN [m |-> m, list |-> dst]
  ELSE IF SLLIsEmpty(m, dst) THEN [m |-> m, list |-> src]
  ELSE LET linked == SLLRemove([m EXCEPT !.next[m.tail[dst]] = m.head[src]], m.tail[dst])
       IN  [m |-> [linked EXCEPT !.tail[dst] = linked.tail[src], !.head[src] = linked.tail[src]],
            list |-> dst]

-----------------------------------------------------------------------------
(* queue.c.                                                                 *)

\* The status compares what SLLInsert returns with the tail of before.  The code
\* calls 1 FAIL, but SLLInsert returns where it inserts, so 1 is also the status of
\* an item that went in.
QueueEnqueue(m, l, x) ==
  LET r == SLLInsert(m, m.tail[l], x)
  IN  [m |-> r.m, status |-> IF r.iter = m.tail[l] THEN 1 ELSE 0]

QueueDequeue(m, l) == SLLRemove(m, m.head[l])

\* 0 is NULL.
QueuePeek(m, l) == IF SLLIsEmpty(m, l) THEN 0 ELSE m.data[m.head[l]]

-----------------------------------------------------------------------------
(* The calls a program makes, on lists that are still whole.                *)

\* The dummy at the list's end points back at it.
OwnsDummy(l) == sll.data[sll.tail[l]] = SLLRef(l)
SLLFull == sll.used = SLLNodes

\* A list that has taken the dummy of the other one is not told of its moves:
\* after a change at its end neither of the two can be used.
Spoils(l, atEnd) ==
  stale' = IF atEnd /\ ~OwnsDummy(l) THEN SLLs ELSE stale

SLLInsertCall(l, i, x) ==
  LET n == IF i > Len(sllModel[l]) THEN sll.tail[l] ELSE SLLItems(sll, l)[i]
      r == SLLInsert(sll, n, x)
  IN  /\ l \notin stale
      /\ sll' = r.m
      /\ sllModel' = IF SLLFull THEN sllModel ELSE [sllModel EXCEPT ![l] = InsertAt(@, i, x)]
      /\ sllTold' = (~OwnsDummy(l) \/ r.iter = IF SLLFull THEN sll.tail[l] ELSE n)
      /\ Spoils(l, ~SLLFull /\ n = sll.tail[l])

SLLRemoveCall(l, i) ==
  /\ l \notin stale
  /\ sll' = SLLRemove(sll, SLLItems(sll, l)[i])
  /\ sllModel' = [sllModel EXCEPT ![l] = RemoveAt(@, i)]
  /\ sllTold' = TRUE
  /\ Spoils(l, i = Len(sllModel[l]))

SLLSetData(l, i, x) ==
  /\ l \notin stale
  /\ sll' = [sll EXCEPT !.data[SLLItems(sll, l)[i]] = x]
  /\ sllModel' = [sllModel EXCEPT ![l] = ReplaceAt(@, i, x)]
  /\ sllTold' = TRUE /\ UNCHANGED stale

\* Enqueue through queue.h; the status tells nothing (see above).
QueueEnqueueCall(l, x) ==
  LET r == QueueEnqueue(sll, l, x) IN
  /\ l \notin stale
  /\ sll' = r.m
  /\ sllModel' = IF SLLFull THEN sllModel ELSE [sllModel EXCEPT ![l] = Append(@, x)]
  /\ sllTold' = TRUE
  /\ Spoils(l, ~SLLFull)

QueueDequeueCall(l) ==
  /\ l \notin stale /\ sllModel[l] # << >>
  /\ sll' = QueueDequeue(sll, l)
  /\ sllModel' = [sllModel EXCEPT ![l] = Tail(@)]
  /\ sllTold' = (QueuePeek(sll, l) = Head(sllModel[l]))
  /\ Spoils(l, Len(sllModel[l]) = 1)

SLLAppendCall(src) ==
  LET dst == OtherSLL(src)
      r == SLLAppend(sll, src, dst)
  IN  /\ stale = {} /\ OwnsDummy(src) /\ OwnsDummy(dst)
      /\ sll' = r.m
      /\ sllModel' = [sllModel EXCEPT ![r.list] = sllModel[dst] \o sllModel[src], ![OtherSLL(r.list)] = << >>]
      /\ sllTold' = (sllModel[src] # << >> /\ sllModel[dst] # << >> => r.list = dst)
      /\ UNCHANGED stale

SLLInit ==
  /\ sll = SLLCreate
  /\ sllModel = [l \in SLLs |-> << >>]
  /\ sllTold = TRUE /\ stale = {}

SLLNext ==
  \E l \in SLLs :
    \/ QueueDequeueCall(l) \/ SLLAppendCall(l)
    \/ \E x \in SLLData :
         \/ QueueEnqueueCall(l, x)
         \/ \E i \in 1 .. Len(sllModel[l]) + 1 : SLLInsertCall(l, i, x)
         \/ \E i \in 1 .. Len(sllModel[l]) : SLLSetData(l, i, x)
    \/ \E i \in 1 .. Len(sllModel[l]) : SLLRemoveCall(l, i)

-----------------------------------------------------------------------------
\* Whatever the calls, a list is the sequence it stands for, its dummy is its
\* last node, no node is lost and searching finds the first match, as long as
\* a list that was appended to is not changed at its end or appended to again;
\* the list SLLAppend returns has the items of dst and then those of src (it is src
\* itself, and dst stays empty, when dst is).
QueuesAgree ==
  /\ sllTold
  /\ \A l \in SLLs \ stale :
       LET r == SLLItems(sll, l) IN
       /\ [i \in DOMAIN r |-> sll.data[r[i]]] = sllModel[l]
       /\ sll.tail[l] \in sll.used /\ SLLCount(sll, l) = Len(sllModel[l])
       /\ SLLIsEmpty(sll, l) <=> sllModel[l] = << >>
       /\ ToSet(r) \subseteq sll.used
       /\ \A x \in SLLData :
            (SLLFind(sll, sll.head[l], sll.tail[l], {x}) # sll.tail[l]) = (x \in ToSet(sllModel[l]))

==============================================================================
