------------------------------- MODULE HeapOps -------------------------------
(***************************************************************************)
(* The array algorithms of the binary heap (ds/src/heap.c), as operators   *)
(* on sequences.  Index i of the array is position i + 1 of the sequence.  *)
(***************************************************************************)
EXTENDS Integers, Sequences

CONSTANT Compare(_, _)   \* heap->compare: positive if the first one is above

PARENT(i) == i \div 2
LEFT(i)   == 2 * i
RIGHT(i)  == 2 * i + 1

SwapElem(h, i, j) == [h EXCEPT ![i] = h[j], ![j] = h[i]]
PopBack(h) == SubSeq(h, 1, Len(h) - 1)

\* One turn of HeapifyUp's loop: s.i is idx, s.h the vector.  It changes nothing
\* once the loop has ended.
UpTurn(s) ==
  IF s.i > 1 /\ Compare(s.h[s.i], s.h[PARENT(s.i)]) > 0
  THEN [h |-> SwapElem(s.h, s.i, PARENT(s.i)), i |-> PARENT(s.i)]
  ELSE s

\* Every turn halves idx, so it takes at most i of them.
HeapifyUp(h, i) ==
  LET turn[n \in Nat] == IF n = 0 THEN [h |-> h, i |-> i] ELSE UpTurn(turn[n - 1])
  IN  turn[i].h

\* The larger of the children of i, which has at least one.
LargerChild(h, i) ==
  IF RIGHT(i) <= Len(h) /\ Compare(h[RIGHT(i)], h[LEFT(i)]) > 0
  THEN RIGHT(i) ELSE LEFT(i)

\* One turn of HeapifyDown's loop.
DownTurn(s) ==
  IF LEFT(s.i) <= Len(s.h) /\ Compare(s.h[LargerChild(s.h, s.i)], s.h[s.i]) > 0
  THEN [h |-> SwapElem(s.h, s.i, LargerChild(s.h, s.i)), i |-> LargerChild(s.h, s.i)]
  ELSE s

\* Every turn goes one level down, so it takes less than Len(h) of them.
HeapifyDown(h, i) ==
  LET turn[n \in Nat] == IF n = 0 THEN [h |-> h, i |-> i] ELSE DownTurn(turn[n - 1])
  IN  turn[Len(h)].h

Push(h, x) == HeapifyUp(Append(h, x), Len(h) + 1)

\* HeapPop of a heap that is not empty.
Pop(h) == HeapifyDown(PopBack(SwapElem(h, 1, Len(h))), 1)

\* HeapRemove's test of what is_match returned.
Matches(result) == result = 0

\* Where HeapRemove finds its element, given what is_match returns for each
\* index: the first match, 0 if there is none.
RemoveIndex(results) ==
  LET hits == {i \in DOMAIN results : Matches(results[i])}
  IN  IF hits = {} THEN 0 ELSE CHOOSE i \in hits : \A j \in hits : i <= j

\* Mutant: what moved into the gap is only sifted down.
MutRemoved(h, i) ==
  IF i = Len(h) THEN PopBack(h) ELSE HeapifyDown(PopBack(SwapElem(h, i, Len(h))), i)

\* The heap without the element at i: the last one fills the gap and goes up
\* or down.
Removed(h, i) ==
  LET filled == PopBack(SwapElem(h, i, Len(h)))
  IN  IF i = Len(h) THEN PopBack(h)
      ELSE IF i > 1 /\ Compare(filled[i], filled[PARENT(i)]) > 0
           THEN HeapifyUp(filled, i)
           ELSE HeapifyDown(filled, i)

=============================================================================
