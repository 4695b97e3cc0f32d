------------------------------ MODULE Sorting -------------------------------
(***************************************************************************)
(* The sorts and searches of projects/sorting: cmp_sorting.c,              *)
(* linear_sorting.c and sorts.c.  An array is a sequence, so the index i   *)
(* of the code is i + 1 here; a loop is a fold over the values of its      *)
(* counter.                                                                *)
(***************************************************************************)
EXTENDS Integers, Sequences, SequencesExt, FiniteSetsExt

CONSTANTS
  SortValues,   \* elements of arrays, a set of natural numbers
  SortMaxLen,   \* length of the longest array
  SIZE_MAX      \* the largest size_t, above all indices

VARIABLES
  array,   \* the array
  given,   \* what it was before the call
  report   \* the call that was made and what it returned

sortVars == <<array, given, report>>

UpTo(a, b) == [k \in 1 .. (IF b < a THEN 0 ELSE b - a + 1) |-> a + k - 1]
Digits == {1, 10}    \* the values of exp for numbers below 100

-----------------------------------------------------------------------------
(* cmp_sorting.c.                                                           *)

SwapElements(a, i, j) == [a EXCEPT ![i] = a[j], ![j] = a[i]]

\* One pass, and whether it swapped anything.
BubblePass(a, last) ==
  FoldLeft(LAMBDA r, j : IF r.a[j] > r.a[j + 1]
                         THEN [a |-> SwapElements(r.a, j, j + 1), swapped |-> TRUE] ELSE r,
           [a |-> a, swapped |-> FALSE], UpTo(1, last))

BubbleSort(a) ==
  FoldLeft(LAMBDA r, i : IF r.swapped THEN BubblePass(r.a, Len(a) - i) ELSE r,
           [a |-> a, swapped |-> TRUE], UpTo(1, Len(a) - 1)).a

SelectionSort(a) ==
  LET least(b, i) == FoldLeft(LAMBDA m, j : IF b[j] < b[m] THEN j ELSE m, i, UpTo(i + 1, Len(a)))
  IN  FoldLeft(LAMBDA b, i : SwapElements(b, i, least(b, i)), a, UpTo(1, Len(a) - 1))

\* Elements behind the place of the key move up by one.
InsertionSort(a) ==
  LET place(b, i) == Max({j \in 1 .. i : j = 1 \/ b[j - 1] <= b[i]})
      insert(b, i) == LET p == place(b, i) IN
                      [k \in DOMAIN b |-> IF k = p THEN b[i] ELSE IF k \in p + 1 .. i THEN b[k - 1] ELSE b[k]]
  IN  FoldLeft(insert, a, UpTo(2, Len(a)))

-----------------------------------------------------------------------------
(* linear_sorting.c.                                                        *)

\* Mutant: from the front, elements with equal keys change places.
MutDistribute(a, keys) ==
  LET upTo == [k \in Range(keys) |-> Cardinality({i \in DOMAIN a : keys[i] <= k})]
      place(r, i) == [out |-> [r.out EXCEPT ![r.count[keys[i]]] = a[i]],
                      count |-> [r.count EXCEPT ![keys[i]] = @ - 1]]
  IN  FoldLeft(place, [out |-> a, count |-> upTo], UpTo(1, Len(a))).out

\* The counts, summed up, say where the last element of each key goes; the
\* elements are placed from the back.
Distribute(a, keys) ==
  LET upTo == [k \in Range(keys) |-> Cardinality({i \in DOMAIN a : keys[i] <= k})]
      place(r, i) == [out |-> [r.out EXCEPT ![r.count[keys[i]]] = a[i]],
                      count |-> [r.count EXCEPT ![keys[i]] = @ - 1]]
  IN  FoldLeft(place, [out |-> a, count |-> upTo], Reverse(UpTo(1, Len(a)))).out

\* Without memory the array stays as it is.
CountingSort(a, malloc) == IF malloc THEN Distribute(a, a) ELSE a

CountingSortDigit(a, exp) == Distribute(a, [i \in DOMAIN a |-> (a[i] \div exp) % 10])

\* The passes for which there is no memory are left out.
RadixSort(a, noMemory) ==
  LET max == Max(Range(a))
  IN  FoldLeft(LAMBDA b, exp : IF max \div exp > 0 /\ exp \notin noMemory THEN CountingSortDigit(b, exp) ELSE b,
               a, SetToSortSeq(Digits, <))

-----------------------------------------------------------------------------
(* sorts.c.                                                                 *)

\* The search with indices from 0 and size_t arithmetic; a read outside of the
\* array has no defined result.
NOT_FOUND == SIZE_MAX
STRAYED == SIZE_MAX + 1
RECURSIVE SearchFrom(_, _, _, _)
SearchFrom(a, low, high, target) ==
  LET mid == low + (high - low) \div 2 IN
  IF low > high THEN NOT_FOUND
  ELSE IF mid >= Len(a) THEN STRAYED
  ELSE IF target = a[mid + 1] THEN mid
  ELSE IF target < a[mid + 1] THEN SearchFrom(a, low, (mid + SIZE_MAX) % (SIZE_MAX + 1), target)
  ELSE SearchFrom(a, mid + 1, high, target)

IterBinarySearch(a, target) == SearchFrom(a, 0, (Len(a) + SIZE_MAX) % (SIZE_MAX + 1), target)

RecBinarySearch(a, target) == IF a = << >> THEN NOT_FOUND ELSE SearchFrom(a, 0, Len(a) - 1, target)

\* Of two equal elements the one of the right part comes first.
RECURSIVE MergeRuns(_, _)
MergeRuns(s, t) ==
  IF s = << >> THEN t ELSE IF t = << >> THEN s
  ELSE IF Head(s) < Head(t) THEN <<Head(s)>> \o MergeRuns(Tail(s), t)
  ELSE <<Head(t)>> \o MergeRuns(s, Tail(t))

Merge(a, left, mid, right) ==
  SubSeq(a, 1, left - 1) \o MergeRuns(SubSeq(a, left, mid), SubSeq(a, mid + 1, right))
                         \o SubSeq(a, right + 1, Len(a))

\* Runs of length step are merged in pairs, then step doubles.
RECURSIVE MergeSteps(_, _)
MergeSteps(a, step) ==
  LET n == Len(a)
      starts == SelectSeq(UpTo(0, n - 1), LAMBDA i : i % (2 * step) = 0 /\ i + step < n)
      join(b, i) == Merge(b, i + 1, i + step, Min({i + 2 * step, n}))
  IN  IF step >= n THEN a ELSE MergeSteps(FoldLeft(join, a, starts), 2 * step)

IMergeSort(a, malloc) == IF malloc THEN MergeSteps(a, 1) ELSE a

RECURSIVE RecMergeSortHelper(_, _, _)
RecMergeSortHelper(a, left, right) ==
  LET mid == left + (right - left) \div 2
      halves == RecMergeSortHelper(RecMergeSortHelper(a, left, mid), mid + 1, right)
  IN  IF left < right THEN Merge(halves, left, mid, right) ELSE a

\* An array of one element is an error, too.
RecMergeSort(a, malloc) ==
  IF Len(a) < 2 \/ ~malloc THEN [a |-> a, status |-> -1]
  ELSE [a |-> RecMergeSortHelper(a, 1, Len(a)), status |-> 0]

\* The elements less than the last one are moved to the front; the result is
\* the array and the place of the pivot.
Partition(a, left, right) ==
  LET step(r, i) == IF r.a[i] < r.a[right]
                    THEN [a |-> SwapElements(r.a, i, r.store), store |-> r.store + 1] ELSE r
      r == FoldLeft(step, [a |-> a, store |-> left], UpTo(left, right - 1))
  IN  [r EXCEPT !.a = SwapElements(@, r.store, right)]

RECURSIVE QuickSortRec(_, _, _)
QuickSortRec(a, left, right) ==
  IF left >= right THEN a
  ELSE LET p == Partition(a, left, right)
       IN  QuickSortRec(IF p.store > 1 THEN QuickSortRec(p.a, left, p.store - 1) ELSE p.a, p.store + 1, right)

\* Nothing is done for two elements.
QuickSort(a) == IF Len(a) <= 2 THEN a ELSE QuickSortRec(a, 1, Len(a))

-----------------------------------------------------------------------------
(* One call on an array that was not touched yet.                           *)

Fresh == report.call = "none"
Sorts(call, result, status) ==
  /\ Fresh
  /\ array' = result
  /\ report' = [call |-> call, status |-> status]
  /\ UNCHANGED given

SortInit ==
  /\ given \in BoundedSeq(SortValues, SortMaxLen) \ {<< >>}
  /\ array = given
  /\ report = [call |-> "none", status |-> 0]

SortNext ==
  \/ Sorts("BubbleSort", BubbleSort(array), 0)
  \/ Sorts("SelectionSort", SelectionSort(array), 0)
  \/ Sorts("InsertionSort", InsertionSort(array), 0)
  \/ \E malloc \in BOOLEAN :
       \/ Sorts("CountingSort", CountingSort(array, malloc), IF malloc THEN 0 ELSE -1)
       \/ Sorts("IMergeSort", IMergeSort(array, malloc), IF malloc THEN 0 ELSE -1)
       \/ LET r == RecMergeSort(array, malloc) IN Sorts("RecMergeSort", r.a, r.status)
  \/ \E noMemory \in SUBSET Digits :
       Sorts("RadixSort", RadixSort(array, noMemory), IF noMemory = {} THEN 0 ELSE -1)
  \/ Sorts("QuickSort", QuickSort(array), 0)

-----------------------------------------------------------------------------
InOrder(a) == \A i \in 1 .. Len(a) - 1 : a[i] <= a[i + 1]
SameElements(a, b) == \A x \in SortValues : Cardinality({i \in DOMAIN a : a[i] = x}) = Cardinality({i \in DOMAIN b : b[i] = x})

\* Every sort that had the memory it asks for leaves the elements it was given
\* in order, whatever their number and however often they repeat (two elements
\* are beyond QuickSort); no failure loses an element; and in what is sorted
\* both searches find each element and tell that a larger one is not there.
SortsAgree ==
  /\ SameElements(array, given)
  /\ ~Fresh /\ report.status = 0 /\ ~(report.call = "QuickSort" /\ Len(array) = 2) => InOrder(array)
  /\ InOrder(array) =>
       \A x \in {y \in SortValues : y >= array[1]} :
         LET found == RecBinarySearch(array, x)
         IN  /\ found = IterBinarySearch(array, x)
             /\ IF x \in Range(array) THEN array[found + 1] = x ELSE found = NOT_FOUND

=============================================================================
