------------------------------- MODULE MTSort --------------------------------
(***************************************************************************)
(* Sorting with threads: MTCountingSort (mt_counting_sort.c), whose        *)
(* threads count a segment each and add to one table under a lock, and     *)
(* MTQuickSort (mt_q_sort.c), whose threads sort a chunk each and whose    *)
(* caller merges the chunks.  The words come from a dictionary file, cut   *)
(* in place at its line ends.                                              *)
(*                                                                         *)
(* A thread reads its own segment only, so its counting or qsort is one    *)
(* step.  A word is a number, strcmp the order of numbers.                 *)
(***************************************************************************)
EXTENDS Integers, Sequences, SequencesExt, FiniteSets, FiniteSetsExt

CONSTANTS
  MTValues,      \* the characters or words
  MTMaxLen,      \* bound on the array's length
  MTThreads,     \* values of num_of_threads
  MTFaults       \* bound on calls of pthread_create and malloc that fail

VARIABLES
  mtSort,       \* "counting", "quick" or "words"
  mtArr, mtGiven,
  mtN,          \* num_of_threads
  mtStarted,    \* threads created so far
  mtLocal,      \* per thread: what is left of its local_count to add; {} when it has ended
  mtEnded,      \* threads that have returned
  global_count,
  mtStep,       \* MergeSortedParts: the step and the i of its loops
  mtPhase,      \* "create", "join", "merge", "done", "failed"
  mtFaults,
  dictionary    \* ReadDictionary: the next call, the file, the buffer

sortingVars == <<mtSort, mtArr, mtGiven, mtN, mtStarted, mtLocal, mtEnded, global_count, mtStep, mtPhase, mtFaults>>
mtVars == <<sortingVars, dictionary>>

ASSUME MTAssumption == MTThreads \subseteq Nat \ {0} /\ MTValues \subseteq Nat /\ MTMaxLen \in Nat \ {0}

Occurs(s, v) == Cardinality({i \in DOMAIN s : s[i] = v})

\* Mutant: the last thread's segment is as long as the others.
MutSegment(i) == i * (Len(mtArr) \div mtN) + 1 .. (i + 1) * (Len(mtArr) \div mtN)

\* start_index and end_index of thread i, with 1 for the first element.
Segment(i) ==
  LET segment == Len(mtArr) \div mtN
  IN  i * segment + 1 .. (IF i = mtN - 1 THEN Len(mtArr) ELSE (i + 1) * segment)

-----------------------------------------------------------------------------
\* pthread_create of the next thread; after the last one the caller joins.
Create ==
  /\ mtPhase = "create"
  /\ mtStarted' = mtStarted + 1
  /\ mtPhase' = IF mtStarted + 1 = mtN THEN "join" ELSE "create"
  /\ UNCHANGED <<mtSort, mtArr, mtGiven, mtN, mtLocal, mtEnded, global_count, mtStep, mtFaults>>

\* It fails (or a malloc before it): -1 at once.  The threads that run go on with
\* freed memory, so nothing is said about what follows.
CreateFails ==
  /\ mtPhase = "create" /\ mtFaults < MTFaults
  /\ mtFaults' = mtFaults + 1 /\ mtPhase' = "failed"
  /\ UNCHANGED <<mtSort, mtArr, mtGiven, mtN, mtStarted, mtLocal, mtEnded, global_count, mtStep>>

\* CountSegment: the loop over the segment ...
CountSegment(i) ==
  /\ mtSort = "counting" /\ i < mtStarted /\ i \notin mtEnded /\ mtLocal[i] = << >>
  /\ mtLocal' = [mtLocal EXCEPT ![i] = SetToSeq({<<v, Cardinality({k \in Segment(i) : mtArr[k] = v})>> :
                                                  v \in {mtArr[k] : k \in Segment(i)}})]
  /\ mtEnded' = IF mtLocal'[i] = << >> THEN mtEnded \union {i} ELSE mtEnded
  /\ UNCHANGED <<mtSort, mtArr, mtGiven, mtN, mtStarted, global_count, mtStep, mtPhase, mtFaults>>

\* ... and, for each character it has met, one addition under the lock.
AddCount(i) ==
  /\ i \notin mtEnded /\ mtLocal[i] # << >>
  /\ LET entry == Head(mtLocal[i]) IN global_count' = [global_count EXCEPT ![entry[1]] = @ + entry[2]]
  /\ mtLocal' = [mtLocal EXCEPT ![i] = Tail(@)]
  /\ mtEnded' = IF Len(mtLocal[i]) = 1 THEN mtEnded \union {i} ELSE mtEnded
  /\ UNCHANGED <<mtSort, mtArr, mtGiven, mtN, mtStarted, mtStep, mtPhase, mtFaults>>

\* ThreadSort: qsort of the chunk, by StringCompare.
ThreadSort(i) ==
  /\ mtSort = "quick" /\ i < mtStarted /\ i \notin mtEnded
  /\ LET chunk == SortSeq(SubSeq(mtArr, Min(Segment(i) \union {Len(mtArr) + 1}), Max(Segment(i) \union {0})), LAMBDA x, y : x < y)
         start == Min(Segment(i) \union {Len(mtArr) + 1})
     IN  mtArr' = [k \in DOMAIN mtArr |-> IF k \in Segment(i) THEN chunk[k - start + 1] ELSE mtArr[k]]
  /\ mtEnded' = mtEnded \union {i}
  /\ UNCHANGED <<mtSort, mtGiven, mtN, mtStarted, mtLocal, global_count, mtStep, mtPhase, mtFaults>>

\* All threads have been joined: MTCountingSort writes the array from the table.
WriteBack ==
  /\ mtSort = "counting" /\ mtPhase = "join" /\ mtEnded = 0 .. mtN - 1
  /\ mtArr' = FoldLeft(LAMBDA out, v : out \o [j \in 1 .. global_count[v] |-> v], << >>,
                       SetToSortSeq(MTValues, LAMBDA x, y : x < y))
  /\ mtPhase' = "done"
  /\ UNCHANGED <<mtSort, mtGiven, mtN, mtStarted, mtLocal, mtEnded, global_count, mtStep, mtFaults>>

\* MTQuickSort goes on to MergeSortedParts, which one thread has no use for.
StartMerge ==
  /\ mtSort = "quick" /\ mtPhase = "join" /\ mtEnded = 0 .. mtN - 1
  /\ mtPhase' = IF mtN = 1 THEN "done" ELSE "merge"
  /\ mtStep' = [step |-> Len(mtArr) \div mtN, i |-> 0]
  /\ UNCHANGED <<mtSort, mtArr, mtGiven, mtN, mtStarted, mtLocal, mtEnded, global_count, mtFaults>>

\* Merge of the parts start+1 .. mid and mid+1 .. end: of equal heads the left one.
MergeParts(arr, start, mid, end) ==
  LET pick(s, k) == IF s.j > end THEN s.i <= mid
                    ELSE IF s.i > mid THEN FALSE ELSE arr[s.i] <= arr[s.j]
      r == FoldLeft(LAMBDA s, k : IF pick(s, k) THEN [s EXCEPT !.temp = Append(@, arr[s.i]), !.i = @ + 1]
                                  ELSE [s EXCEPT !.temp = Append(@, arr[s.j]), !.j = @ + 1],
                    [temp |-> << >>, i |-> start + 1, j |-> mid + 1], [k \in 1 .. end - start |-> k])
  IN  [k \in DOMAIN arr |-> IF k \in start + 1 .. end THEN r.temp[k - start] ELSE arr[k]]

\* Mutant: the last part, which may be shorter, is left out.
MutMergeBound(i, step) == i + 2 * step <= Len(mtArr)

\* i + step < length
MergeBound(i, step) == i + step < Len(mtArr)

\* One turn of MergeSortedParts' loops.  With fewer elements than threads the
\* step is 0 and the loops never end; a Merge whose malloc fails does nothing.
MergeSortedParts ==
  LET step == mtStep.step i == mtStep.i IN
  /\ mtPhase = "merge"
  /\ IF ~MergeBound(i, step)
     THEN /\ mtStep' = [step |-> 2 * step, i |-> 0]
          /\ mtPhase' = IF 2 * step < Len(mtArr) THEN "merge" ELSE "done"
          /\ UNCHANGED <<mtArr, mtFaults>>
     ELSE /\ LET end == Min({i + 2 * step, Len(mtArr)})
             IN  \/ mtArr' = MergeParts(mtArr, i, i + step, end) /\ UNCHANGED mtFaults
                 \/ mtFaults < MTFaults /\ mtFaults' = mtFaults + 1 /\ UNCHANGED mtArr
          /\ mtStep' = [mtStep EXCEPT !.i = @ + 2 * step]
          /\ UNCHANGED mtPhase
  /\ UNCHANGED <<mtSort, mtGiven, mtN, mtStarted, mtLocal, mtEnded, global_count>>

-----------------------------------------------------------------------------
(* The dictionary: a file read into a buffer.  0 is a line end.             *)

\* Mutant: a short read leaves the file open.
MutReadFails(step) ==
  [dictionary EXCEPT !.step = "NULL", !.file = IF step \in {"malloc", "ftell"} THEN "closed" ELSE @,
                     !.buffer = IF step = "fread" THEN "freed" ELSE @]

\* What ReadDictionary gives back when a call fails: the file is closed once it is
\* open, the buffer freed once it is there.
ReadFails(step) ==
  [dictionary EXCEPT !.step = "NULL", !.file = IF step = "fopen" THEN @ ELSE "closed",
                     !.buffer = IF step = "fread" THEN "freed" ELSE @]

ReadDictionary ==
  /\ mtSort = "words" /\ dictionary.step \in {"fopen", "ftell", "malloc", "fread"}
  /\ \/ dictionary' = ReadFails(dictionary.step)
     \/ dictionary' = CASE dictionary.step = "fopen"  -> [dictionary EXCEPT !.step = "ftell", !.file = "open"]
                        [] dictionary.step = "ftell"  -> [dictionary EXCEPT !.step = "malloc"]
                        [] dictionary.step = "malloc" -> [dictionary EXCEPT !.step = "fread", !.buffer = "held"]
                        [] OTHER                      -> [dictionary EXCEPT !.step = "read", !.file = "closed"]
  /\ UNCHANGED sortingVars

\* CreateArrayPointers: the beginnings of the words; the line ends become NUL.
CreateArrayPointers(buffer) ==
  FoldLeft(LAMBDA s, i : IF buffer[i] = 0 THEN [s EXCEPT !.in_word = FALSE]
                         ELSE IF s.in_word THEN s
                         ELSE [in_word |-> TRUE, ptrs |-> Append(s.ptrs, i)],
           [in_word |-> FALSE, ptrs |-> << >>], [i \in DOMAIN buffer |-> i]).ptrs

DuplicatePointers(original, copies) ==
  LET n == Len(original) IN [k \in 1 .. n * copies |-> original[((k - 1) % n) + 1]]

\* Shuffle: qsort with a random comparison gives some order of the same words.
Shuffle(words) == {[i \in DOMAIN words |-> words[p[i]]] : p \in Permutations(DOMAIN words)}

\* The program reads, cuts, copies and shuffles before it sorts; mtGiven is the
\* buffer here, mtArr becomes the array of pointers.
PrepareWords ==
  /\ mtSort = "words" /\ dictionary.step = "read" /\ mtPhase = "create"
  /\ mtArr' \in Shuffle(DuplicatePointers(CreateArrayPointers(mtGiven), mtN))
  /\ mtPhase' = "done"
  /\ UNCHANGED <<mtSort, mtGiven, mtN, mtStarted, mtLocal, mtEnded, global_count, mtStep, mtFaults, dictionary>>

-----------------------------------------------------------------------------
MTInit ==
  /\ mtSort \in {"counting", "quick", "words"}
  /\ mtN \in MTThreads
  /\ mtArr \in IF mtSort = "words" THEN BoundedSeq({0, 1}, MTMaxLen) ELSE BoundedSeq(MTValues, MTMaxLen) \ {<< >>}
  /\ mtSort = "words" => mtN = 2
  /\ mtGiven = mtArr
  /\ mtStarted = 0 /\ mtLocal = [i \in 0 .. mtN - 1 |-> << >>] /\ mtEnded = {}
  /\ global_count = [v \in MTValues |-> 0]
  /\ mtStep = [step |-> 0, i |-> 0] /\ mtPhase = "create" /\ mtFaults = 0
  /\ dictionary = [step |-> "fopen", file |-> "none", buffer |-> "none"]

Sorting ==
  /\ mtSort # "words" /\ mtPhase \notin {"done", "failed"}
  /\ \/ Create \/ CreateFails \/ WriteBack \/ StartMerge \/ MergeSortedParts
     \/ \E i \in 0 .. mtN - 1 : CountSegment(i) \/ AddCount(i) \/ ThreadSort(i)
  /\ UNCHANGED dictionary

MTNext == Sorting \/ ReadDictionary \/ PrepareWords

-----------------------------------------------------------------------------
RunBeginnings(s) == {i \in DOMAIN s : s[i] # 0 /\ (i = 1 \/ s[i - 1] = 0)}

\* However the threads are interleaved: when a sort returns 0 and no malloc has
\* failed, the array holds the values it was given, in order; no count is lost
\* while threads add to the table.  Nothing is said of an MTQuickSort of fewer
\* elements than threads, which its asserts allow and which does not return.
\* Reading the dictionary leaves no file open and no buffer without an owner, and
\* the pointers are the words, each as often as there are copies.
ThreadsSort ==
  /\ mtSort # "words" =>
       /\ mtPhase = "done" /\ mtFaults = 0 =>
            /\ \A i, j \in DOMAIN mtArr : i < j => mtArr[i] <= mtArr[j]
            /\ Len(mtArr) = Len(mtGiven) /\ \A v \in MTValues : Occurs(mtArr, v) = Occurs(mtGiven, v)
       /\ mtSort = "quick" => \A v \in MTValues : Occurs(mtArr, v) = Occurs(mtGiven, v)
  /\ mtSort = "words" =>
       /\ dictionary.step \in {"NULL", "read"} =>
            dictionary.file # "open" /\ (dictionary.step = "read") = (dictionary.buffer = "held")
       /\ mtPhase = "done" =>
            /\ ToSet(mtArr) = RunBeginnings(mtGiven)
            /\ \A i \in RunBeginnings(mtGiven) : Occurs(mtArr, i) = mtN

=============================================================================
