---------------------------- MODULE HeapOpsProofs ----------------------------
(***************************************************************************)
(* The binary heap, for any number of elements and any total order.  The   *)
(* provers have no induction: it is taken from the fact that a set of      *)
(* numbers has a least element, which the library proves.                  *)
(***************************************************************************)
EXTENDS HeapOps, SequencesExt, WellFoundedInduction, TLAPS

-----------------------------------------------------------------------------
(* Induction, and loops as functions of the number of turns.                *)

\* A set of natural numbers that is not empty has a least element.
LEMMA LeastNumber ==
  ASSUME NEW T, T \subseteq Nat, T # {}
  PROVE  \E n \in T : \A m \in T : n <= m
<1>1. PICK n \in T : \A m \in T : <<m, n>> \notin OpToRel(<, Nat)
  BY NatLessThanWellFounded, WFMin
<1>2. \A m \in T : ~(m < n)
  BY <1>1 DEF OpToRel
<1> QED
  BY <1>2

\* Induction: a set of numbers with 0 and every successor has all of them.
LEMMA AllNumbers ==
  ASSUME NEW T, 0 \in T, \A n \in Nat : n \in T => n + 1 \in T
  PROVE  \A n \in Nat : n \in T
<1> DEFINE Out == {n \in Nat : n \notin T}
<1> SUFFICES ASSUME Out # {} PROVE FALSE
  OBVIOUS
<1>1. Out \subseteq Nat
  OBVIOUS
<1>2. PICK n \in Out : \A m \in Out : n <= m
  <2> HIDE DEF Out
  <2> QED
    BY <1>1, LeastNumber
<1>3. n - 1 \in Nat /\ n - 1 \in T /\ (n - 1) + 1 = n
  BY <1>2
<1> QED
  BY <1>2, <1>3

\* f[n] is what n steps make of s.
Iterates(f, S, s, step) ==
  f \in [Nat -> S] /\ f[0] = s /\ \A n \in Nat : f[n + 1] = step[f[n]]

\* A step that stays in S can be repeated any number of times.
LEMMA Iteration ==
  ASSUME NEW S, NEW s \in S, NEW step \in [S -> S]
  PROVE  \E f : Iterates(f, S, s, step)
<1> DEFINE Up(n, g) == g \in [0 .. n -> S] /\ g[0] = s /\ \A k \in 0 .. n - 1 : g[k + 1] = step[g[k]]
           Has == {n \in Nat : \E g : Up(n, g)}
<1>1. \A n \in Nat : n \in Has
  <2>1. 0 \in Has
    <3>1. Up(0, [k \in 0 .. 0 |-> s])
      OBVIOUS
    <3> QED
      BY <3>1
  <2>2. ASSUME NEW n \in Nat, n \in Has PROVE n + 1 \in Has
    <3>1. PICK g : Up(n, g)
      BY <2>2
    <3> DEFINE h == [k \in 0 .. n + 1 |-> IF k = n + 1 THEN step[g[n]] ELSE g[k]]
    <3>2. h \in [0 .. n + 1 -> S]
      BY <3>1
    <3>3. h[0] = s
      BY <3>1
    <3>4. ASSUME NEW k \in 0 .. (n + 1) - 1 PROVE h[k + 1] = step[h[k]]
      <4>1. CASE k = n
        BY <4>1
      <4>2. CASE k # n
        BY <3>1, <4>2
      <4> QED
        BY <4>1, <4>2
    <3>5. Up(n + 1, h)
      BY <3>2, <3>3, <3>4
    <3> HIDE DEF h, Up
    <3> QED
      BY <3>5
  <2> HIDE DEF Has
  <2> QED
    BY <2>1, <2>2, AllNumbers
<1> DEFINE G(n) == CHOOSE g : Up(n, g)
<1>2. \A n \in Nat : Up(n, G(n))
  BY <1>1
<1> HIDE DEF G
<1>3. ASSUME NEW n \in Nat PROVE \A k \in 0 .. n : G(n)[k] = G(n + 1)[k]
  <2> DEFINE Same == {k \in Nat : k <= n => G(n)[k] = G(n + 1)[k]}
  <2>1. Up(n, G(n)) /\ Up(n + 1, G(n + 1))
    BY <1>2
  <2>2. 0 \in Same
    BY <2>1
  <2>3. ASSUME NEW k \in Nat, k \in Same PROVE k + 1 \in Same
    <3> SUFFICES ASSUME k + 1 <= n PROVE G(n)[k + 1] = G(n + 1)[k + 1]
      OBVIOUS
    <3>1. k \in 0 .. n - 1 /\ k \in 0 .. (n + 1) - 1 /\ G(n)[k] = G(n + 1)[k]
      BY <2>3
    <3> QED
      BY <2>1, <3>1
  <2>4. \A k \in Nat : k \in Same
    <3> HIDE DEF Same
    <3> QED
      BY <2>2, <2>3, AllNumbers
  <2> QED
    BY <2>4
<1> DEFINE f == [n \in Nat |-> G(n)[n]]
<1>4. f \in [Nat -> S]
  BY <1>2
<1>5. f[0] = s
  BY <1>2
<1>6. ASSUME NEW n \in Nat PROVE f[n + 1] = step[f[n]]
  <2>1. G(n + 1)[n + 1] = step[G(n + 1)[n]]
    BY <1>2
  <2>2. G(n + 1)[n] = G(n)[n]
    BY <1>3
  <2> QED
    BY <2>1, <2>2
<1> QED
  BY <1>4, <1>5, <1>6 DEF Iterates

\* f gives the state after every number of turns.
UpRun(f, S, h, i) ==
  /\ f \in [Nat -> S] /\ f[0] = [h |-> h, i |-> i]
  /\ \A n \in Nat : f[n + 1] = UpTurn(f[n])
  /\ HeapifyUp(h, i) = f[i].h

\* HeapifyUp is the loop of UpTurn, and stays in every set that a turn does not leave.
LEMMA UpLoop ==
  ASSUME NEW S, NEW h, NEW i, [h |-> h, i |-> i] \in S, \A x \in S : UpTurn(x) \in S
  PROVE  \E f : UpRun(f, S, h, i)
<1> DEFINE s == [h |-> h, i |-> i]
           step == [x \in S |-> UpTurn(x)]
           turn == CHOOSE t : t = [n \in Nat |-> IF n = 0 THEN s ELSE UpTurn(t[n - 1])]
<1>1. HeapifyUp(h, i) = turn[i].h
  BY DEF HeapifyUp
<1>2. step \in [S -> S] /\ s \in S
  OBVIOUS
<1>run. PICK f : Iterates(f, S, s, step)
  <2> HIDE DEF s, step
  <2> QED
    BY <1>2, Iteration
<1>3. f \in [Nat -> S] /\ f[0] = s /\ \A n \in Nat : f[n + 1] = step[f[n]]
  BY <1>run DEF Iterates
<1>4. \A n \in Nat : f[n + 1] = UpTurn(f[n])
  BY <1>3
<1> HIDE DEF s, step
<1>5. f = [n \in Nat |-> IF n = 0 THEN s ELSE UpTurn(f[n - 1])]
  <2>1. \A n \in Nat : f[n] = IF n = 0 THEN s ELSE UpTurn(f[n - 1])
    BY <1>3, <1>4
  <2> QED
    BY <1>3, <2>1
<1>6. turn = [n \in Nat |-> IF n = 0 THEN s ELSE UpTurn(turn[n - 1])]
  BY <1>5
<1> HIDE DEF turn
<1>7. \A n \in Nat : turn[n] = f[n]
  <2> DEFINE Same == {n \in Nat : turn[n] = f[n]}
  <2>1. 0 \in Same
    BY <1>3, <1>6
  <2>2. ASSUME NEW n \in Nat, n \in Same PROVE n + 1 \in Same
    BY <1>4, <1>6, <2>2
  <2>3. \A n \in Nat : n \in Same
    <3> HIDE DEF Same
    <3> QED
      BY <2>1, <2>2, AllNumbers
  <2> QED
    BY <2>3
<1>8. HeapifyUp(h, i) = f[i].h
  BY <1>1, <1>5, <1>6, <1>7
<1> QED
  BY <1>3, <1>4, <1>8 DEF s, UpRun

\* f gives the state after every number of turns.
DownRun(f, S, h, i) ==
  /\ f \in [Nat -> S] /\ f[0] = [h |-> h, i |-> i]
  /\ \A n \in Nat : f[n + 1] = DownTurn(f[n])
  /\ HeapifyDown(h, i) = f[Len(h)].h

\* The same for HeapifyDown.
LEMMA DownLoop ==
  ASSUME NEW S, NEW h, NEW i, [h |-> h, i |-> i] \in S, \A x \in S : DownTurn(x) \in S
  PROVE  \E f : DownRun(f, S, h, i)
<1> DEFINE s == [h |-> h, i |-> i]
           step == [x \in S |-> DownTurn(x)]
           turn == CHOOSE t : t = [n \in Nat |-> IF n = 0 THEN s ELSE DownTurn(t[n - 1])]
<1>1. HeapifyDown(h, i) = turn[Len(h)].h
  BY DEF HeapifyDown
<1>2. step \in [S -> S] /\ s \in S
  OBVIOUS
<1>run. PICK f : Iterates(f, S, s, step)
  <2> HIDE DEF s, step
  <2> QED
    BY <1>2, Iteration
<1>3. f \in [Nat -> S] /\ f[0] = s /\ \A n \in Nat : f[n + 1] = step[f[n]]
  BY <1>run DEF Iterates
<1>4. \A n \in Nat : f[n + 1] = DownTurn(f[n])
  BY <1>3
<1> HIDE DEF s, step
<1>5. f = [n \in Nat |-> IF n = 0 THEN s ELSE DownTurn(f[n - 1])]
  <2>1. \A n \in Nat : f[n] = IF n = 0 THEN s ELSE DownTurn(f[n - 1])
    BY <1>3, <1>4
  <2> QED
    BY <1>3, <2>1
<1>6. turn = [n \in Nat |-> IF n = 0 THEN s ELSE DownTurn(turn[n - 1])]
  BY <1>5
<1> HIDE DEF turn
<1>7. \A n \in Nat : turn[n] = f[n]
  <2> DEFINE Same == {n \in Nat : turn[n] = f[n]}
  <2>1. 0 \in Same
    BY <1>3, <1>6
  <2>2. ASSUME NEW n \in Nat, n \in Same PROVE n + 1 \in Same
    BY <1>4, <1>6, <2>2
  <2>3. \A n \in Nat : n \in Same
    <3> HIDE DEF Same
    <3> QED
      BY <2>1, <2>2, AllNumbers
  <2> QED
    BY <2>3
<1>8. HeapifyDown(h, i) = f[Len(h)].h
  BY <1>1, <1>5, <1>6, <1>7
<1> QED
  BY <1>3, <1>4, <1>8 DEF s, DownRun

-----------------------------------------------------------------------------
(* Elements of T, which Compare puts into a total order.                    *)

Ordered(T) ==
  /\ \A x, y \in T : Compare(x, y) \in Int /\ (Compare(x, y) > 0 => Compare(y, x) <= 0)
  /\ \A x, y, z \in T : Compare(x, y) <= 0 /\ Compare(y, z) <= 0 => Compare(x, z) <= 0

\* No element is there twice.
Distinct(h) == \A i, j \in 1 .. Len(h) : h[i] = h[j] => i = j

\* No element is above its parent.
IsHeap(h) == \A j \in 2 .. Len(h) : Compare(h[j], h[PARENT(j)]) <= 0

\* g has the elements of h, each of them once.
Rearranges(g, h, T) ==
  /\ g \in Seq(T) /\ Len(g) = Len(h) /\ Distinct(g)
  /\ ToSet(g) = ToSet(h)

\* Indices of the tree.
LEMMA Indices ==
  /\ \A j \in Nat : j >= 2 => PARENT(j) \in 1 .. j - 1 /\ (j = 2 * PARENT(j) \/ j = 2 * PARENT(j) + 1)
  /\ \A i \in Nat : i >= 1 => /\ LEFT(i) \in Nat /\ RIGHT(i) \in Nat /\ LEFT(i) > i /\ RIGHT(i) = LEFT(i) + 1
                              /\ PARENT(LEFT(i)) = i /\ PARENT(RIGHT(i)) = i
  /\ \A j \in Nat, i \in Nat : j >= 2 /\ PARENT(j) = i => j = LEFT(i) \/ j = RIGHT(i)
BY DEF PARENT, LEFT, RIGHT

\* Exchanging two elements rearranges them.
LEMMA SwapRearranges ==
  ASSUME NEW T, NEW h \in Seq(T), Distinct(h), NEW i \in 1 .. Len(h), NEW j \in 1 .. Len(h)
  PROVE  /\ Rearranges(SwapElem(h, i, j), h, T)
         /\ SwapElem(h, i, j)[j] = h[i] /\ SwapElem(h, i, j)[i] = h[j]
         /\ \A k \in 1 .. Len(h) : k # i /\ k # j => SwapElem(h, i, j)[k] = h[k]
<1> DEFINE g == SwapElem(h, i, j)
<1>1. g \in Seq(T) /\ Len(g) = Len(h)
  BY DEF SwapElem
<1>2. g[j] = h[i] /\ g[i] = h[j] /\ \A k \in 1 .. Len(h) : k # i /\ k # j => g[k] = h[k]
  BY DEF SwapElem
<1> HIDE DEF g
<1>3. Distinct(g)
  BY <1>1, <1>2 DEF Distinct
<1>4. \A x : (\E k \in 1 .. Len(h) : h[k] = x) <=> (\E k \in 1 .. Len(h) : g[k] = x)
  BY <1>2
<1>5. ToSet(g) = ToSet(h)
  <2>1. \A x : x \in ToSet(g) <=> \E k \in 1 .. Len(h) : g[k] = x
    BY <1>1 DEF ToSet
  <2>2. \A x : x \in ToSet(h) <=> \E k \in 1 .. Len(h) : h[k] = x
    BY DEF ToSet
  <2>3. \A x : x \in ToSet(g) <=> x \in ToSet(h)
    BY <1>4, <2>1, <2>2
  <2> QED
    BY <2>3
<1> QED
  BY <1>1, <1>2, <1>3, <1>5 DEF Rearranges, g

-----------------------------------------------------------------------------
(* HeapifyUp.                                                               *)

\* Only the element at i may be above its parent; its children are not above
\* its parent either.
HeapBut(h, i) ==
  /\ \A j \in 2 .. Len(h) : j # i => Compare(h[j], h[PARENT(j)]) <= 0
  /\ i > 1 => \A j \in 2 .. Len(h) : PARENT(j) = i => Compare(h[j], h[PARENT(i)]) <= 0

UpStates(h, T) ==
  {s \in [h : Seq(T), i : Nat] : s.i \in 1 .. Len(s.h) /\ Rearranges(s.h, h, T) /\ HeapBut(s.h, s.i)}

UpStops(s) == ~(s.i > 1 /\ Compare(s.h[s.i], s.h[PARENT(s.i)]) > 0)

\* A turn of HeapifyUp moves the disorder one level up.
LEMMA UpTurnKeeps ==
  ASSUME NEW T, Ordered(T), NEW h0, NEW s \in UpStates(h0, T)
  PROVE  UpTurn(s) \in UpStates(h0, T)
<1> DEFINE h == s.h
           i == s.i
           p == PARENT(i)
           g == SwapElem(h, i, p)
           n == Len(h)
<1>1. s = [h |-> h, i |-> i] /\ h \in Seq(T) /\ i \in 1 .. n /\ Rearranges(h, h0, T) /\ HeapBut(h, i)
  BY DEF UpStates
<1>2. CASE UpStops(s)
  BY <1>2 DEF UpTurn, UpStops
<1>3. CASE ~UpStops(s)
  <2>1. i > 1 /\ Compare(h[i], h[p]) > 0 /\ UpTurn(s) = [h |-> g, i |-> p]
    BY <1>3 DEF UpTurn, UpStops
  <2>2. p \in 1 .. i - 1 /\ p \in 1 .. n /\ p \in Nat /\ i \in Nat /\ n \in Nat
    BY <1>1, <2>1, Indices
  <2>8. h[i] \in T /\ h[p] \in T /\ Distinct(h)
    BY <1>1, <2>2 DEF Rearranges
  <2> HIDE DEF p, i, h
  <2>3. /\ Rearranges(g, h, T) /\ g[p] = h[i] /\ g[i] = h[p]
        /\ \A k \in 1 .. n : k # i /\ k # p => g[k] = h[k]
    BY <1>1, <2>2, <2>8, SwapRearranges
  <2>4. Rearranges(g, h0, T)
    BY <1>1, <2>3 DEF Rearranges
  <2>5. Len(g) = n /\ g \in Seq(T)
    BY <2>3 DEF Rearranges
  <2>6. Compare(h[p], h[i]) <= 0
    BY <2>1, <2>8 DEF Ordered
  <2>7. \A j \in 2 .. n : j \in 1 .. n /\ PARENT(j) \in 1 .. j - 1 /\ PARENT(j) \in 1 .. n /\ h[j] \in T /\ h[PARENT(j)] \in T
    <3>1. \A j \in 2 .. n : j \in 1 .. n /\ PARENT(j) \in 1 .. j - 1 /\ PARENT(j) \in 1 .. n
      <4> HIDE DEF n
      <4> QED
        BY <2>2, Indices
    <3> QED
      BY <1>1, <3>1
  <2> HIDE DEF g, n
  <2>9. ASSUME NEW j \in 2 .. n, j # p PROVE Compare(g[j], g[PARENT(j)]) <= 0
    <3>1. CASE j = i
      BY <2>3, <2>6, <3>1 DEF p
    <3>2. CASE j # i /\ PARENT(j) = i
      <4>1. Compare(h[j], h[p]) <= 0
        BY <1>1, <2>1, <3>2 DEF HeapBut, p, n
      <4> QED
        BY <2>3, <2>7, <2>9, <3>2, <4>1
    <3>3. CASE j # i /\ PARENT(j) = p
      <4>1. Compare(h[j], h[p]) <= 0
        BY <1>1, <3>3 DEF HeapBut, n
      <4>2. Compare(h[j], h[i]) <= 0
        BY <2>6, <2>7, <2>8, <4>1 DEF Ordered
      <4> QED
        BY <2>3, <2>7, <2>9, <3>3, <4>2
    <3>4. CASE j # i /\ PARENT(j) # i /\ PARENT(j) # p
      <4>1. Compare(h[j], h[PARENT(j)]) <= 0
        BY <1>1, <3>4 DEF HeapBut, n
      <4> QED
        BY <2>3, <2>7, <2>9, <3>4, <4>1
    <3> QED
      BY <3>1, <3>2, <3>3, <3>4
  <2>10. ASSUME p > 1, NEW j \in 2 .. n, PARENT(j) = p PROVE Compare(g[j], g[PARENT(p)]) <= 0
    <3>1. p \in 2 .. n /\ p # i /\ PARENT(p) \in 1 .. p - 1 /\ PARENT(p) # i /\ PARENT(p) # p /\ PARENT(p) \in 1 .. n
      BY <2>2, <2>7, <2>10
    <3>2. Compare(h[p], h[PARENT(p)]) <= 0 /\ g[PARENT(p)] = h[PARENT(p)] /\ h[PARENT(p)] \in T
      BY <1>1, <2>3, <2>7, <3>1 DEF HeapBut, n
    <3>3. CASE j = i
      BY <2>3, <3>2, <3>3
    <3>4. CASE j # i
      <4>1. Compare(h[j], h[p]) <= 0
        BY <1>1, <2>10, <3>4 DEF HeapBut, n
      <4>2. Compare(h[j], h[PARENT(p)]) <= 0
        BY <2>7, <2>8, <3>2, <4>1 DEF Ordered
      <4>3. j # p
        BY <2>7, <2>10
      <4> QED
        BY <2>3, <2>7, <3>2, <3>4, <4>2, <4>3
    <3> QED
      BY <3>3, <3>4
  <2>11. HeapBut(g, p)
    BY <2>5, <2>9, <2>10 DEF HeapBut
  <2> QED
    BY <2>1, <2>2, <2>4, <2>5, <2>11 DEF UpStates
<1> QED
  BY <1>2, <1>3

\* What HeapifyUp returns: the same elements, as a heap.
LEMMA HeapifiesUp ==
  ASSUME NEW T, Ordered(T), NEW h \in Seq(T), Distinct(h), NEW i \in 1 .. Len(h), HeapBut(h, i)
  PROVE  Rearranges(HeapifyUp(h, i), h, T) /\ IsHeap(HeapifyUp(h, i))
<1> DEFINE S == UpStates(h, T)
<1>1. [h |-> h, i |-> i] \in S
  BY DEF UpStates, Rearranges
<1>2. \A x \in S : UpTurn(x) \in S
  BY UpTurnKeeps
<1> HIDE DEF S
<1>0. PICK f : UpRun(f, S, h, i)
  BY <1>1, <1>2, UpLoop
<1>3. /\ f \in [Nat -> S] /\ f[0] = [h |-> h, i |-> i]
      /\ \A n \in Nat : f[n + 1] = UpTurn(f[n])
      /\ HeapifyUp(h, i) = f[i].h
  BY <1>0 DEF UpRun
<1>4. \A n \in Nat : f[n] \in S /\ f[n].i \in Nat /\ f[n].i >= 1
  <2>1. \A x \in S : x.i \in Nat /\ x.i >= 1
    BY DEF S, UpStates
  <2> QED
    BY <1>3, <2>1
<1> DEFINE Done == {n \in Nat : UpStops(f[n]) \/ f[n].i + n <= i}
<1>5. 0 \in Done
  BY <1>3
<1>6. ASSUME NEW n \in Nat, n \in Done PROVE n + 1 \in Done
  <2>1. CASE UpStops(f[n])
    <3>1. f[n + 1] = f[n]
      BY <1>3, <2>1 DEF UpTurn, UpStops
    <3> QED
      BY <2>1, <3>1
  <2>2. CASE ~UpStops(f[n])
    <3>0. \A x : ~UpStops(x) => x.i > 1 /\ UpTurn(x).i = PARENT(x.i)
      BY DEF UpTurn, UpStops
    <3>1. f[n].i > 1 /\ f[n + 1].i = PARENT(f[n].i)
      BY <1>3, <2>2, <3>0
    <3>2. f[n + 1].i <= f[n].i - 1 /\ f[n].i + n <= i
      <4>1. PARENT(f[n].i) <= f[n].i - 1
        <5>1. \A x \in Nat : x > 1 => PARENT(x) <= x - 1
          BY Indices
        <5> QED
          BY <1>4, <3>1, <5>1
      <4> QED
        BY <1>6, <2>2, <3>1, <4>1
    <3>3. \A x, y \in Nat : x <= y - 1 /\ y + n <= i => x + (n + 1) <= i
      OBVIOUS
    <3> QED
      BY <1>4, <3>2, <3>3
  <2> QED
    BY <2>1, <2>2
<1>7. i \in Done
  <2> HIDE DEF Done
  <2> QED
    BY <1>5, <1>6, AllNumbers
<1>8. UpStops(f[i])
  <2>1. \A x \in Nat : x >= 1 => ~(x + i <= i)
    OBVIOUS
  <2> QED
    BY <1>4, <1>7, <2>1
<1>9. PICK r \in S : r = f[i]
  BY <1>4
<1>10. r.h \in Seq(T) /\ r.i \in 1 .. Len(r.h) /\ Rearranges(r.h, h, T) /\ HeapBut(r.h, r.i)
  BY DEF S, UpStates
<1>11. IsHeap(r.h)
  <2> SUFFICES ASSUME NEW j \in 2 .. Len(r.h) PROVE Compare(r.h[j], r.h[PARENT(j)]) <= 0
    BY DEF IsHeap
  <2>1. CASE j # r.i
    BY <1>10, <2>1 DEF HeapBut
  <2>2. CASE j = r.i
    <3>1. PARENT(j) \in 1 .. j - 1 /\ r.i > 1
      <4>1. \A x \in Nat : x >= 2 => PARENT(x) \in 1 .. x - 1
        BY Indices
      <4>2. j \in Nat /\ j >= 2
        BY <1>10
      <4> QED
        BY <2>2, <4>1, <4>2
    <3>2. r.h[j] \in T /\ r.h[PARENT(j)] \in T
      BY <1>10, <3>1
    <3>3. ~(Compare(r.h[j], r.h[PARENT(j)]) > 0)
      BY <1>8, <1>9, <2>2, <3>1 DEF UpStops
    <3>4. Compare(r.h[j], r.h[PARENT(j)]) \in Int
      BY <3>2 DEF Ordered
    <3> QED
      BY <3>3, <3>4
  <2> QED
    BY <2>1, <2>2
<1> QED
  BY <1>3, <1>9, <1>10, <1>11

-----------------------------------------------------------------------------
(* HeapifyDown.                                                             *)

\* Only the children of i may be above their parent; they are not above the
\* parent of i.
HeapBelow(h, i) ==
  /\ \A j \in 2 .. Len(h) : PARENT(j) # i => Compare(h[j], h[PARENT(j)]) <= 0
  /\ i > 1 => \A j \in 2 .. Len(h) : PARENT(j) = i => Compare(h[j], h[PARENT(i)]) <= 0

DownStates(h, T) ==
  {s \in [h : Seq(T), i : Nat \ {0}] : Rearranges(s.h, h, T) /\ HeapBelow(s.h, s.i)}

DownStops(s) == ~(LEFT(s.i) <= Len(s.h) /\ Compare(s.h[LargerChild(s.h, s.i)], s.h[s.i]) > 0)

\* No child of i is above the larger one.
LEMMA LargerChildIsLarger ==
  ASSUME NEW T, Ordered(T), NEW h \in Seq(T), NEW i \in Nat \ {0}, LEFT(i) <= Len(h)
  PROVE  /\ LargerChild(h, i) \in 2 .. Len(h) /\ PARENT(LargerChild(h, i)) = i
         /\ \A j \in 2 .. Len(h) : PARENT(j) = i => j = LargerChild(h, i) \/ Compare(h[j], h[LargerChild(h, i)]) <= 0
<1> DEFINE n == Len(h)
           l == LEFT(i)
           r == RIGHT(i)
<1>1. l \in 2 .. n /\ r \in Nat /\ r = l + 1 /\ PARENT(l) = i /\ PARENT(r) = i /\ n \in Nat
  <2>1. l \in Nat /\ r \in Nat /\ l > i /\ r = l + 1 /\ PARENT(l) = i /\ PARENT(r) = i /\ n \in Nat
    BY Indices
  <2> QED
    BY <2>1
<1>2. \A j \in 2 .. n : PARENT(j) = i => j = l \/ j = r
  BY Indices
<1>3. h[l] \in T /\ (r <= n => h[r] \in T)
  BY <1>1
<1>4. LargerChild(h, i) = IF r <= n /\ Compare(h[r], h[l]) > 0 THEN r ELSE l
  BY DEF LargerChild
<1> HIDE DEF n, l, r
<1>5. CASE r <= n /\ Compare(h[r], h[l]) > 0
  <2>1. Compare(h[l], h[r]) <= 0
    BY <1>3, <1>5 DEF Ordered
  <2>2. r \in 2 .. n
    BY <1>1, <1>5
  <2> QED
    BY <1>1, <1>2, <1>4, <1>5, <2>1, <2>2 DEF n
<1>6. CASE ~(r <= n /\ Compare(h[r], h[l]) > 0)
  <2>1. r <= n => Compare(h[r], h[l]) <= 0
    <3>1. r <= n => Compare(h[r], h[l]) \in Int
      <4>1. \A x, y \in T : Compare(x, y) \in Int
        BY DEF Ordered
      <4> QED
        BY <1>3, <4>1, Zenon
    <3> QED
      BY <1>6, <3>1
  <2> QED
    BY <1>1, <1>2, <1>4, <1>6, <2>1 DEF n
<1> QED
  BY <1>5, <1>6

\* A turn of HeapifyDown moves the disorder one level down.
LEMMA DownTurnKeeps ==
  ASSUME NEW T, Ordered(T), NEW h0, NEW s \in DownStates(h0, T)
  PROVE  DownTurn(s) \in DownStates(h0, T)
<1> DEFINE h == s.h
           i == s.i
           c == LargerChild(h, i)
           g == SwapElem(h, i, c)
           n == Len(h)
<1>1. s = [h |-> h, i |-> i] /\ h \in Seq(T) /\ i \in Nat \ {0} /\ Rearranges(h, h0, T) /\ HeapBelow(h, i)
  BY DEF DownStates
<1>2. CASE DownStops(s)
  BY <1>2 DEF DownTurn, DownStops
<1>3. CASE ~DownStops(s)
  <2>1. LEFT(i) <= n /\ Compare(h[c], h[i]) > 0 /\ DownTurn(s) = [h |-> g, i |-> c]
    BY <1>3 DEF DownTurn, DownStops
  <2> HIDE DEF i, h
  <2>2. /\ c \in 2 .. n /\ PARENT(c) = i
        /\ \A j \in 2 .. n : PARENT(j) = i => j = c \/ Compare(h[j], h[c]) <= 0
    BY <1>1, <2>1, LargerChildIsLarger
  <2> HIDE DEF c
  <2>3. n \in Nat /\ i \in Nat /\ c \in Nat /\ i < c /\ i \in 1 .. n /\ c \in 1 .. n
    <3>1. \A x \in Nat : x >= 2 => PARENT(x) \in 1 .. x - 1
      BY Indices
    <3>2. c \in Nat /\ c >= 2 /\ n \in Nat
      BY <1>1, <2>2
    <3>3. i \in 1 .. c - 1
      BY <2>2, <3>1, <3>2
    <3> QED
      BY <2>2, <3>2, <3>3
  <2>4. h[i] \in T /\ h[c] \in T /\ Distinct(h)
    BY <1>1, <2>3 DEF Rearranges
  <2>5. /\ Rearranges(g, h, T) /\ g[c] = h[i] /\ g[i] = h[c]
        /\ \A k \in 1 .. n : k # i /\ k # c => g[k] = h[k]
    BY <1>1, <2>3, <2>4, SwapRearranges
  <2>6. Rearranges(g, h0, T) /\ Len(g) = n /\ g \in Seq(T)
    BY <1>1, <2>5 DEF Rearranges
  <2>7. Compare(h[i], h[c]) <= 0
    BY <2>1, <2>4 DEF Ordered
  <2>8. \A j \in 2 .. n : j \in 1 .. n /\ PARENT(j) \in 1 .. j - 1 /\ PARENT(j) \in 1 .. n
    <3> HIDE DEF n
    <3> QED
      BY <2>3, Indices
  <2> HIDE DEF g, n
  <2>9. ASSUME NEW j \in 2 .. n, PARENT(j) # c PROVE Compare(g[j], g[PARENT(j)]) <= 0
    <3>1. CASE j = c
      BY <2>2, <2>5, <2>7, <3>1
    <3>2. CASE j # c /\ PARENT(j) = i
      <4>1. j # i
        BY <2>3, <2>8, <3>2
      <4> QED
        BY <2>2, <2>5, <2>8, <3>2, <4>1
    <3>3. CASE j = i
      <4>1. i > 1 /\ PARENT(i) # i /\ PARENT(i) \in 1 .. n
        BY <2>3, <2>8, <3>3
      <4>2. Compare(h[c], h[PARENT(i)]) <= 0
        BY <1>1, <2>2, <4>1 DEF HeapBelow, n
      <4> QED
        BY <2>5, <2>9, <3>3, <4>1, <4>2
    <3>4. CASE j # c /\ j # i /\ PARENT(j) # i
      <4>1. Compare(h[j], h[PARENT(j)]) <= 0
        BY <1>1, <3>4 DEF HeapBelow, n
      <4> QED
        BY <2>5, <2>8, <2>9, <3>4, <4>1
    <3> QED
      BY <3>1, <3>2, <3>3, <3>4
  <2>10. ASSUME NEW j \in 2 .. n, PARENT(j) = c PROVE Compare(g[j], g[PARENT(c)]) <= 0
    <3>1. j # i /\ j # c /\ PARENT(j) # i
      BY <2>3, <2>8, <2>10
    <3>2. Compare(h[j], h[c]) <= 0
      BY <1>1, <2>10, <3>1 DEF HeapBelow, n
    <3> QED
      BY <2>2, <2>5, <2>8, <3>1, <3>2
  <2>11. HeapBelow(g, c)
    BY <2>6, <2>9, <2>10 DEF HeapBelow
  <2>12. c \in Nat \ {0}
    BY <2>2, <2>3
  <2> QED
    BY <2>1, <2>6, <2>11, <2>12 DEF DownStates
<1> QED
  BY <1>2, <1>3

\* What HeapifyDown returns: the same elements, as a heap.
LEMMA HeapifiesDown ==
  ASSUME NEW T, Ordered(T), NEW h \in Seq(T), Distinct(h), NEW i \in Nat \ {0}, HeapBelow(h, i)
  PROVE  Rearranges(HeapifyDown(h, i), h, T) /\ IsHeap(HeapifyDown(h, i))
<1> DEFINE S == DownStates(h, T)
           m == Len(h)
<1>1. [h |-> h, i |-> i] \in S /\ m \in Nat
  BY DEF DownStates, Rearranges
<1>2. \A x \in S : DownTurn(x) \in S
  BY DownTurnKeeps
<1>a. \A x \in S : x.i \in Nat /\ x.i >= 1 /\ Len(x.h) = m /\ x.h \in Seq(T)
  BY DEF DownStates, Rearranges
<1> HIDE DEF S
<1>0. PICK f : DownRun(f, S, h, i)
  BY <1>1, <1>2, DownLoop
<1>3. /\ f \in [Nat -> S] /\ f[0] = [h |-> h, i |-> i]
      /\ \A n \in Nat : f[n + 1] = DownTurn(f[n])
      /\ HeapifyDown(h, i) = f[m].h
  BY <1>0 DEF DownRun
<1> HIDE DEF m
<1>4. \A n \in Nat : f[n] \in S /\ f[n].i \in Nat /\ f[n].i >= 1
  BY <1>3, <1>a
<1> DEFINE Done == {n \in Nat : DownStops(f[n]) \/ f[n].i > n}
<1>5. 0 \in Done
  BY <1>4
<1>6. ASSUME NEW n \in Nat, n \in Done PROVE n + 1 \in Done
  <2>1. CASE DownStops(f[n])
    <3>1. f[n + 1] = f[n]
      BY <1>3, <2>1 DEF DownTurn, DownStops
    <3> QED
      BY <2>1, <3>1
  <2>2. CASE ~DownStops(f[n])
    <3>1. PICK x \in S : x = f[n]
      BY <1>4
    <3>2. LEFT(x.i) <= Len(x.h) /\ DownTurn(x).i = LargerChild(x.h, x.i)
      BY <2>2, <3>1 DEF DownTurn, DownStops
    <3>3. x.i \in Nat \ {0} /\ x.h \in Seq(T)
      BY <1>a
    <3>4. LargerChild(x.h, x.i) \in 2 .. Len(x.h) /\ PARENT(LargerChild(x.h, x.i)) = x.i
      BY <3>2, <3>3, LargerChildIsLarger
    <3>5. \A y \in Nat : y >= 2 => PARENT(y) < y
      BY Indices
    <3>6. x.i < LargerChild(x.h, x.i)
      BY <3>3, <3>4, <3>5
    <3>7. f[n].i < f[n + 1].i /\ f[n].i > n
      BY <1>3, <1>6, <2>2, <3>1, <3>2, <3>6
    <3>8. \A y, z \in Nat : y < z /\ y > n => z > n + 1
      OBVIOUS
    <3> QED
      BY <1>4, <3>7, <3>8
  <2> QED
    BY <2>1, <2>2
<1>7. m \in Done
  <2> HIDE DEF Done
  <2> QED
    BY <1>1, <1>5, <1>6, AllNumbers
<1>9. PICK r \in S : r = f[m]
  BY <1>1, <1>4
<1>10. r.h \in Seq(T) /\ r.i \in Nat \ {0} /\ Rearranges(r.h, h, T) /\ HeapBelow(r.h, r.i) /\ Len(r.h) = m
  BY <1>a DEF S, DownStates
<1>8. DownStops(r)
  <2>1. \A x \in Nat : x >= 1 => LEFT(x) > x
    BY Indices
  <2>2. LEFT(r.i) > r.i /\ LEFT(r.i) \in Nat
    BY <1>10, <2>1 DEF LEFT
  <2>3. CASE r.i > m
    BY <1>1, <1>10, <2>2, <2>3 DEF DownStops
  <2> QED
    BY <1>7, <1>9, <2>3
<1>11. IsHeap(r.h)
  <2> SUFFICES ASSUME NEW j \in 2 .. Len(r.h) PROVE Compare(r.h[j], r.h[PARENT(j)]) <= 0
    BY DEF IsHeap
  <2>1. CASE PARENT(j) # r.i
    BY <1>10, <2>1 DEF HeapBelow
  <2>2. CASE PARENT(j) = r.i
    <3> DEFINE c == LargerChild(r.h, r.i)
    <3>1. \A y \in Nat : y >= 2 => PARENT(y) \in 1 .. y - 1 /\ LEFT(PARENT(y)) <= y
      BY DEF PARENT, LEFT
    <3>2. j \in Nat /\ j >= 2 /\ j \in 1 .. Len(r.h) /\ Len(r.h) \in Nat
      BY <1>10
    <3>3. r.i \in 1 .. j - 1 /\ LEFT(r.i) <= j
      BY <2>2, <3>1, <3>2
    <3>4. LEFT(r.i) <= Len(r.h)
      BY <1>10, <3>2, <3>3 DEF LEFT
    <3>5. c \in 2 .. Len(r.h) /\ (j = c \/ Compare(r.h[j], r.h[c]) <= 0)
      BY <1>10, <2>2, <3>4, LargerChildIsLarger
    <3>6. ~(Compare(r.h[c], r.h[r.i]) > 0)
      BY <1>8, <3>4 DEF DownStops
    <3>7. r.h[j] \in T /\ r.h[c] \in T /\ r.h[r.i] \in T
      BY <1>10, <3>2, <3>3, <3>5
    <3> HIDE DEF c
    <3>8. Compare(r.h[c], r.h[r.i]) \in Int
      BY <3>7 DEF Ordered
    <3>9. Compare(r.h[c], r.h[r.i]) <= 0
      BY <3>6, <3>8
    <3>10. Compare(r.h[j], r.h[r.i]) <= 0
      BY <3>5, <3>7, <3>9 DEF Ordered
    <3> QED
      BY <2>2, <3>10
  <2> QED
    BY <2>1, <2>2
<1> QED
  BY <1>3, <1>9, <1>10, <1>11

-----------------------------------------------------------------------------
(* The operations of the heap.                                              *)

\* HeapPush adds one element and leaves a heap.
LEMMA PushKeepsHeap ==
  ASSUME NEW T, Ordered(T), NEW h \in Seq(T), Distinct(h), IsHeap(h), NEW x \in T, x \notin ToSet(h)
  PROVE  /\ Push(h, x) \in Seq(T) /\ Len(Push(h, x)) = Len(h) + 1
         /\ Distinct(Push(h, x)) /\ IsHeap(Push(h, x))
         /\ ToSet(Push(h, x)) = ToSet(h) \union {x}
<1> DEFINE n == Len(h)
           g == Append(h, x)
<1>1. g \in Seq(T) /\ Len(g) = n + 1 /\ g[n + 1] = x /\ (\A k \in 1 .. n : g[k] = h[k]) /\ n \in Nat
  OBVIOUS
<1>2. \A y : y \in ToSet(h) <=> \E k \in 1 .. n : h[k] = y
  BY DEF ToSet
<1>3. \A y : y \in ToSet(g) <=> \E k \in 1 .. n + 1 : g[k] = y
  BY <1>1 DEF ToSet
<1> HIDE DEF g
<1>4. \A y : y \in ToSet(g) <=> y \in ToSet(h) \/ y = x
  <2> SUFFICES ASSUME NEW y PROVE y \in ToSet(g) <=> y \in ToSet(h) \/ y = x
    OBVIOUS
  <2>1. ASSUME y \in ToSet(g) PROVE y \in ToSet(h) \/ y = x
    <3>1. PICK k \in 1 .. n + 1 : g[k] = y
      BY <1>3, <2>1
    <3>2. CASE k = n + 1
      BY <1>1, <3>1, <3>2
    <3>3. CASE k \in 1 .. n
      BY <1>1, <1>2, <3>1, <3>3
    <3> QED
      BY <1>1, <3>2, <3>3
  <2>2. ASSUME y \in ToSet(h) PROVE y \in ToSet(g)
    <3>1. PICK k \in 1 .. n : h[k] = y
      BY <1>2, <2>2
    <3>2. k \in 1 .. n + 1 /\ g[k] = y
      BY <1>1, <3>1
    <3> QED
      BY <1>3, <3>2
  <2>3. x \in ToSet(g)
    <3>1. n + 1 \in 1 .. n + 1
      BY <1>1
    <3> QED
      BY <1>1, <1>3, <3>1
  <2> QED
    BY <2>1, <2>2, <2>3
<1>5. Distinct(g)
  <2> SUFFICES ASSUME NEW i \in 1 .. n + 1, NEW j \in 1 .. n + 1, g[i] = g[j] PROVE i = j
    BY <1>1 DEF Distinct
  <2>1. \A k \in 1 .. n : h[k] # x
    BY <1>2
  <2>2. CASE i \in 1 .. n /\ j \in 1 .. n
    BY <1>1, <2>2 DEF Distinct
  <2>3. CASE i = n + 1 \/ j = n + 1
    BY <1>1, <2>1, <2>3
  <2> QED
    BY <1>1, <2>2, <2>3
<1>6. HeapBut(g, n + 1)
  <2>1. \A j \in Nat : j >= 2 => PARENT(j) \in 1 .. j - 1
    BY Indices
  <2>2. ASSUME NEW j \in 2 .. n + 1, j # n + 1 PROVE Compare(g[j], g[PARENT(j)]) <= 0
    <3>1. j \in 2 .. n /\ j \in 1 .. n /\ PARENT(j) \in 1 .. n
      BY <1>1, <2>1, <2>2
    <3>2. Compare(h[j], h[PARENT(j)]) <= 0
      BY <3>1 DEF IsHeap
    <3> QED
      BY <1>1, <3>1, <3>2
  <2>3. \A j \in 2 .. n + 1 : PARENT(j) # n + 1
    BY <1>1, <2>1
  <2> QED
    BY <1>1, <2>2, <2>3 DEF HeapBut
<1>7. n + 1 \in 1 .. Len(g)
  BY <1>1
<1>8. Rearranges(HeapifyUp(g, n + 1), g, T) /\ IsHeap(HeapifyUp(g, n + 1))
  BY <1>1, <1>5, <1>6, <1>7, HeapifiesUp
<1>9. Push(h, x) = HeapifyUp(g, n + 1)
  BY DEF Push, g
<1>10. ToSet(g) = ToSet(h) \union {x}
  BY <1>4
<1> QED
  BY <1>1, <1>8, <1>9, <1>10 DEF Rearranges

\* g has the elements of h but x, each of them once.
Takes(g, h, x, T) ==
  /\ g \in Seq(T) /\ Len(g) = Len(h) - 1 /\ Distinct(g)
  /\ ToSet(g) = ToSet(h) \ {x}

\* The last element fills the gap.
LEMMA LastFillsGap ==
  ASSUME NEW T, NEW h \in Seq(T), Distinct(h), NEW i \in 1 .. Len(h)
  PROVE  /\ Takes(PopBack(SwapElem(h, i, Len(h))), h, h[i], T)
         /\ i < Len(h) => PopBack(SwapElem(h, i, Len(h)))[i] = h[Len(h)]
         /\ \A k \in 1 .. Len(h) - 1 : k # i => PopBack(SwapElem(h, i, Len(h)))[k] = h[k]
<1> DEFINE n == Len(h)
           w == SwapElem(h, i, n)
           g == PopBack(w)
<1>1. n \in Nat /\ n \in 1 .. n /\ i \in 1 .. n
  OBVIOUS
<1>2. Rearranges(w, h, T) /\ w[n] = h[i] /\ w[i] = h[n] /\ \A k \in 1 .. n : k # i /\ k # n => w[k] = h[k]
  BY <1>1, SwapRearranges
<1>3. w \in Seq(T) /\ Len(w) = n /\ Distinct(w) /\ ToSet(w) = ToSet(h)
  BY <1>2 DEF Rearranges
<1> HIDE DEF w
<1>4. g \in Seq(T) /\ Len(g) = n - 1 /\ \A k \in 1 .. n - 1 : g[k] = w[k]
  BY <1>1, <1>3 DEF PopBack
<1>5. \A y : y \in ToSet(w) <=> \E k \in 1 .. n : w[k] = y
  BY <1>3 DEF ToSet
<1>6. \A y : y \in ToSet(g) <=> \E k \in 1 .. n - 1 : g[k] = y
  BY <1>4 DEF ToSet
<1> HIDE DEF g
<1>7. \A a \in 1 .. n, b \in 1 .. n : w[a] = w[b] => a = b
  BY <1>3 DEF Distinct
<1>8. \A k \in 1 .. n - 1 : k \in 1 .. n /\ k # n
  BY <1>1
<1>9. \A y : y \in ToSet(g) <=> y \in ToSet(w) /\ y # w[n]
  <2> SUFFICES ASSUME NEW y PROVE y \in ToSet(g) <=> y \in ToSet(w) /\ y # w[n]
    OBVIOUS
  <2>1. ASSUME y \in ToSet(g) PROVE y \in ToSet(w) /\ y # w[n]
    <3>1. PICK k \in 1 .. n - 1 : g[k] = y
      BY <1>6, <2>1
    <3>2. k \in 1 .. n /\ k # n /\ w[k] = y
      BY <1>4, <1>8, <3>1
    <3> QED
      BY <1>1, <1>5, <1>7, <3>2
  <2>2. ASSUME y \in ToSet(w), y # w[n] PROVE y \in ToSet(g)
    <3>1. PICK k \in 1 .. n : w[k] = y
      BY <1>5, <2>2
    <3>2. k \in 1 .. n - 1
      BY <1>1, <2>2, <3>1
    <3> QED
      BY <1>4, <1>6, <3>1, <3>2
  <2> QED
    BY <2>1, <2>2
<1>10. ToSet(g) = ToSet(h) \ {h[i]}
  BY <1>2, <1>3, <1>9
<1>11. Distinct(g)
  <2>1. \A a \in 1 .. n - 1, b \in 1 .. n - 1 : g[a] = g[b] => a = b
    BY <1>4, <1>7, <1>8
  <2> QED
    BY <1>4, <2>1 DEF Distinct
<1>12. Takes(g, h, h[i], T)
  BY <1>4, <1>10, <1>11 DEF Takes
<1>13. i < n => g[i] = h[n]
  BY <1>1, <1>2, <1>4
<1>14. \A k \in 1 .. n - 1 : k # i => g[k] = h[k]
  BY <1>2, <1>4, <1>8
<1> QED
  BY <1>12, <1>13, <1>14 DEF g, w

\* HeapPop takes out the root and leaves a heap.
LEMMA PopKeepsHeap ==
  ASSUME NEW T, Ordered(T), NEW h \in Seq(T), Distinct(h), IsHeap(h), h # << >>
  PROVE  Takes(Pop(h), h, h[1], T) /\ IsHeap(Pop(h))
<1> DEFINE n == Len(h)
           g == PopBack(SwapElem(h, 1, n))
<1>1. n \in Nat /\ 1 \in 1 .. n
  OBVIOUS
<1>2. Takes(g, h, h[1], T) /\ \A k \in 1 .. n - 1 : k # 1 => g[k] = h[k]
  BY <1>1, LastFillsGap
<1>3. g \in Seq(T) /\ Len(g) = n - 1 /\ Distinct(g)
  BY <1>2 DEF Takes
<1> HIDE DEF g
<1>4. HeapBelow(g, 1)
  <2>1. \A j \in Nat : j >= 2 => PARENT(j) \in 1 .. j - 1
    BY Indices
  <2>2. ASSUME NEW j \in 2 .. n - 1, PARENT(j) # 1 PROVE Compare(g[j], g[PARENT(j)]) <= 0
    <3>1. j \in 2 .. n /\ j \in 1 .. n - 1 /\ j # 1 /\ PARENT(j) \in 1 .. n - 1
      BY <1>1, <2>1
    <3>2. Compare(h[j], h[PARENT(j)]) <= 0
      BY <3>1 DEF IsHeap
    <3> QED
      BY <1>2, <2>2, <3>1, <3>2
  <2> QED
    BY <1>3, <2>2 DEF HeapBelow
<1>5. Rearranges(HeapifyDown(g, 1), g, T) /\ IsHeap(HeapifyDown(g, 1))
  BY <1>3, <1>4, HeapifiesDown
<1>6. Pop(h) = HeapifyDown(g, 1)
  BY DEF Pop, g
<1> QED
  BY <1>2, <1>5, <1>6 DEF Rearranges, Takes

\* HeapRemove takes out the element it has found, wherever that is, and leaves
\* a heap: what fills the gap goes up or down, and never has to do both.
LEMMA RemovedKeepsHeap ==
  ASSUME NEW T, Ordered(T), NEW h \in Seq(T), Distinct(h), IsHeap(h), NEW i \in 1 .. Len(h)
  PROVE  Takes(Removed(h, i), h, h[i], T) /\ IsHeap(Removed(h, i))
<1> DEFINE n == Len(h)
           g == PopBack(SwapElem(h, i, n))
<1>1. n \in Nat /\ i \in 1 .. n /\ i \in Nat \ {0}
  OBVIOUS
<1>2. Takes(g, h, h[i], T) /\ (i < n => g[i] = h[n]) /\ \A k \in 1 .. n - 1 : k # i => g[k] = h[k]
  BY <1>1, LastFillsGap
<1>3. g \in Seq(T) /\ Len(g) = n - 1 /\ Distinct(g)
  BY <1>2 DEF Takes
<1>4. \A j \in Nat : j >= 2 => PARENT(j) \in 1 .. j - 1
  BY Indices
<1>5. Removed(h, i) = IF i = n THEN PopBack(h)
                      ELSE IF i > 1 /\ Compare(g[i], g[PARENT(i)]) > 0 THEN HeapifyUp(g, i)
                      ELSE HeapifyDown(g, i)
  BY DEF Removed
<1>6. \A j \in 2 .. n : Compare(h[j], h[PARENT(j)]) <= 0
  BY DEF IsHeap
<1>7. \A j \in 2 .. n - 1 : j \in 2 .. n /\ j \in 1 .. n - 1 /\ PARENT(j) \in 1 .. n - 1 /\ PARENT(j) # j
  BY <1>1, <1>4
<1>8. CASE i = n
  <2>1. SwapElem(h, n, n) = h
    BY <1>1 DEF SwapElem
  <2>2. Removed(h, i) = g
    BY <1>5, <1>8, <2>1
  <2> HIDE DEF g
  <2>3. \A j \in 2 .. n - 1 : Compare(g[j], g[PARENT(j)]) <= 0
    BY <1>1, <1>2, <1>6, <1>7, <1>8
  <2> QED
    BY <1>2, <1>3, <2>2, <2>3 DEF IsHeap
<1>9. CASE i # n
  <2> HIDE DEF g
  <2>1. i \in 1 .. n - 1 /\ i \in 1 .. Len(g)
    BY <1>1, <1>3, <1>9
  <2>2. \A j \in 2 .. n - 1 : j # i /\ PARENT(j) # i => Compare(g[j], g[PARENT(j)]) <= 0
    BY <1>2, <1>6, <1>7
  <2>3. ASSUME NEW j \in 2 .. n - 1, PARENT(j) = i, i > 1
        PROVE  Compare(g[j], g[PARENT(i)]) <= 0 /\ g[j] \in T /\ g[PARENT(i)] \in T
    <3>1. i \in 2 .. n - 1 /\ j # i /\ PARENT(i) # i /\ PARENT(i) \in 1 .. n - 1 /\ j \in 1 .. n - 1
      BY <1>1, <1>7, <2>1, <2>3
    <3>2. g[j] = h[j] /\ g[PARENT(i)] = h[PARENT(i)]
      BY <1>2, <3>1
    <3>3. Compare(h[j], h[i]) <= 0 /\ Compare(h[i], h[PARENT(i)]) <= 0
      BY <1>6, <1>7, <2>3, <3>1
    <3>4. h[j] \in T /\ h[i] \in T /\ h[PARENT(i)] \in T
      BY <1>1, <3>1
    <3> QED
      BY <3>2, <3>3, <3>4 DEF Ordered
  <2>4. CASE i > 1 /\ Compare(g[i], g[PARENT(i)]) > 0
    <3>1. ASSUME NEW j \in 2 .. n - 1, PARENT(j) = i PROVE Compare(g[j], g[i]) <= 0
      <4>1. Compare(g[j], g[PARENT(i)]) <= 0 /\ g[j] \in T /\ g[PARENT(i)] \in T
        BY <2>3, <2>4, <3>1
      <4>2. g[i] \in T
        BY <1>3, <2>1
      <4>3. Compare(g[PARENT(i)], g[i]) <= 0
        BY <2>4, <4>1, <4>2 DEF Ordered
      <4> QED
        BY <4>1, <4>2, <4>3 DEF Ordered
    <3>2. HeapBut(g, i)
      BY <1>3, <2>2, <2>3, <3>1 DEF HeapBut
    <3>3. Rearranges(HeapifyUp(g, i), g, T) /\ IsHeap(HeapifyUp(g, i))
      BY <1>3, <2>1, <3>2, HeapifiesUp
    <3> QED
      BY <1>2, <1>5, <1>9, <2>4, <3>3 DEF Rearranges, Takes
  <2>5. CASE ~(i > 1 /\ Compare(g[i], g[PARENT(i)]) > 0)
    <3>1. i > 1 => Compare(g[i], g[PARENT(i)]) <= 0
      <4> SUFFICES ASSUME i > 1 PROVE Compare(g[i], g[PARENT(i)]) <= 0
        OBVIOUS
      <4>1. PARENT(i) \in 1 .. n - 1
        BY <1>1, <1>7, <2>1
      <4>2. g[i] \in T /\ g[PARENT(i)] \in T
        BY <1>3, <2>1, <4>1
      <4>3. Compare(g[i], g[PARENT(i)]) \in Int
        BY <4>2 DEF Ordered
      <4> QED
        BY <2>5, <4>3
    <3>2. \A j \in 2 .. n - 1 : PARENT(j) # i => Compare(g[j], g[PARENT(j)]) <= 0
      BY <1>1, <2>2, <3>1
    <3>3. HeapBelow(g, i)
      BY <1>3, <2>3, <3>2 DEF HeapBelow
    <3>4. Rearranges(HeapifyDown(g, i), g, T) /\ IsHeap(HeapifyDown(g, i))
      BY <1>1, <1>3, <3>3, HeapifiesDown
    <3> QED
      BY <1>2, <1>5, <1>9, <2>5, <3>4 DEF Rearranges, Takes
  <2> QED
    BY <2>4, <2>5
<1> QED
  BY <1>8, <1>9

\* No element is above the root.
LEMMA RootIsGreatest ==
  ASSUME NEW T, Ordered(T), NEW h \in Seq(T), IsHeap(h)
  PROVE  \A j \in 1 .. Len(h) : Compare(h[j], h[1]) <= 0
<1> DEFINE Above == {j \in Nat : j \in 1 .. Len(h) /\ ~(Compare(h[j], h[1]) <= 0)}
<1> SUFFICES ASSUME Above # {} PROVE FALSE
  OBVIOUS
<1>1. PICK j \in Above : \A k \in Above : j <= k
  <2>1. Above \subseteq Nat
    OBVIOUS
  <2> HIDE DEF Above
  <2> QED
    BY <2>1, LeastNumber
<1>2. j \in Nat /\ j \in 1 .. Len(h) /\ Len(h) \in Nat /\ ~(Compare(h[j], h[1]) <= 0) /\ h[j] \in T /\ h[1] \in T
  OBVIOUS
<1>3. j # 1
  BY <1>2 DEF Ordered
<1>4. PARENT(j) \in 1 .. j - 1 /\ j \in 2 .. Len(h)
  BY <1>2, <1>3, Indices
<1>5. Compare(h[j], h[PARENT(j)]) <= 0
  BY <1>4 DEF IsHeap
<1>6. PARENT(j) \in Nat /\ PARENT(j) \in 1 .. Len(h) /\ h[PARENT(j)] \in T
  BY <1>2, <1>4
<1>7. Compare(h[PARENT(j)], h[1]) <= 0
  <2>1. PARENT(j) \notin Above
    BY <1>1, <1>2, <1>4
  <2> QED
    BY <1>6, <2>1
<1> QED
  BY <1>2, <1>5, <1>6, <1>7 DEF Ordered

\* HeapRemove's search ends at a match, or there is none.
LEMMA FirstMatch ==
  ASSUME NEW results, DOMAIN results \subseteq Nat
  PROVE  \/ RemoveIndex(results) = 0 /\ \A i \in DOMAIN results : results[i] # 0
         \/ RemoveIndex(results) \in DOMAIN results /\ results[RemoveIndex(results)] = 0
<1> DEFINE hits == {i \in DOMAIN results : Matches(results[i])}
<1>1. \A i : i \in hits <=> i \in DOMAIN results /\ results[i] = 0
  BY DEF Matches
<1>2. RemoveIndex(results) = IF hits = {} THEN 0 ELSE CHOOSE i \in hits : \A j \in hits : i <= j
  BY DEF RemoveIndex
<1>3. hits \subseteq Nat
  OBVIOUS
<1> HIDE DEF hits
<1>4. CASE hits = {}
  BY <1>1, <1>2, <1>4
<1>5. CASE hits # {}
  <2>1. \E i \in hits : \A j \in hits : i <= j
    BY <1>3, <1>5, LeastNumber
  <2>2. RemoveIndex(results) \in hits
    BY <1>2, <1>5, <2>1
  <2> QED
    BY <1>1, <2>2
<1> QED
  BY <1>4, <1>5

=============================================================================
