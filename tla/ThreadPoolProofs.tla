--------------------------- MODULE ThreadPoolProofs -------------------------
(* Proofs about ThreadPool, for every set of workers and of tasks.          *)
EXTENDS ThreadPool, FiniteSetTheorems, TLAPS

\* What the controller's local variables say inside each operation.
CtlOK ==
  /\ ctl.op = "pause" => m_is_paused /\ ctl.left \in 1 .. m_num_threads
  /\ ctl.op = "stretchAdd" => m_is_paused
  /\ ctl.op \in {"stretchAdd", "stretchNew"}
       => ctl.left \in 1 .. ctl.target - m_num_threads
  /\ ctl.op \in {"shrinkAdd", "join"}
       => ctl.left \in 1 .. m_num_threads - ctl.target
  /\ ctl.op = "release"
       => ctl.target < m_num_threads /\ ctl.left = m_num_threads - ctl.target

\* A worker inside Execute() holds a task, and only such a worker does.
RunningOK == \A w \in Workers : (worker[w] = "run") <=> (running[w] \in Tasks)

\* The inductive invariant of the pool.
IInv == TypeOK /\ CtlOK /\ RunningOK /\ PermitsBalance /\ ThreadsAccounted

-----------------------------------------------------------------------------
\* A step that moves worker w from one state to another changes each count
\* by at most one.
LEMMA CountStep ==
  ASSUME TypeOK, NEW w \in Workers, NEW b \in WorkerStates,
         worker' = [worker EXCEPT ![w] = b], NEW S
  PROVE  /\ Count(S) \in Nat
         /\ Count(S)' \in Nat
         /\ (worker[w] \in S <=> b \in S) => Count(S)' = Count(S)
         /\ worker[w] \in S /\ b \notin S => Count(S)' = Count(S) - 1
         /\ worker[w] \notin S /\ b \in S => Count(S)' = Count(S) + 1
<1> DEFINE A == At(S)
           B == At(S)'
<1>0. A = {x \in Workers : worker[x] \in S} /\ B = {x \in Workers : worker'[x] \in S}
  BY DEF At
<1>f. worker \in [Workers -> WorkerStates]
  BY DEF TypeOK
<1>1. IsFiniteSet(A) /\ IsFiniteSet(B)
  BY <1>0, FS_Subset, ThreadPoolAssumption
<1>2. Cardinality(A) \in Nat /\ Cardinality(B) \in Nat
  BY <1>1, FS_CardinalityType
<1> HIDE DEF A, B
<1>3. (worker[w] \in S <=> b \in S) => B = A
  BY <1>0, <1>f
<1>4. ASSUME worker[w] \in S, b \notin S
      PROVE  Cardinality(B) = Cardinality(A) - 1
  <2>1. B = A \ {w} /\ w \in A
    BY <1>4, <1>0, <1>f
  <2>2. QED
    BY <2>1, <1>1, FS_RemoveElement
<1>5. ASSUME worker[w] \notin S, b \in S
      PROVE  Cardinality(B) = Cardinality(A) + 1
  <2>1. B = A \union {w} /\ w \notin A
    BY <1>5, <1>0, <1>f
  <2>2. QED
    BY <2>1, <1>1, FS_AddElement
<1>6. QED
  BY <1>2, <1>3, <1>4, <1>5 DEF A, B, Count

\* Counts are natural numbers, also when the workers do not move.
LEMMA CountNat ==
  ASSUME NEW S
  PROVE  Count(S) \in Nat /\ (worker' = worker => Count(S)' = Count(S))
<1>1. IsFiniteSet(At(S))
  BY FS_Subset, ThreadPoolAssumption DEF At
<1>2. QED
  BY <1>1, FS_CardinalityType DEF Count, At

-----------------------------------------------------------------------------
LEMMA InitIInv == Init => IInv
<1> SUFFICES ASSUME Init PROVE IInv
  OBVIOUS
<1> USE DEF Init, Idle
<1>1. TypeOK /\ CtlOK
  BY DEF TypeOK, CtlOK, WorkerStates, Ops
<1>2. RunningOK
  BY ThreadPoolAssumption DEF RunningOK
<1>3. /\ At({"acquire"}) = {}
      /\ At(WorkerStates \ {"none"}) = {}
      /\ At({"stopping", "gone"}) = {}
      /\ At({"gone"}) = {}
  BY DEF At
<1>4. PermitsBalance
  BY <1>3, FS_EmptySet DEF PermitsBalance, BarrierSize, Count
<1>5. ThreadsAccounted
  BY <1>3, FS_EmptySet, SMTT(30) DEF ThreadsAccounted, AllocatedThreads, StopsOwed, Count
<1>6. QED
  BY <1>1, <1>2, <1>4, <1>5 DEF IInv

\* A step of the controller that leaves the workers where they are keeps the
\* counts; what is left is arithmetic on its local variables.
LEMMA ControllerIInv ==
  ASSUME IInv,
         \/ Run \/ Pause \/ PauseAdd \/ StretchAdd \/ ShrinkAdd \/ ShrinkRelease
         \/ \E n \in 0 .. Cardinality(Workers) : SetNumOfThreads(n)
  PROVE  IInv'
<1> DEFINE a == Count({"acquire"})
           l == Count(WorkerStates \ {"none"})
           s == Count({"stopping", "gone"})
<1>w. worker' = worker /\ running' = running
      /\ m_threads_to_remove' = m_threads_to_remove
  BY DEF Run, Pause, PauseAdd, StretchAdd, ShrinkAdd, ShrinkRelease,
         SetNumOfThreads, workVars
<1>c. /\ a \in Nat /\ l \in Nat /\ s \in Nat
      /\ a' = a /\ l' = l /\ s' = s
  BY <1>w, CountNat
<1>g. At({"gone"})' = At({"gone"})
  BY <1>w DEF At
<1>r. RunningOK'
  BY <1>w DEF IInv, RunningOK
<1>n. IsFiniteSet(Workers) /\ Cardinality(Workers) \in Nat
  BY FS_CardinalityType, ThreadPoolAssumption
<1> HIDE DEF a, l, s
<1> USE DEF queueVars, poolVars, workVars, Idle, Ops
<1>1. CASE Run
  <2>a. m_sem_pause' \in Nat
    BY <1>1 DEF Run, IInv, TypeOK
  <2>0. TypeOK'
    BY <1>1, <1>w, <2>a DEF Run, IInv, TypeOK
  <2>1. CtlOK'
    BY <1>1 DEF Run, IInv, TypeOK, CtlOK
  <2>2. PermitsBalance'
    BY <1>1, <1>c DEF Run, IInv, TypeOK, PermitsBalance, BarrierSize, a
  <2>3. ThreadsAccounted'
    BY <1>1, <1>c, <1>g
       DEF Run, IInv, TypeOK, ThreadsAccounted, AllocatedThreads, StopsOwed, l, s
  <2>4. QED
    BY <2>0, <2>1, <2>2, <2>3, <1>r DEF IInv
<1>2. CASE Pause
  <2>0. TypeOK'
    BY <1>2 DEF Pause, IInv, TypeOK, CtlOK
  <2>1. CtlOK'
    BY <1>2 DEF Pause, IInv, TypeOK, CtlOK
  <2>2. PermitsBalance'
    BY <1>2, <1>c DEF Pause, IInv, TypeOK, PermitsBalance, BarrierSize, a
  <2>3. ThreadsAccounted'
    BY <1>2, <1>c, <1>g
       DEF Pause, IInv, TypeOK, ThreadsAccounted, AllocatedThreads, StopsOwed, l, s
  <2>4. QED
    BY <2>0, <2>1, <2>2, <2>3, <1>r DEF IInv
<1>3. CASE PauseAdd
  <2>1. TypeOK' /\ CtlOK'
    BY <1>3 DEF PauseAdd, IInv, TypeOK, CtlOK
  <2>2. PermitsBalance'
    BY <1>3, <1>c DEF PauseAdd, IInv, TypeOK, CtlOK, PermitsBalance, BarrierSize, a
  <2>3. ThreadsAccounted'
    BY <1>3, <1>c, <1>g
       DEF PauseAdd, IInv, TypeOK, ThreadsAccounted, AllocatedThreads, StopsOwed, l, s
  <2>4. QED
    BY <2>1, <2>2, <2>3, <1>r DEF IInv
<1>4. CASE StretchAdd
  <2>a. ctl' \in [op : Ops, left : Nat, target : Nat, before : SUBSET Tasks]
    <3>1. ctl \in [op : Ops, left : Nat, target : Nat, before : SUBSET Tasks]
      BY DEF IInv, TypeOK
    <3>2. ctl.target - m_num_threads \in Nat /\ (ctl.left # 1 => ctl.left - 1 \in Nat)
      BY <1>4 DEF StretchAdd, IInv, TypeOK, CtlOK
    <3>3. QED
      BY <1>4, <3>1, <3>2 DEF StretchAdd
  <2>b. pauseApples' \in Nat
    BY <1>4 DEF StretchAdd, IInv, TypeOK
  <2>0. TypeOK'
    BY <1>4, <1>w, <2>a, <2>b DEF StretchAdd, IInv, TypeOK
  <2>1. CtlOK'
    BY <1>4 DEF StretchAdd, IInv, TypeOK, CtlOK
  <2>2. PermitsBalance'
    BY <1>4, <1>c DEF StretchAdd, IInv, TypeOK, CtlOK, PermitsBalance, BarrierSize, a
  <2>3. ThreadsAccounted'
    BY <1>4, <1>c, <1>g
       DEF StretchAdd, IInv, TypeOK, CtlOK, ThreadsAccounted, AllocatedThreads,
           StopsOwed, l, s
  <2>4. QED
    BY <2>0, <2>1, <2>2, <2>3, <1>r DEF IInv
<1>5. CASE ShrinkAdd
  <2>a. ctl' \in [op : Ops, left : Nat, target : Nat, before : SUBSET Tasks]
    <3>1. ctl \in [op : Ops, left : Nat, target : Nat, before : SUBSET Tasks]
      BY DEF IInv, TypeOK
    <3>2. m_num_threads - ctl.target \in Nat /\ (ctl.left # 1 => ctl.left - 1 \in Nat)
      BY <1>5 DEF ShrinkAdd, IInv, TypeOK, CtlOK
    <3>3. QED
      BY <1>5, <3>1, <3>2 DEF ShrinkAdd
  <2>b. stopApples' \in Nat
    BY <1>5 DEF ShrinkAdd, IInv, TypeOK
  <2>0. TypeOK'
    BY <1>5, <1>w, <2>a, <2>b DEF ShrinkAdd, IInv, TypeOK
  <2>1. CtlOK'
    BY <1>5 DEF ShrinkAdd, IInv, TypeOK, CtlOK
  <2>2. PermitsBalance'
    BY <1>5, <1>c DEF ShrinkAdd, IInv, TypeOK, CtlOK, PermitsBalance, BarrierSize, a
  <2>3. ThreadsAccounted'
    BY <1>5, <1>c, <1>g
       DEF ShrinkAdd, IInv, TypeOK, CtlOK, ThreadsAccounted, AllocatedThreads,
           StopsOwed, l, s
  <2>4. QED
    BY <2>0, <2>1, <2>2, <2>3, <1>r DEF IInv
<1>6. CASE ShrinkRelease
  <2>1. TypeOK' /\ CtlOK'
    BY <1>6 DEF ShrinkRelease, IInv, TypeOK, CtlOK
  <2>2. PermitsBalance'
    BY <1>6, <1>c DEF ShrinkRelease, IInv, TypeOK, CtlOK, PermitsBalance, BarrierSize, a
  <2>3. ThreadsAccounted'
    BY <1>6, <1>c, <1>g
       DEF ShrinkRelease, IInv, TypeOK, CtlOK, ThreadsAccounted, AllocatedThreads,
           StopsOwed, l, s
  <2>4. QED
    BY <2>1, <2>2, <2>3, <1>r DEF IInv
<1>7. ASSUME NEW n \in 0 .. Cardinality(Workers), SetNumOfThreads(n) PROVE IInv'
  <2>0. pending \union {running[w] : w \in At({"run"})} \subseteq Tasks
    BY DEF IInv, TypeOK, RunningOK, At
  <2>1. TypeOK' /\ CtlOK'
    BY <1>7, <1>n, <2>0 DEF SetNumOfThreads, IInv, TypeOK, CtlOK
  <2>2. PermitsBalance'
    BY <1>7, <1>n, <1>c
       DEF SetNumOfThreads, IInv, TypeOK, PermitsBalance, BarrierSize, a
  <2>3. ThreadsAccounted'
    BY <1>7, <1>n, <1>c, <1>g
       DEF SetNumOfThreads, IInv, TypeOK, ThreadsAccounted, AllocatedThreads,
           StopsOwed, l, s
  <2>4. QED
    BY <2>1, <2>2, <2>3, <1>r DEF IInv
<1>8. QED
  BY <1>1, <1>2, <1>3, <1>4, <1>5, <1>6, <1>7


\* Adding a task touches nothing the invariant counts.
LEMMA AddIInv ==
  ASSUME IInv, NEW t \in Tasks, Add(t)
  PROVE  IInv'
<1>w. worker' = worker /\ running' = running
  BY DEF Add
<1>c. \A S : Count(S)' = Count(S) /\ At(S)' = At(S)
  BY <1>w DEF Count, At
<1>b. /\ ctl' \in [op : Ops, left : Nat, target : Nat, before : SUBSET Tasks]
      /\ ctl'.op = ctl.op /\ ctl'.left = ctl.left /\ ctl'.target = ctl.target
  BY DEF Add, IInv, TypeOK
<1>1. TypeOK' /\ CtlOK' /\ RunningOK'
  BY <1>w, <1>b DEF Add, IInv, TypeOK, CtlOK, RunningOK, poolVars
<1>2. PermitsBalance'
  BY <1>c, <1>b DEF Add, IInv, PermitsBalance, BarrierSize, poolVars
<1>3. ThreadsAccounted'
  BY <1>c, <1>b DEF Add, IInv, ThreadsAccounted, AllocatedThreads, StopsOwed, poolVars
<1>4. QED
  BY <1>1, <1>2, <1>3 DEF IInv

\* A step that moves one worker preserves the invariant: CountStep says how
\* the three counts change.
LEMMA WorkerIInv ==
  ASSUME IInv, NEW w \in Workers,
         \/ StretchNew(w) \/ ShrinkJoin(w) \/ WorkerStep(w)
  PROVE  IInv'
<1> DEFINE a == Count({"acquire"})
           l == Count(WorkerStates \ {"none"})
           s == Count({"stopping", "gone"})
<1>t. TypeOK /\ CtlOK /\ RunningOK /\ PermitsBalance /\ ThreadsAccounted
  BY DEF IInv
<1>c. a \in Nat /\ l \in Nat /\ s \in Nat
  BY CountNat
<1>u. worker \in [Workers -> WorkerStates] /\ running \in [Workers -> Tasks \union {NoTask}]
  BY <1>t DEF TypeOK
<1> USE DEF queueVars, poolVars, Idle
<1>1. CASE StretchNew(w)
  <2>0. worker' = [worker EXCEPT ![w] = "pop"] /\ worker[w] = "none"
    BY <1>1 DEF StretchNew
  <2>1. a' = a /\ l' = l + 1 /\ s' = s
    BY <2>0, <1>t, CountStep, ZenonT(30) DEF WorkerStates
  <2>2. At({"gone"})' = At({"gone"})
    BY <2>0, <1>u DEF At
  <2> HIDE DEF a, l, s
  <2>3. TypeOK'
    BY <1>1, <2>0, <1>t DEF StretchNew, TypeOK, CtlOK, RunningOK, WorkerStates, Ops
  <2>4. CtlOK'
    BY <1>1, <1>t DEF StretchNew, TypeOK, CtlOK
  <2>5. RunningOK'
    BY <1>1, <2>0, <1>t, <1>u, ThreadPoolAssumption DEF StretchNew, RunningOK
  <2>6. PermitsBalance'
    BY <1>1, <2>1, <1>c, <1>t
       DEF StretchNew, TypeOK, CtlOK, PermitsBalance, BarrierSize, a
  <2>7. ThreadsAccounted'
    BY <1>1, <2>1, <2>2, <1>c, <1>t
       DEF StretchNew, TypeOK, CtlOK, ThreadsAccounted, AllocatedThreads, StopsOwed, l, s
  <2>8. QED
    BY <2>3, <2>4, <2>5, <2>6, <2>7 DEF IInv
<1>2. CASE ShrinkJoin(w)
  <2>0. worker' = [worker EXCEPT ![w] = "none"] /\ worker[w] = "gone"
    BY <1>2, <1>t DEF ShrinkJoin, ThreadsAccounted, At
  <2>1. a' = a /\ l' = l - 1 /\ s' = s - 1
    BY <2>0, <1>t, CountStep, ZenonT(30) DEF WorkerStates
  <2>2. At({"gone"})' = At({"gone"}) \ {w}
    BY <2>0, <1>u DEF At
  <2> HIDE DEF a, l, s
  <2>3. TypeOK'
    BY <1>2, <2>0, <1>t DEF ShrinkJoin, TypeOK, CtlOK, RunningOK, WorkerStates, Ops
  <2>4. CtlOK'
    BY <1>2, <1>t DEF ShrinkJoin, TypeOK, CtlOK
  <2>5. RunningOK'
    BY <1>2, <2>0, <1>t, <1>u, ThreadPoolAssumption DEF ShrinkJoin, RunningOK
  <2>6. PermitsBalance'
    BY <1>2, <2>1, <1>c, <1>t
       DEF ShrinkJoin, TypeOK, CtlOK, PermitsBalance, BarrierSize, a
  <2>7. ThreadsAccounted'
    BY <1>2, <2>1, <2>2, <1>c, <1>t
       DEF ShrinkJoin, TypeOK, CtlOK, ThreadsAccounted, AllocatedThreads, StopsOwed, l, s
  <2>8. QED
    BY <2>3, <2>4, <2>5, <2>6, <2>7 DEF IInv
<1>3. CASE PopPause(w)
  <2>0. worker' = [worker EXCEPT ![w] = "acquire"] /\ worker[w] = "pop"
    BY <1>3 DEF PopPause
  <2>1. a' = a + 1 /\ l' = l /\ s' = s
    BY <2>0, <1>t, CountStep, ZenonT(30) DEF WorkerStates
  <2>2. At({"gone"})' = At({"gone"})
    BY <2>0, <1>u DEF At
  <2> HIDE DEF a, l, s
  <2>3. TypeOK'
    BY <1>3, <2>0, <1>t DEF PopPause, TypeOK, CtlOK, RunningOK, WorkerStates, Ops
  <2>4. CtlOK'
    BY <1>3, <1>t DEF PopPause, TypeOK, CtlOK
  <2>5. RunningOK'
    BY <1>3, <2>0, <1>t, <1>u, ThreadPoolAssumption DEF PopPause, RunningOK
  <2>6. PermitsBalance'
    BY <1>3, <2>1, <1>c, <1>t
       DEF PopPause, TypeOK, CtlOK, PermitsBalance, BarrierSize, a
  <2>7. ThreadsAccounted'
    BY <1>3, <2>1, <2>2, <1>c, <1>t
       DEF PopPause, TypeOK, CtlOK, ThreadsAccounted, AllocatedThreads, StopsOwed, l, s
  <2>8. QED
    BY <2>3, <2>4, <2>5, <2>6, <2>7 DEF IInv
<1>4. CASE AcquirePause(w)
  <2>0. worker' = [worker EXCEPT ![w] = "pop"] /\ worker[w] = "acquire"
    BY <1>4 DEF AcquirePause
  <2>1. a' = a - 1 /\ l' = l /\ s' = s
    BY <2>0, <1>t, CountStep, ZenonT(30) DEF WorkerStates
  <2>2. At({"gone"})' = At({"gone"})
    BY <2>0, <1>u DEF At
  <2> HIDE DEF a, l, s
  <2>3. TypeOK'
    BY <1>4, <2>0, <1>t DEF AcquirePause, TypeOK, CtlOK, RunningOK, WorkerStates, Ops
  <2>4. CtlOK'
    BY <1>4, <1>t DEF AcquirePause, TypeOK, CtlOK
  <2>5. RunningOK'
    BY <1>4, <2>0, <1>t, <1>u, ThreadPoolAssumption DEF AcquirePause, RunningOK
  <2>6. PermitsBalance'
    BY <1>4, <2>1, <1>c, <1>t
       DEF AcquirePause, TypeOK, CtlOK, PermitsBalance, BarrierSize, a
  <2>7. ThreadsAccounted'
    BY <1>4, <2>1, <2>2, <1>c, <1>t
       DEF AcquirePause, TypeOK, CtlOK, ThreadsAccounted, AllocatedThreads, StopsOwed, l, s
  <2>8. QED
    BY <2>3, <2>4, <2>5, <2>6, <2>7 DEF IInv
<1>5. CASE FinishTask(w)
  <2>0. worker' = [worker EXCEPT ![w] = "pop"] /\ worker[w] = "run"
    BY <1>5 DEF FinishTask
  <2>1. a' = a /\ l' = l /\ s' = s
    BY <2>0, <1>t, CountStep, ZenonT(30) DEF WorkerStates
  <2>2. At({"gone"})' = At({"gone"})
    BY <2>0, <1>u DEF At
  <2> HIDE DEF a, l, s
  <2>3. TypeOK'
    BY <1>5, <2>0, <1>t DEF FinishTask, TypeOK, CtlOK, RunningOK, WorkerStates, Ops
  <2>4. CtlOK'
    BY <1>5, <1>t DEF FinishTask, TypeOK, CtlOK
  <2>5. RunningOK'
    BY <1>5, <2>0, <1>t, <1>u, ThreadPoolAssumption DEF FinishTask, RunningOK
  <2>6. PermitsBalance'
    BY <1>5, <2>1, <1>c, <1>t
       DEF FinishTask, TypeOK, CtlOK, PermitsBalance, BarrierSize, a
  <2>7. ThreadsAccounted'
    BY <1>5, <2>1, <2>2, <1>c, <1>t
       DEF FinishTask, TypeOK, CtlOK, ThreadsAccounted, AllocatedThreads, StopsOwed, l, s
  <2>8. QED
    BY <2>3, <2>4, <2>5, <2>6, <2>7 DEF IInv
<1>6. CASE PopStop(w)
  <2>0. worker' = [worker EXCEPT ![w] = "stopping"] /\ worker[w] = "pop"
    BY <1>6 DEF PopStop
  <2>1. a' = a /\ l' = l /\ s' = s + 1
    BY <2>0, <1>t, CountStep, ZenonT(30) DEF WorkerStates
  <2>2. At({"gone"})' = At({"gone"})
    BY <2>0, <1>u DEF At
  <2> HIDE DEF a, l, s
  <2>3. TypeOK'
    BY <1>6, <2>0, <1>t DEF PopStop, TypeOK, CtlOK, RunningOK, WorkerStates, Ops
  <2>4. CtlOK'
    BY <1>6, <1>t DEF PopStop, TypeOK, CtlOK
  <2>5. RunningOK'
    BY <1>6, <2>0, <1>t, <1>u, ThreadPoolAssumption DEF PopStop, RunningOK
  <2>6. PermitsBalance'
    BY <1>6, <2>1, <1>c, <1>t
       DEF PopStop, TypeOK, CtlOK, PermitsBalance, BarrierSize, a
  <2>7. ThreadsAccounted'
    BY <1>6, <2>1, <2>2, <1>c, <1>t
       DEF PopStop, TypeOK, CtlOK, ThreadsAccounted, AllocatedThreads, StopsOwed, l, s
  <2>8. QED
    BY <2>3, <2>4, <2>5, <2>6, <2>7 DEF IInv
<1>7. CASE ExitLoop(w)
  <2>0. worker' = [worker EXCEPT ![w] = "gone"] /\ worker[w] = "stopping"
    BY <1>7 DEF ExitLoop
  <2>1. a' = a /\ l' = l /\ s' = s
    BY <2>0, <1>t, CountStep, ZenonT(30) DEF WorkerStates
  <2>2. At({"gone"})' = At({"gone"}) \union {w}
    BY <2>0, <1>u DEF At
  <2> HIDE DEF a, l, s
  <2>3. TypeOK'
    BY <1>7, <2>0, <1>t DEF ExitLoop, TypeOK, CtlOK, RunningOK, WorkerStates, Ops
  <2>4. CtlOK'
    BY <1>7, <1>t DEF ExitLoop, TypeOK, CtlOK
  <2>5. RunningOK'
    BY <1>7, <2>0, <1>t, <1>u, ThreadPoolAssumption DEF ExitLoop, RunningOK
  <2>6. PermitsBalance'
    BY <1>7, <2>1, <1>c, <1>t
       DEF ExitLoop, TypeOK, CtlOK, PermitsBalance, BarrierSize, a
  <2>7. ThreadsAccounted'
    BY <1>7, <2>1, <2>2, <1>c, <1>t
       DEF ExitLoop, TypeOK, CtlOK, ThreadsAccounted, AllocatedThreads, StopsOwed, l, s
  <2>8. QED
    BY <2>3, <2>4, <2>5, <2>6, <2>7 DEF IInv
<1>8. ASSUME NEW t \in Tasks, PopTask(w, t) PROVE IInv'
  <2>0. worker' = [worker EXCEPT ![w] = "run"] /\ worker[w] = "pop"
    BY <1>8 DEF PopTask
  <2>1. a' = a /\ l' = l /\ s' = s
    BY <2>0, <1>t, CountStep, ZenonT(30) DEF WorkerStates
  <2>2. At({"gone"})' = At({"gone"})
    BY <2>0, <1>u DEF At
  <2> HIDE DEF a, l, s
  <2>3. TypeOK'
    BY <1>8, <2>0, <1>t DEF PopTask, TypeOK, CtlOK, RunningOK, WorkerStates, Ops
  <2>4. CtlOK'
    BY <1>8, <1>t DEF PopTask, TypeOK, CtlOK
  <2>5. RunningOK'
    BY <1>8, <2>0, <1>t, <1>u, ThreadPoolAssumption DEF PopTask, RunningOK
  <2>6. PermitsBalance'
    BY <1>8, <2>1, <1>c, <1>t
       DEF PopTask, TypeOK, CtlOK, PermitsBalance, BarrierSize, a
  <2>7. ThreadsAccounted'
    BY <1>8, <2>1, <2>2, <1>c, <1>t
       DEF PopTask, TypeOK, CtlOK, ThreadsAccounted, AllocatedThreads, StopsOwed, l, s
  <2>8. QED
    BY <2>3, <2>4, <2>5, <2>6, <2>7 DEF IInv
<1>9. QED
  BY <1>1, <1>2, <1>3, <1>4, <1>5, <1>6, <1>7, <1>8 DEF WorkerStep

\* Every step preserves the invariant.
LEMMA NextIInv == IInv /\ [Next]_vars => IInv'
<1> SUFFICES ASSUME IInv, [Next]_vars PROVE IInv'
  OBVIOUS
<1>0. Cardinality(Workers) \in Nat
  BY FS_CardinalityType, ThreadPoolAssumption
<1>1. CASE \E t \in Tasks : Add(t)
  BY <1>1, AddIInv
<1>2. CASE Run \/ Pause \/ PauseAdd \/ StretchAdd \/ ShrinkAdd \/ ShrinkRelease
  BY <1>2, ControllerIInv
<1>3. CASE Stop
  BY <1>0, <1>3, ControllerIInv DEF Stop
<1>4. CASE \E n \in 1 .. Cardinality(Workers) : SetNumOfThreads(n)
  BY <1>0, <1>4, ControllerIInv
<1>5. CASE \E w \in Workers : StretchNew(w) \/ ShrinkJoin(w) \/ WorkerStep(w)
  BY <1>5, WorkerIInv
<1>6. CASE UNCHANGED vars
  <2>1. \A S : Count(S)' = Count(S) /\ At(S)' = At(S)
    BY <1>6 DEF vars, Count, At
  <2>2. TypeOK' /\ CtlOK' /\ RunningOK'
    BY <1>6 DEF vars, IInv, TypeOK, CtlOK, RunningOK
  <2>3. PermitsBalance' /\ ThreadsAccounted'
    BY <1>6, <2>1 DEF vars, IInv, PermitsBalance, BarrierSize, ThreadsAccounted,
                      AllocatedThreads, StopsOwed
  <2>4. QED
    BY <2>2, <2>3 DEF IInv
<1>7. QED
  BY <1>1, <1>2, <1>3, <1>4, <1>5, <1>6 DEF Next, ControllerStep

\* The inductive invariant holds in every reachable state of the pool.
THEOREM PoolInvariant == Spec => []IInv
<1>1. QED
  BY InitIInv, NextIInv, PTL DEF Spec

\* The variables of the pool, its workers and its controller keep their types.
THEOREM TypeCorrect == Spec => []TypeOK
<1>1. IInv => TypeOK
  BY DEF IInv
<1>2. QED
  BY <1>1, PoolInvariant, PTL

\* The permits of m_sem_pause balance the pause entries, for every number of
\* workers and of tasks.
THEOREM PermitsBalanced == Spec => []PermitsBalance
<1>1. IInv => PermitsBalance
  BY DEF IInv
<1>2. QED
  BY <1>1, PoolInvariant, PTL

\* No WorkerThread is lost or deleted twice by a resize.
THEOREM NoThreadLost == Spec => []ThreadsAccounted
<1>1. IInv => ThreadsAccounted
  BY DEF IInv
<1>2. QED
  BY <1>1, PoolInvariant, PTL

\* A worker at pop() is one of the pool's threads that is not at the barrier.
LEMMA PopNotAtBarrier ==
  ASSUME TypeOK, NEW w \in Workers, worker[w] = "pop"
  PROVE  Count({"acquire"}) < Count(WorkerStates \ {"none"})
<1>1. At({"acquire"}) \subseteq At(WorkerStates \ {"none"})
  BY DEF At, WorkerStates
<1>2. w \in At(WorkerStates \ {"none"}) /\ w \notin At({"acquire"})
  BY DEF At, WorkerStates
<1>3. IsFiniteSet(At(WorkerStates \ {"none"}))
  BY FS_Subset, ThreadPoolAssumption DEF At
<1>4. /\ Count({"acquire"}) <= Count(WorkerStates \ {"none"})
      /\ Count({"acquire"}) # Count(WorkerStates \ {"none"})
  BY <1>1, <1>2, <1>3, FS_Subset DEF Count
<1>5. Count({"acquire"}) \in Nat /\ Count(WorkerStates \ {"none"}) \in Nat
  BY CountNat
<1>6. QED
  BY <1>4, <1>5

\* Pause() is a barrier for every number of workers and tasks: while the pool
\* is paused there is a pause entry for every worker that is not waiting, and
\* it is in front of every task.
THEOREM PauseIsBarrier == Spec => PauseHolds
<1> DEFINE A == \A w \in Workers :
                  worker[w] = "pop" /\ worker'[w] = "run" /\ m_is_paused
                    => ctl.op \in {"pause", "join"}
<1>1. ASSUME IInv, [Next]_vars PROVE A
  <2> SUFFICES ASSUME NEW w \in Workers, worker[w] = "pop", worker'[w] = "run",
                      m_is_paused, ctl.op \notin {"pause", "join"}
               PROVE  FALSE
    OBVIOUS
  <2>t. TypeOK /\ CtlOK /\ PermitsBalance /\ ThreadsAccounted
    BY <1>1 DEF IInv
  <2>1. PICK t \in Tasks : PopTask(w, t)
    <3>1. worker \in [Workers -> WorkerStates]
      BY <2>t DEF TypeOK
    <3>2. worker' # worker
      OBVIOUS
    <3>3. PICK x \in Workers : StretchNew(x) \/ ShrinkJoin(x) \/ WorkerStep(x)
      BY <1>1, <3>2 DEF Next, ControllerStep, vars, Add, Run, Pause, PauseAdd,
         StretchAdd, ShrinkAdd, ShrinkRelease, Stop, SetNumOfThreads, workVars
    <3>4. \E t \in Tasks : PopTask(x, t)
      BY <3>1, <3>3 DEF WorkerStep, StretchNew, ShrinkJoin, PopPause,
         AcquirePause, FinishTask, PopStop, ExitLoop
    <3>5. x = w
      BY <3>1, <3>4 DEF PopTask
    <3>6. QED
      BY <3>4, <3>5
  <2>2. Count({"acquire"}) < Count(WorkerStates \ {"none"})
    BY <2>t, PopNotAtBarrier
  <2>3. Count({"acquire"}) \in Nat /\ Count(WorkerStates \ {"none"}) \in Nat
    BY CountNat
  <2>4. Count(WorkerStates \ {"none"}) = AllocatedThreads
    BY <2>t DEF ThreadsAccounted
  <2>5. AllocatedThreads <= BarrierSize
    BY <2>t DEF AllocatedThreads, BarrierSize, TypeOK, CtlOK, Ops
  <2>6. BarrierSize \in Int /\ AllocatedThreads \in Int
    BY <2>t DEF AllocatedThreads, BarrierSize, TypeOK, CtlOK, Ops
  <2>7. pauseApples > 0
    BY <2>t, <2>2, <2>3, <2>4, <2>5, <2>6 DEF PermitsBalance, TypeOK
  <2>8. PausePriority <= Priority[t]
    BY <2>1, <2>7 DEF PopTask, IsFront, QueuedPriorities
  <2>9. QED
    BY <2>8, ThreadPoolAssumption DEF PausePriority, LOW, HIGH
<1>2. QED
  BY <1>1, PoolInvariant, PTL DEF Spec, PauseHolds

-----------------------------------------------------------------------------
(* Shrinking drains the queue.                                              *)

\* The stop entries of this resize that have been added.
StopsAdded ==
  IF ctl.op = "shrinkAdd" THEN m_num_threads - ctl.target - ctl.left ELSE m_num_threads - ctl.target

\* The tasks that had been added before a resize began are still accounted for;
\* if one of them is still in m_tasks, no stop entry has been taken yet.
DrainInv ==
  /\ \A t \in ctl.before : t \in pending \/ t \in done \/ \E w \in Workers : running[w] = t
  /\ ctl.op \in {"shrinkAdd", "release", "join"} => ctl.before \intersect pending = {} \/ stopApples = StopsAdded

\* Nobody takes a stop entry while a task is in m_tasks.
LEMMA StopIsLast ==
  ASSUME TypeOK, NEW w \in Workers, PopStop(w)
  PROVE  pending = {}
<1> SUFFICES ASSUME NEW t \in pending PROVE FALSE
  OBVIOUS
<1>1. Priority[t] <= StopPriority
  BY DEF PopStop, IsFront, QueuedPriorities
<1>2. Priority[t] \in LOW .. HIGH
  BY ThreadPoolAssumption DEF TypeOK
<1> QED
  BY <1>1, <1>2 DEF StopPriority, LOW, HIGH

LEMMA NextDrainInv == IInv /\ DrainInv /\ [Next]_vars => DrainInv'
<1> SUFFICES ASSUME IInv, DrainInv, [Next]_vars PROVE DrainInv'
  OBVIOUS
<1>t. TypeOK /\ CtlOK /\ RunningOK
  BY DEF IInv
<1> USE DEF queueVars, poolVars, workVars, Idle
<1>1. ASSUME NEW t \in Tasks, Add(t) PROVE DrainInv'
  <2>1. /\ pending' = pending \union {t} /\ done' = done \ {t}
        /\ UNCHANGED <<stopApples, m_num_threads, running>>
    BY <1>1 DEF Add
  <2>2. /\ ctl'.before = ctl.before \ {t}
        /\ ctl'.op = ctl.op /\ ctl'.left = ctl.left /\ ctl'.target = ctl.target
    BY <1>1, <1>t DEF Add, TypeOK
  <2>3. StopsAdded' = StopsAdded
    BY <2>1, <2>2 DEF StopsAdded
  <2> QED
    BY <2>1, <2>2, <2>3 DEF DrainInv
<1>2. CASE Run
  BY <1>2 DEF Run, DrainInv, StopsAdded
<1>3. CASE Pause
  <2>1. ctl'.before = {} /\ ctl'.op \notin {"shrinkAdd", "release", "join"}
    BY <1>3 DEF Pause
  <2> QED
    BY <2>1 DEF DrainInv
<1>4. CASE PauseAdd
  <2>1. ctl'.op \notin {"shrinkAdd", "release", "join"} /\ ctl'.before \subseteq ctl.before
    BY <1>4, <1>t DEF PauseAdd, TypeOK
  <2>2. UNCHANGED <<pending, done, running>>
    BY <1>4 DEF PauseAdd
  <2> QED
    BY <2>1, <2>2 DEF DrainInv
<1>5. ASSUME NEW n \in Nat, SetNumOfThreads(n) PROVE DrainInv'
  <2>1. /\ ctl'.op \in {"shrinkAdd", "stretchAdd", "stretchNew"} /\ ctl'.target = n
        /\ ctl'.op = "shrinkAdd" => ctl'.left = m_num_threads - n
        /\ ctl'.before = pending \union {running[w] : w \in At({"run"})}
        /\ ctl.op = "idle" /\ UNCHANGED <<pending, done, running, stopApples, m_num_threads, worker>>
    BY <1>5 DEF SetNumOfThreads
  <2>2. \A u \in ctl'.before : u \in pending \/ \E w \in Workers : running[w] = u
    BY <2>1 DEF At
  <2>3. stopApples = 0
    <3>1. stopApples + Count({"stopping", "gone"}) = 0
      BY <2>1 DEF IInv, ThreadsAccounted, StopsOwed
    <3> QED
      BY <1>t, <3>1, CountNat DEF TypeOK
  <2>4. ctl'.op = "shrinkAdd" => stopApples = m_num_threads - ctl'.target - ctl'.left
    BY <1>t, <2>1, <2>3 DEF TypeOK
  <2> QED
    BY <2>1, <2>2, <2>4 DEF DrainInv, StopsAdded
<1>6. CASE StretchAdd
  <2>1. ctl'.op \notin {"shrinkAdd", "release", "join"} /\ ctl'.before = ctl.before
    BY <1>6, <1>t DEF StretchAdd, TypeOK
  <2>2. UNCHANGED <<pending, done, running>>
    BY <1>6 DEF StretchAdd
  <2> QED
    BY <2>1, <2>2 DEF DrainInv
<1>7. ASSUME NEW w \in Workers, StretchNew(w) PROVE DrainInv'
  <2>1. ctl'.op \notin {"shrinkAdd", "release", "join"} /\ ctl'.before \subseteq ctl.before
    BY <1>7, <1>t DEF StretchNew, TypeOK
  <2>2. UNCHANGED <<pending, done, running>>
    BY <1>7 DEF StretchNew
  <2> QED
    BY <2>1, <2>2 DEF DrainInv
<1>8. CASE ShrinkAdd
  <2>1. /\ ctl.op = "shrinkAdd" /\ stopApples' = stopApples + 1 /\ UNCHANGED <<pending, done, running, m_num_threads>>
        /\ ctl.left \in 1 .. m_num_threads - ctl.target
    BY <1>8, <1>t DEF ShrinkAdd, CtlOK
  <2>2. /\ ctl'.before = ctl.before /\ ctl'.target = ctl.target
        /\ ctl'.op = IF ctl.left = 1 THEN "release" ELSE "shrinkAdd"
        /\ ctl.left # 1 => ctl'.left = ctl.left - 1
    BY <1>8, <1>t DEF ShrinkAdd, TypeOK
  <2>3. stopApples = StopsAdded => stopApples' = StopsAdded'
    BY <1>t, <2>1, <2>2 DEF StopsAdded, TypeOK
  <2> QED
    BY <2>1, <2>2, <2>3 DEF DrainInv
<1>9. CASE ShrinkRelease
  <2>1. ctl.op = "release" /\ ctl' = [ctl EXCEPT !.op = "join"] /\ UNCHANGED <<pending, done, running, m_num_threads, stopApples>>
    BY <1>9 DEF ShrinkRelease
  <2>2. ctl'.op = "join" /\ ctl'.before = ctl.before /\ ctl'.target = ctl.target
    BY <1>t, <2>1 DEF TypeOK
  <2> QED
    BY <2>1, <2>2 DEF DrainInv, StopsAdded
<1>10. ASSUME NEW w \in Workers, ShrinkJoin(w) PROVE DrainInv'
  <2>1. ctl.op = "join" /\ UNCHANGED <<pending, done, running, stopApples>>
    BY <1>10 DEF ShrinkJoin
  <2>2. CASE ctl.left = 1
    BY <1>10, <2>1, <2>2 DEF ShrinkJoin, DrainInv
  <2>3. CASE ctl.left # 1
    <3>1. ctl' = [ctl EXCEPT !.left = @ - 1] /\ UNCHANGED m_num_threads
      BY <1>10, <2>3 DEF ShrinkJoin
    <3>2. ctl'.op = "join" /\ ctl'.before = ctl.before /\ ctl'.target = ctl.target
      BY <1>t, <2>1, <3>1 DEF TypeOK
    <3> QED
      BY <2>1, <3>1, <3>2 DEF DrainInv, StopsAdded
  <2> QED
    BY <2>2, <2>3
<1>11. ASSUME NEW w \in Workers, PopPause(w) \/ AcquirePause(w) \/ ExitLoop(w) PROVE DrainInv'
  BY <1>11 DEF PopPause, AcquirePause, ExitLoop, DrainInv, StopsAdded
<1>12. ASSUME NEW w \in Workers, NEW t \in Tasks, PopTask(w, t) PROVE DrainInv'
  <2>1. /\ pending' = pending \ {t} /\ running' = [running EXCEPT ![w] = t] /\ worker[w] = "pop"
        /\ UNCHANGED <<done, ctl, stopApples, m_num_threads>>
    BY <1>12 DEF PopTask
  <2>2. running[w] \notin Tasks /\ ctl.before \subseteq Tasks /\ running \in [Workers -> Tasks \union {NoTask}]
    BY <1>t, <2>1 DEF RunningOK, TypeOK
  <2>3. \A u \in ctl.before : u \in pending' \/ u \in done' \/ \E x \in Workers : running'[x] = u
    BY <2>1, <2>2 DEF DrainInv
  <2> QED
    BY <2>1, <2>3 DEF DrainInv, StopsAdded
<1>13. ASSUME NEW w \in Workers, FinishTask(w) PROVE DrainInv'
  <2>1. /\ done' = done \union {running[w]} /\ running' = [running EXCEPT ![w] = NoTask]
        /\ UNCHANGED <<pending, ctl, stopApples, m_num_threads>>
    BY <1>13 DEF FinishTask
  <2>2. running \in [Workers -> Tasks \union {NoTask}]
    BY <1>t DEF TypeOK
  <2>3. \A u \in ctl.before : u \in pending' \/ u \in done' \/ \E x \in Workers : running'[x] = u
    BY <2>1, <2>2 DEF DrainInv
  <2> QED
    BY <2>1, <2>3 DEF DrainInv, StopsAdded
<1>14. ASSUME NEW w \in Workers, PopStop(w) PROVE DrainInv'
  <2>1. pending = {} /\ UNCHANGED <<pending, done, ctl, running>>
    BY <1>14, <1>t, StopIsLast DEF PopStop
  <2> QED
    BY <2>1 DEF DrainInv
<1>15. CASE UNCHANGED vars
  BY <1>15 DEF vars, DrainInv, StopsAdded
<1>16. Cardinality(Workers) \in Nat
  BY FS_CardinalityType, ThreadPoolAssumption
<1>17. CASE Stop \/ \E n \in 1 .. Cardinality(Workers) : SetNumOfThreads(n)
  BY <1>5, <1>16, <1>17 DEF Stop
<1> QED
  BY <1>1, <1>2, <1>3, <1>4, <1>6, <1>7, <1>8, <1>9, <1>10, <1>11, <1>12, <1>13, <1>14, <1>15, <1>17
     DEF Next, ControllerStep, WorkerStep

\* Shrinking drains the queue, for every number of workers and tasks: a stop
\* entry is only taken when no task is left in m_tasks, and ShrinkThreads
\* returns after every stop entry has been obeyed.
THEOREM ShrinkingDrains == Spec => ShrinkDrains
<1> DEFINE A == ctl.op = "join" /\ ctl'.op = "idle"
                  => /\ ctl.before \intersect pending' = {}
                     /\ ctl.target = 0 => ctl.before \subseteq done'
<1>1. ASSUME IInv, DrainInv, [Next]_vars PROVE A
  <2> SUFFICES ASSUME ctl.op = "join", ctl'.op = "idle"
               PROVE  /\ ctl.before \intersect pending' = {}
                      /\ ctl.target = 0 => ctl.before \subseteq done'
    OBVIOUS
  <2>t. TypeOK /\ CtlOK /\ RunningOK /\ ThreadsAccounted
    BY <1>1 DEF IInv
  <2>a. ~ \E t \in Tasks : Add(t)
    BY <2>t DEF Add, TypeOK
  <2>1. PICK w \in Workers : ShrinkJoin(w)
    BY <1>1, <2>a DEF Next, vars, ControllerStep, WorkerStep, Run, Pause, PauseAdd, StretchAdd, StretchNew, ShrinkAdd,
       ShrinkRelease, Stop, SetNumOfThreads, PopPause, AcquirePause, PopTask, FinishTask, PopStop, ExitLoop
  <2>2. w \in At({"gone"}) /\ UNCHANGED <<pending, done, running>>
    BY <2>1, <2>t DEF ShrinkJoin, ThreadsAccounted, queueVars
  <2>3. ctl.left = 1
    <3> SUFFICES ASSUME ctl.left # 1 PROVE FALSE
      OBVIOUS
    <3>1. ctl' = [ctl EXCEPT !.left = @ - 1]
      BY <2>1 DEF ShrinkJoin
    <3> QED
      BY <2>t, <3>1 DEF TypeOK
  <2>4. stopApples = 0
    <3>1. Count({"stopping", "gone"}) # 0 /\ Count({"stopping", "gone"}) \in Nat
      <4>1. IsFiniteSet(At({"stopping", "gone"})) /\ w \in At({"stopping", "gone"})
        BY <2>2, FS_Subset, ThreadPoolAssumption DEF At
      <4> QED
        BY <4>1, FS_EmptySet, FS_CardinalityType DEF Count
    <3>2. stopApples + Count({"stopping", "gone"}) = 1
      BY <2>3, <2>t DEF ThreadsAccounted, StopsOwed
    <3> QED
      BY <2>t, <3>1, <3>2 DEF TypeOK
  <2>5. ctl.before \intersect pending = {}
    <3>1. StopsAdded = m_num_threads - ctl.target /\ StopsAdded # 0
      BY <2>t, <2>3 DEF StopsAdded, CtlOK, TypeOK
    <3> QED
      BY <1>1, <2>4, <3>1 DEF DrainInv
  <2>6. ASSUME ctl.target = 0 PROVE ctl.before \subseteq done
    <3>1. \A x \in Workers : running[x] \notin Tasks
      <4> SUFFICES ASSUME NEW x \in Workers, worker[x] = "run" PROVE FALSE
        BY <2>t DEF RunningOK
      <4> DEFINE L == At(WorkerStates \ {"none"})
      <4>1. w \in L /\ x \in L /\ w # x
        BY <2>2 DEF At, WorkerStates
      <4>2. IsFiniteSet(L)
        BY FS_Subset, ThreadPoolAssumption DEF At
      <4>3. Cardinality(L) = 1
        BY <2>3, <2>6, <2>t DEF ThreadsAccounted, AllocatedThreads, Count
      <4> HIDE DEF L
      <4>4. PICK y : L = {y}
        BY <4>2, <4>3, FS_Singleton
      <4> QED
        BY <4>1, <4>4
    <3>2. ctl.before \subseteq Tasks
      BY <2>t DEF TypeOK
    <3> QED
      BY <1>1, <2>5, <3>1, <3>2 DEF DrainInv
  <2> QED
    BY <2>2, <2>5, <2>6
<1>2. Init => DrainInv
  BY DEF Init, Idle, DrainInv
<1> QED
  BY <1>1, <1>2, InitIInv, NextIInv, NextDrainInv, PTL DEF Spec, ShrinkDrains

=============================================================================
