-------------------------------- MODULE Sched --------------------------------
(***************************************************************************)
(* The task scheduler (projects/sched: sched.c, task.c) on the heap.  One  *)
(* thread: the caller adds and removes tasks and calls SchedRun; SchedRun  *)
(* takes the earliest task out of the heap, sleeps, and calls its op_func, *)
(* which may itself call any function of the scheduler but SchedRun.       *)
(*                                                                         *)
(* A task's time_to_execute is kept relative to time(NULL): left is what   *)
(* remains of it, negative when it is late, and every second takes one off *)
(* all of them.                                                            *)
(***************************************************************************)
EXTENDS Integers, Sequences, SequencesExt

CONSTANTS
  Tasks,       \* tasks that will be added, by uid
  Intervals,   \* seconds asked for by SchedAdd or returned by op_func
  MaxLate      \* bound on how late a task may get

ASSUME SchedAssumption == Intervals \subseteq Nat /\ MaxLate \in Nat

VARIABLES
  heap,        \* of tasks [uid, left]
  stop_flag,
  had_fail,
  running,     \* the task SchedRun has taken out of the heap: a set
  pc,          \* caller (not in SchedRun), loop, sleep, op
  status,      \* what the last SchedRun returned
  created,     \* tasks that have been added
  cleaned,     \* how often TaskDestroy was called for each task
  removed      \* the last SchedRemove: was the task there, is it, the result

vars == <<heap, stop_flag, had_fail, running, pc, status, created, cleaned, removed>>

Uids(tasks) == {x.uid : x \in tasks}
Queued == Uids(ToSet(heap))

\* Mutant: TaskCmp's arguments are not swapped.
MutWrapperTaskCmp(x, y) ==
  IF x.left < y.left THEN -1 ELSE IF x.left > y.left THEN 1 ELSE 0

\* TaskCmp with its arguments swapped: the earliest task is the largest.
WrapperTaskCmp(x, y) ==
  IF y.left < x.left THEN -1 ELSE IF y.left > x.left THEN 1 ELSE 0

Ops == INSTANCE HeapOps WITH Compare <- WrapperTaskCmp

\* TaskIsMatch returns what UIDIsSame returns: 1 for the same uid.
WrapperTaskIsMatch(x, uid) == IF x.uid = uid THEN 1 ELSE 0

\* TaskDestroy calls cleanup_func.
TaskDestroy(uids) ==
  cleaned' = [t \in Tasks |-> IF t \in uids THEN cleaned[t] + 1 ELSE cleaned[t]]

\* The functions may be called outside of SchedRun and from an op_func.
Callable == pc \in {"caller", "op"}

-----------------------------------------------------------------------------
SchedAdd(t, interval) ==
  /\ Callable
  /\ t \notin created
  /\ created' = created \union {t}
  /\ heap' = Ops!Push(heap, [uid |-> t, left |-> interval])
  /\ UNCHANGED <<stop_flag, had_fail, running, pc, status, cleaned, removed>>

SchedRemove(t) ==
  LET i == Ops!RemoveIndex([j \in DOMAIN heap |-> WrapperTaskIsMatch(heap[j], t)]) IN
  /\ Callable
  /\ t \in created
  /\ IF i = 0
     THEN UNCHANGED <<heap, cleaned>>
     ELSE heap' = Ops!Removed(heap, i) /\ TaskDestroy({heap[i].uid})
  /\ removed' = [had |-> t \in Queued, has |-> t \in Queued', result |-> IF i = 0 THEN 1 ELSE 0]
  /\ UNCHANGED <<stop_flag, had_fail, running, pc, status, created>>

\* Mutant: the task that is being executed is destroyed as well.
MutSchedClear ==
  /\ Callable
  /\ heap # << >>
  /\ heap' = << >>
  /\ TaskDestroy(Queued \union Uids(running))
  /\ UNCHANGED <<stop_flag, had_fail, running, pc, status, created, removed>>

SchedClear ==
  /\ Callable
  /\ heap # << >>
  /\ heap' = << >>
  /\ TaskDestroy(Queued)
  /\ UNCHANGED <<stop_flag, had_fail, running, pc, status, created, removed>>

SchedStop ==
  /\ Callable
  /\ stop_flag' = 1
  /\ UNCHANGED <<heap, had_fail, running, pc, status, created, cleaned, removed>>

SchedRun ==
  /\ pc = "caller"
  /\ pc' = "loop"
  /\ stop_flag' = 0
  /\ had_fail' = 0
  /\ UNCHANGED <<heap, running, status, created, cleaned, removed>>

\* Mutant: the loop runs until the heap is empty.
MutGoesOn == heap # << >>

\* The condition of SchedRun's loop.
GoesOn == stop_flag = 0 /\ heap # << >>

\* HeapPeek, HeapPop, and sleep for TaskGetTimeToRun.
TakeEarliest ==
  /\ pc = "loop" /\ GoesOn
  /\ running' = {Head(heap)}
  /\ heap' = Ops!Pop(heap)
  /\ pc' = "sleep"
  /\ UNCHANGED <<stop_flag, had_fail, status, created, cleaned, removed>>

\* sleep has returned 0 and TaskRun calls op_func.
TaskRun ==
  /\ pc = "sleep"
  /\ \A x \in running : x.left <= 0
  /\ pc' = "op"
  /\ UNCHANGED <<heap, stop_flag, had_fail, running, status, created, cleaned, removed>>

\* op_func returns a negative number or zero: the task is destroyed.
TaskEnds(result) ==
  /\ pc = "op"
  /\ had_fail' = IF result < 0 THEN 1 ELSE had_fail
  /\ TaskDestroy(Uids(running))
  /\ running' = {}
  /\ pc' = "loop"
  /\ UNCHANGED <<heap, stop_flag, status, created, removed>>

\* Mutant: TaskSetTimeToRun is forgotten.
MutTaskAgain(result) ==
  /\ pc = "op"
  /\ result > 0
  /\ \E x \in running : heap' = Ops!Push(heap, x)
  /\ running' = {}
  /\ pc' = "loop"
  /\ UNCHANGED <<stop_flag, had_fail, status, created, cleaned, removed>>

\* op_func returns the seconds until its next run: TaskSetTimeToRun, HeapPush.
TaskAgain(result) ==
  /\ pc = "op"
  /\ result > 0
  /\ \E x \in running : heap' = Ops!Push(heap, [x EXCEPT !.left = result])
  /\ running' = {}
  /\ pc' = "loop"
  /\ UNCHANGED <<stop_flag, had_fail, status, created, cleaned, removed>>

\* ComputeExitStatus: a failed task shows even when others are left.
ComputeExitStatus ==
  IF had_fail = 1
  THEN IF heap = << >> THEN "FAILED_TASKS_EMPTY_SCHED" ELSE "FAILED_TASKS_NON_EMPTY_SCHED"
  ELSE IF heap = << >> THEN "SUCCESS" ELSE "PAUSED"

SchedRunReturns ==
  /\ pc = "loop" /\ ~GoesOn
  /\ status' = ComputeExitStatus
  /\ pc' = "caller"
  /\ UNCHANGED <<heap, stop_flag, had_fail, running, created, cleaned, removed>>

\* A second passes, in op_func, in sleep or between the caller's calls.
Tick ==
  /\ pc # "loop"
  /\ \A x \in ToSet(heap) \union running : x.left > -MaxLate
  /\ heap' = [i \in DOMAIN heap |-> [heap[i] EXCEPT !.left = @ - 1]]
  /\ running' = {[x EXCEPT !.left = @ - 1] : x \in running}
  /\ UNCHANGED <<stop_flag, had_fail, pc, status, created, cleaned, removed>>

-----------------------------------------------------------------------------
Init ==
  /\ heap = << >> /\ running = {}
  /\ stop_flag = 0 /\ had_fail = 0
  /\ pc = "caller"
  /\ status = "none"
  /\ created = {}
  /\ cleaned = [t \in Tasks |-> 0]
  /\ removed = [had |-> FALSE, has |-> FALSE, result |-> 1]

OpReturns ==
  \/ \E result \in {-1, 0} : TaskEnds(result)
  \/ \E result \in Intervals : TaskAgain(result)

RunStep == TakeEarliest \/ TaskRun \/ SchedRunReturns

Call ==
  \/ \E t \in Tasks : SchedRemove(t) \/ \E interval \in Intervals : SchedAdd(t, interval)
  \/ SchedClear
  \/ SchedStop
  \/ SchedRun

Next == Call \/ OpReturns \/ RunStep \/ Tick

Spec == Init /\ [][Next]_vars

\* SchedRun goes on, seconds pass while it sleeps, and op_funcs return.
FairSpec ==
  /\ Spec
  /\ WF_vars(RunStep)
  /\ WF_vars(pc = "sleep" /\ Tick)
  /\ WF_vars(OpReturns)

-----------------------------------------------------------------------------
(* Properties.                                                              *)

\* Every task that was added is in one place: once in the heap, being
\* executed, or destroyed once.  So no cleanup is missed or done twice,
\* whatever an op_func does to the scheduler that is executing it.
OneOwner ==
  /\ Cardinality(Queued) = Len(heap)
  /\ \A t \in Tasks :
       cleaned[t] + Cardinality({x \in ToSet(heap) \union running : x.uid = t})
         = IF t \in created THEN 1 ELSE 0
  /\ running # {} <=> pc \in {"sleep", "op"}

\* SchedRun executes the task that is due first.
EarliestFirst ==
  [][ pc = "loop" /\ pc' = "sleep" =>
        \A x \in running', y \in ToSet(heap') : x.left <= y.left ]_vars

\* A stop that an op_func asks for ends SchedRun.
StopReturns == (pc = "op" /\ stop_flag = 1) ~> pc = "caller"

\* No task starves: while SchedRun runs, every task in the heap gets its turn,
\* whatever the others return.
EveryTaskServed ==
  \A t \in Tasks : (t \in Queued /\ pc = "loop") ~> (t \notin Queued \/ pc = "caller")

\* sched.h says of SchedRemove: "Remove a specific task identified by uid",
\* "Return: 0 on success (task removed), 1 if no such task exists."
RemoveRemoves ==
  IF removed.result = 0 THEN removed.had /\ ~removed.has ELSE ~removed.had

=============================================================================
