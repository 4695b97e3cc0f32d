----------------------------- MODULE ThreadPool -----------------------------
(***************************************************************************)
(* The thread pool of the plug-in framework (thread_pool.hpp/.cpp).        *)
(*                                                                         *)
(* A controller thread resizes, pauses and resumes the pool; any thread    *)
(* may Add a task; workers take the entry of highest priority from the     *)
(* waitable priority queue m_tasks and execute it.  Pausing and stopping   *)
(* are themselves entries of that queue: a "bad apple" of priority         *)
(* HIGH + 1 makes the worker that takes it wait for a permit of            *)
(* m_sem_pause, one of priority LOW - 1 makes it leave its loop.           *)
(*                                                                         *)
(* Every step below is one critical section of m_tasks,                    *)
(* m_threads_to_remove or m_sem_pause: nothing outside it is visible to    *)
(* another thread.  The waiting inside pop() is the subject of             *)
(* WaitableQueue; here pop() is enabled exactly when the queue is not      *)
(* empty.                                                                  *)
(***************************************************************************)
EXTENDS Integers, FiniteSets

CONSTANTS
  Workers,     \* WorkerThread objects the controller can have allocated
  Tasks,       \* user tasks; an executed one may be handed to Add again
  Priority,    \* the e_Priority each task is added with
  NoTask,      \* a worker that executes no user task
  MaxApples    \* bound on the pause entries in m_tasks

LOW    == 1
MEDIUM == 2
HIGH   == 3

ASSUME ThreadPoolAssumption ==
  /\ IsFiniteSet(Workers)
  /\ NoTask \notin Tasks
  /\ Priority \in [Tasks -> LOW .. HIGH]
  /\ MaxApples \in Nat

VARIABLES
  pending,              \* user tasks in m_tasks
  pauseApples,          \* BadAppleTaskPause entries in m_tasks
  stopApples,           \* BadAppleTaskStop entries in m_tasks
  m_num_threads,
  m_is_paused,
  m_sem_pause,          \* permits of the counting semaphore
  m_threads_to_remove,  \* workers that left their loop and await join()
  worker,               \* where each worker thread is
  running,              \* the user task each worker executes
  done,                 \* tasks executed since they were last added
  ctl                   \* the operation the controller is inside

vars == <<pending, pauseApples, stopApples, m_num_threads, m_is_paused,
          m_sem_pause, m_threads_to_remove, worker, running, done, ctl>>

queueVars == <<pending, pauseApples, stopApples>>
poolVars  == <<m_num_threads, m_is_paused>>
workVars  == <<worker, running, done>>

\* none: no such object; pop: at m_tasks.pop(); run: in a user task's
\* Execute(); acquire: in m_sem_pause.acquire(); stopping: m_is_alive is
\* false; gone: in m_threads_to_remove, to be joined and deleted.
WorkerStates == {"none", "pop", "run", "acquire", "stopping", "gone"}

\* The controller's position.  left counts the iterations the current loop
\* still has to make, target is the new number of threads of a resize, and
\* before are the tasks that had been added when the resize began and have
\* not been added anew since.
Idle == [op |-> "idle", left |-> 0, target |-> 0, before |-> {}]
Ops  == {"idle", "pause", "stretchAdd", "stretchNew", "shrinkAdd", "release",
         "join"}

At(states)    == {w \in Workers : worker[w] \in states}
Count(states) == Cardinality(At(states))

-----------------------------------------------------------------------------
(* The order of m_tasks: ThreadPool::Comp puts the greatest priority in     *)
(* front.  Entries of equal priority come out in any order, because         *)
(* std::priority_queue is not stable.                                       *)

\* Mutants: a pause entry no more urgent than a HIGH task; a stop entry that
\* overtakes the LOW tasks.
MutPausePriority == HIGH
MutStopPriority  == LOW + 1

PausePriority == HIGH + 1

StopPriority == LOW - 1

QueuedPriorities ==
  {Priority[t] : t \in pending}
    \union (IF pauseApples > 0 THEN {PausePriority} ELSE {})
    \union (IF stopApples > 0 THEN {StopPriority} ELSE {})

IsFront(p) == \A q \in QueuedPriorities : q <= p

-----------------------------------------------------------------------------
(* ThreadPool::Add, called by any thread of the program, for a task of      *)
(* Tasks that is not in the pool: new, or executed and added again, so that *)
(* the stream of tasks never ends.                                          *)
Add(t) ==
  /\ t \notin pending
  /\ \A w \in Workers : running[w] # t
  /\ pending' = pending \union {t}
  /\ done' = done \ {t}
  /\ ctl' = [ctl EXCEPT !.before = @ \ {t}]
  /\ UNCHANGED <<pauseApples, stopApples, poolVars, m_sem_pause,
                 m_threads_to_remove, worker, running>>

-----------------------------------------------------------------------------
(* The controller.                                                          *)

\* Mutant: the barrier is declared open, and nobody is let through.
MutRun ==
  /\ ctl.op = "idle"
  /\ m_is_paused
  /\ m_is_paused' = FALSE
  /\ UNCHANGED <<queueVars, m_num_threads, m_sem_pause, m_threads_to_remove,
                 workVars, ctl>>

\* ThreadPool::Run: one permit for every thread, then the flag.
Run ==
  /\ ctl.op = "idle"
  /\ m_is_paused
  /\ m_sem_pause' = m_sem_pause + m_num_threads
  /\ m_is_paused' = FALSE
  /\ UNCHANGED <<queueVars, m_num_threads, m_threads_to_remove, workVars, ctl>>

\* ThreadPool::Pause up to its loop.
Pause ==
  /\ ctl.op = "idle"
  /\ ~m_is_paused
  /\ pauseApples + m_num_threads <= MaxApples
  /\ m_is_paused' = TRUE
  /\ ctl' = [Idle EXCEPT !.op = IF m_num_threads > 0 THEN "pause" ELSE "idle",
                         !.left = m_num_threads]
  /\ UNCHANGED <<queueVars, m_num_threads, m_sem_pause, m_threads_to_remove,
                 workVars>>

\* One iteration of the loop of ThreadPool::Pause.
PauseAdd ==
  /\ ctl.op = "pause"
  /\ pauseApples' = pauseApples + 1
  /\ ctl' = IF ctl.left = 1 THEN Idle ELSE [ctl EXCEPT !.left = @ - 1]
  /\ UNCHANGED <<pending, stopApples, poolVars, m_sem_pause,
                 m_threads_to_remove, workVars>>

\* ThreadPool::SetNumOfThreads(n) up to the first loop of StretchThreads or
\* ShrinkThreads.  Asking for the number there already is shrinks by zero.
\* Stop() and the destructor are SetNumOfThreads(0).
SetNumOfThreads(n) ==
  /\ ctl.op = "idle"
  /\ n # m_num_threads
  /\ m_is_paused /\ n > m_num_threads
       => pauseApples + n - m_num_threads <= MaxApples
  /\ ctl' = [op |-> IF n < m_num_threads THEN "shrinkAdd"
                    ELSE IF m_is_paused THEN "stretchAdd" ELSE "stretchNew",
             left |-> IF n < m_num_threads THEN m_num_threads - n
                                           ELSE n - m_num_threads,
             target |-> n,
             before |-> pending \union {running[w] : w \in At({"run"})}]
  /\ UNCHANGED <<queueVars, poolVars, m_sem_pause, m_threads_to_remove,
                 workVars>>

Stop == SetNumOfThreads(0)

\* StretchThreads, first loop: a paused pool queues one pause entry for each
\* thread it is about to create.
StretchAdd ==
  /\ ctl.op = "stretchAdd"
  /\ pauseApples' = pauseApples + 1
  /\ ctl' = IF ctl.left = 1
            THEN [ctl EXCEPT !.op = "stretchNew",
                             !.left = ctl.target - m_num_threads]
            ELSE [ctl EXCEPT !.left = @ - 1]
  /\ UNCHANGED <<pending, stopApples, poolVars, m_sem_pause,
                 m_threads_to_remove, workVars>>

\* StretchThreads, second loop: new WorkerThread starts the thread.  The
\* last iteration returns to SetNumOfThreads, which records the new number.
StretchNew(w) ==
  /\ ctl.op = "stretchNew"
  /\ worker[w] = "none"
  /\ worker' = [worker EXCEPT ![w] = "pop"]
  /\ IF ctl.left = 1
     THEN ctl' = Idle /\ m_num_threads' = ctl.target
     ELSE ctl' = [ctl EXCEPT !.left = @ - 1] /\ UNCHANGED m_num_threads
  /\ UNCHANGED <<queueVars, m_is_paused, m_sem_pause, m_threads_to_remove,
                 running, done>>

\* Mutant: the loop adds its last entry twice.
MutShrinkAdd ==
  /\ ctl.op = "shrinkAdd"
  /\ stopApples' = stopApples + (IF ctl.left = 1 THEN 2 ELSE 1)
  /\ ctl' = IF ctl.left = 1
            THEN [ctl EXCEPT !.op = "release",
                             !.left = m_num_threads - ctl.target]
            ELSE [ctl EXCEPT !.left = @ - 1]
  /\ UNCHANGED <<pending, pauseApples, poolVars, m_sem_pause,
                 m_threads_to_remove, workVars>>

\* ShrinkThreads, first loop: one stop entry per thread to remove.
ShrinkAdd ==
  /\ ctl.op = "shrinkAdd"
  /\ stopApples' = stopApples + 1
  /\ ctl' = IF ctl.left = 1
            THEN [ctl EXCEPT !.op = "release",
                             !.left = m_num_threads - ctl.target]
            ELSE [ctl EXCEPT !.left = @ - 1]
  /\ UNCHANGED <<pending, pauseApples, poolVars, m_sem_pause,
                 m_threads_to_remove, workVars>>

\* Mutant: a paused pool is shrunk without letting anybody through.
MutShrinkRelease ==
  /\ ctl.op = "release"
  /\ ctl' = [ctl EXCEPT !.op = "join"]
  /\ UNCHANGED <<queueVars, poolVars, m_sem_pause, m_threads_to_remove, workVars>>

\* ShrinkThreads: a paused pool lets as many threads pass the barrier as it
\* is about to remove.
ShrinkRelease ==
  /\ ctl.op = "release"
  /\ m_sem_pause' = IF m_is_paused THEN m_sem_pause + ctl.left ELSE m_sem_pause
  /\ ctl' = [ctl EXCEPT !.op = "join"]
  /\ UNCHANGED <<queueVars, poolVars, m_threads_to_remove, workVars>>

\* ShrinkThreads, last loop: take a worker that left its loop, join() it and
\* delete it.  m_threads_to_remove is a FIFO queue; the order in which the
\* finished threads are joined makes no difference, so it is a set here.
ShrinkJoin(w) ==
  /\ ctl.op = "join"
  /\ w \in m_threads_to_remove
  /\ m_threads_to_remove' = m_threads_to_remove \ {w}
  /\ worker' = [worker EXCEPT ![w] = "none"]
  /\ IF ctl.left = 1
     THEN ctl' = Idle /\ m_num_threads' = ctl.target
     ELSE ctl' = [ctl EXCEPT !.left = @ - 1] /\ UNCHANGED m_num_threads
  /\ UNCHANGED <<queueVars, m_is_paused, m_sem_pause, running, done>>

-----------------------------------------------------------------------------
(* WorkerThread::RunThread.                                                 *)

\* pop() returned a BadAppleTaskPause.
PopPause(w) ==
  /\ worker[w] = "pop"
  /\ pauseApples > 0
  /\ IsFront(PausePriority)
  /\ pauseApples' = pauseApples - 1
  /\ worker' = [worker EXCEPT ![w] = "acquire"]
  /\ UNCHANGED <<pending, stopApples, poolVars, m_sem_pause,
                 m_threads_to_remove, running, done, ctl>>

\* BadAppleTaskPause::Execute: acquire() returned.
AcquirePause(w) ==
  /\ worker[w] = "acquire"
  /\ m_sem_pause > 0
  /\ m_sem_pause' = m_sem_pause - 1
  /\ worker' = [worker EXCEPT ![w] = "pop"]
  /\ UNCHANGED <<queueVars, poolVars, m_threads_to_remove, running, done, ctl>>

\* pop() returned a user task and its Execute() starts.
PopTask(w, t) ==
  /\ worker[w] = "pop"
  /\ t \in pending
  /\ IsFront(Priority[t])
  /\ pending' = pending \ {t}
  /\ worker' = [worker EXCEPT ![w] = "run"]
  /\ running' = [running EXCEPT ![w] = t]
  /\ UNCHANGED <<pauseApples, stopApples, poolVars, m_sem_pause,
                 m_threads_to_remove, done, ctl>>

\* The user task's Execute() returned.
FinishTask(w) ==
  /\ worker[w] = "run"
  /\ done' = done \union {running[w]}
  /\ worker' = [worker EXCEPT ![w] = "pop"]
  /\ running' = [running EXCEPT ![w] = NoTask]
  /\ UNCHANGED <<queueVars, poolVars, m_sem_pause, m_threads_to_remove, ctl>>

\* pop() returned a BadAppleTaskStop; its Execute() clears m_is_alive.
PopStop(w) ==
  /\ worker[w] = "pop"
  /\ stopApples > 0
  /\ IsFront(StopPriority)
  /\ stopApples' = stopApples - 1
  /\ worker' = [worker EXCEPT ![w] = "stopping"]
  /\ UNCHANGED <<pending, pauseApples, poolVars, m_sem_pause,
                 m_threads_to_remove, running, done, ctl>>

\* The loop ended: the worker queues itself for removal.
ExitLoop(w) ==
  /\ worker[w] = "stopping"
  /\ m_threads_to_remove' = m_threads_to_remove \union {w}
  /\ worker' = [worker EXCEPT ![w] = "gone"]
  /\ UNCHANGED <<queueVars, poolVars, m_sem_pause, running, done, ctl>>

-----------------------------------------------------------------------------
WorkerStep(w) ==
  \/ PopPause(w)
  \/ AcquirePause(w)
  \/ \E t \in Tasks : PopTask(w, t)
  \/ FinishTask(w)
  \/ PopStop(w)
  \/ ExitLoop(w)

ControllerStep ==
  \/ PauseAdd
  \/ StretchAdd
  \/ \E w \in Workers : StretchNew(w)
  \/ ShrinkAdd
  \/ ShrinkRelease
  \/ \E w \in Workers : ShrinkJoin(w)

\* The constructor: no threads, paused, then SetNumOfThreads.
Init ==
  /\ pending = {}
  /\ pauseApples = 0
  /\ stopApples = 0
  /\ m_num_threads = 0
  /\ m_is_paused = TRUE
  /\ m_sem_pause = 0
  /\ m_threads_to_remove = {}
  /\ worker = [w \in Workers |-> "none"]
  /\ running = [w \in Workers |-> NoTask]
  /\ done = {}
  /\ ctl = Idle

Next ==
  \/ \E t \in Tasks : Add(t)
  \/ Run
  \/ Pause
  \/ Stop
  \/ \E n \in 1 .. Cardinality(Workers) : SetNumOfThreads(n)
  \/ ControllerStep
  \/ \E w \in Workers : WorkerStep(w)

Spec == Init /\ [][Next]_vars

\* Every thread that can take a step is eventually scheduled: the workers,
\* and the controller once it is inside an operation.  Nothing makes the
\* program call an operation.
FairSpec ==
  /\ Spec
  /\ WF_vars(ControllerStep)
  /\ \A w \in Workers : WF_vars(WorkerStep(w))

-----------------------------------------------------------------------------
(* Properties.                                                              *)

\* The variables keep their types; m_sem_pause, the two kinds of bad apples and
\* the controller's counters never go below zero.
TypeOK ==
  /\ pending \subseteq Tasks
  /\ pauseApples \in Nat
  /\ stopApples \in Nat
  /\ m_num_threads \in Nat
  /\ m_is_paused \in BOOLEAN
  /\ m_sem_pause \in Nat
  /\ m_threads_to_remove \subseteq Workers
  /\ worker \in [Workers -> WorkerStates]
  /\ running \in [Workers -> Tasks \union {NoTask}]
  /\ done \subseteq Tasks
  /\ ctl \in [op : Ops, left : Nat, target : Nat, before : SUBSET Tasks]

\* How many threads the pause barrier is to hold: the permits in
\* m_sem_pause are one short for each of them.
BarrierSize ==
  IF ~m_is_paused THEN 0
  ELSE CASE ctl.op = "pause"                  -> m_num_threads - ctl.left
         [] ctl.op = "stretchAdd"             -> ctl.target - ctl.left
         [] ctl.op \in {"stretchNew", "join"} -> ctl.target
         [] OTHER                             -> m_num_threads

\* The permits and the pause entries balance: every pause entry still in
\* m_tasks and every worker inside acquire() is matched by a permit, except
\* for exactly the threads the barrier is to hold.  One permit too few and a
\* worker sleeps for ever after Run(); one too many and Pause() lets a worker
\* through (Pause, Run, StretchThreads and ShrinkThreads keep this balance
\* only together).
PermitsBalance ==
  pauseApples + Count({"acquire"}) = m_sem_pause + BarrierSize

\* WorkerThread objects: those of the pool plus the ones a resize in progress
\* has created or has still to delete.
AllocatedThreads ==
  CASE ctl.op = "stretchNew" -> ctl.target - ctl.left
    [] ctl.op = "join"       -> ctl.target + ctl.left
    [] OTHER                 -> m_num_threads

\* The stop entries a resize in progress still has to see obeyed.
StopsOwed ==
  CASE ctl.op = "shrinkAdd"           -> m_num_threads - ctl.target - ctl.left
    [] ctl.op \in {"release", "join"} -> ctl.left
    [] OTHER                          -> 0

\* No thread is lost or deleted twice: m_num_threads is the number of
\* WorkerThread objects whenever no resize is under way, and the stop entries
\* account for exactly the workers ShrinkThreads will join.
ThreadsAccounted ==
  /\ Count(WorkerStates \ {"none"}) = AllocatedThreads
  /\ stopApples + Count({"stopping", "gone"}) = StopsOwed
  /\ m_threads_to_remove = At({"gone"})

\* Pause() is a barrier: from the moment it returns until Run(), no worker
\* starts a user task, however the pool grows meanwhile.  The one exception
\* is a SetNumOfThreads that shrinks the paused pool: the threads it lets
\* through to die serve the queue first, because their stop entries have the
\* lowest priority.
PauseHolds ==
  [][\A w \in Workers :
       worker[w] = "pop" /\ worker'[w] = "run" /\ m_is_paused
         => ctl.op \in {"pause", "join"}]_vars

\* Shrinking drains the queue: when SetNumOfThreads returns from removing
\* threads, every task that had been added before the call has been taken
\* by a worker, and when it removed them all (Stop), has been executed.
ShrinkDrains ==
  [][ctl.op = "join" /\ ctl'.op = "idle"
       => /\ ctl.before \intersect pending' = {}
          /\ ctl.target = 0 => ctl.before \subseteq done']_vars

\* From some time on nobody but t is added that pop() may hand out before t
\* (entries of equal priority come out in any order).
NoRivals(t) ==
  <>[][\A u \in Tasks \ {t} : Priority[u] >= Priority[t] => ~Add(u)]_vars

\* Every call of the controller returns: Pause, SetNumOfThreads and Stop
\* never wait for a worker that will not come.  Pause and a SetNumOfThreads
\* that adds threads return whatever is added meanwhile; one that removes
\* threads, or Stop, returns if the tasks stop coming: its stop entries have
\* the lowest priority, so an endless stream of Add keeps it waiting.
OperationsReturn ==
  /\ (ctl.op \in {"pause", "stretchAdd", "stretchNew"}) ~> (ctl.op = "idle")
  /\ <>[][\A u \in Tasks : ~Add(u)]_vars
       => ((ctl.op # "idle") ~> (ctl.op = "idle"))

\* A task that was added is executed unless the pool is paused or has no
\* thread, provided that tasks of its own or a higher priority do not keep
\* coming for ever: m_tasks hands those out first, and an endless stream of
\* HIGH tasks starves a LOW one.
TasksExecuted ==
  \A t \in Tasks :
    NoRivals(t) =>
      ((t \in pending) ~> (t \in done \/ m_is_paused \/ m_num_threads = 0))

=============================================================================
