------------------------------ MODULE Scheduler ------------------------------
(***************************************************************************)
(* The timer-driven scheduler of the framework (scheduler.hpp/.cpp): a     *)
(* priority queue of <task, time> pairs, earliest first, and ONE one-shot  *)
(* POSIX timer that starts a new thread running TimerCallback each time it *)
(* expires (SIGEV_THREAD).  Callbacks overlap with each other and with     *)
(* Add: m_mutex is released while a task executes.                         *)
(*                                                                         *)
(* Times are relative to now: an entry or a timer with due = 2 is two      *)
(* ticks away, one with due <= 0 is due, one with due = -1 is a tick late. *)
(* A step is one critical section of m_mutex.  The tasks are those of      *)
(* AsyncInjection, which composes this module.                             *)
(***************************************************************************)
EXTENDS Integers, FiniteSets

CONSTANTS
  Tasks,         \* ISTask objects
  Delay,         \* the delay each task is added with, in ticks
  TimerThreads,  \* bound on the callback threads alive at once
  NoTask,        \* the task of a callback that executes none
  MaxLate        \* bound on how slow callbacks and signals are, in ticks

ASSUME SchedulerAssumption ==
  /\ Delay \in [Tasks -> Nat]
  /\ NoTask \notin Tasks
  /\ MaxLate \in Nat

VARIABLES
  m_waitable_queue,  \* the set of entries [task, due]
  m_timer,           \* is it armed, and for when
  cb                 \* where each callback thread is, and its currentTask

schedVars == <<m_waitable_queue, m_timer, cb>>

\* none: no such thread; start: before m_mutex; func: in the task's
\* function; resched: the function returned, Schedule() follows; rearm:
\* Execute() returned, m_mutex is to be taken again.
CallbackPCs == {"none", "start", "func", "resched", "rearm"}

Entries == [task : Tasks, due : Int]
NoCallback == [pc |-> "none", task |-> NoTask]
Off == [armed |-> FALSE, due |-> 0]

InFlight == {c \in TimerThreads : cb[c].pc # "none"}

\* The entry the priority queue would pop: TaskComparator puts the earliest
\* time in front, equal times come out in any order.
IsFront(e) ==
  /\ e \in m_waitable_queue
  /\ \A f \in m_waitable_queue : e.due <= f.due

-----------------------------------------------------------------------------
\* SetTimer: a time that has passed becomes one nanosecond from now.
SetTimer(due) ==
  m_timer' = [armed |-> TRUE, due |-> IF due <= 0 THEN 0 ELSE due]

\* Add: push the entry and point the timer at it, whatever it was armed for.
Add(t) ==
  /\ m_waitable_queue' =
       m_waitable_queue \union {[task |-> t, due |-> Delay[t]]}
  /\ SetTimer(Delay[t])

\* The timer expires: it is one-shot, and a thread is born.
Expire(c) ==
  /\ m_timer.armed /\ m_timer.due <= 0
  /\ cb[c].pc = "none"
  /\ m_timer' = Off
  /\ cb' = [cb EXCEPT ![c].pc = "start"]
  /\ UNCHANGED m_waitable_queue

\* TimerCallback finds the queue empty.
CallbackEmpty(c) ==
  /\ cb[c].pc = "start"
  /\ m_waitable_queue = {}
  /\ cb' = [cb EXCEPT ![c] = NoCallback]
  /\ UNCHANGED <<m_waitable_queue, m_timer>>

\* The first task is not due yet: it goes back and the timer is set for it.
CallbackEarly(c, e) ==
  /\ cb[c].pc = "start"
  /\ IsFront(e)
  /\ e.due > 0
  /\ SetTimer(e.due)
  /\ cb' = [cb EXCEPT ![c] = NoCallback]
  /\ UNCHANGED m_waitable_queue

\* The first task is due: it leaves the queue, m_mutex is released and its
\* Execute() begins.
CallbackExecute(c, e) ==
  /\ cb[c].pc = "start"
  /\ IsFront(e)
  /\ e.due <= 0
  /\ m_waitable_queue' = m_waitable_queue \ {e}
  /\ cb' = [cb EXCEPT ![c] = [pc |-> "func", task |-> e.task]]
  /\ UNCHANGED m_timer

\* Mutant: after Execute() the timer is left as it is.
MutCallbackRearm(c) ==
  /\ cb[c].pc = "rearm"
  /\ cb' = [cb EXCEPT ![c] = NoCallback]
  /\ UNCHANGED <<m_waitable_queue, m_timer>>

\* Execute() returned: the timer is set for the task that is first now.
CallbackRearm(c) ==
  /\ cb[c].pc = "rearm"
  /\ IF m_waitable_queue = {}
     THEN UNCHANGED m_timer
     ELSE \E e \in m_waitable_queue : IsFront(e) /\ SetTimer(e.due)
  /\ cb' = [cb EXCEPT ![c] = NoCallback]
  /\ UNCHANGED m_waitable_queue

\* Nobody can act before the timer expires.
Asleep == InFlight = {} /\ m_timer.armed /\ m_timer.due > 0

\* A tick of the steady clock.  The bound says how slow threads and signals
\* may be; it does not stop the time for which the scheduler sleeps.
Tick ==
  /\ ~Asleep => \A e \in m_waitable_queue : e.due > -MaxLate
  /\ m_timer.armed => m_timer.due > -MaxLate
  /\ m_waitable_queue' = {[e EXCEPT !.due = @ - 1] : e \in m_waitable_queue}
  /\ m_timer' = IF m_timer.armed THEN [m_timer EXCEPT !.due = @ - 1] ELSE m_timer
  /\ UNCHANGED cb

SchedInit ==
  /\ m_waitable_queue = {}
  /\ m_timer = Off
  /\ cb = [c \in TimerThreads |-> NoCallback]

-----------------------------------------------------------------------------
(* Properties.                                                              *)

SchedTypeOK ==
  /\ m_waitable_queue \subseteq Entries
  /\ m_timer \in [armed : BOOLEAN, due : Int]
  /\ cb \in [TimerThreads -> [pc : CallbackPCs, task : Tasks \union {NoTask}]]

\* The scheduler never falls asleep over a queued task: there is one timer
\* for all tasks, and whoever uses it up leaves it armed, or is still going
\* to (Add, an early callback, and a callback after its task all re-arm it;
\* a callback that finds nothing does not).
TimerCoversQueue ==
  m_waitable_queue # {} => m_timer.armed \/ InFlight # {}

=============================================================================
