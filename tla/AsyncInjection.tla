--------------------------- MODULE AsyncInjection ---------------------------
(***************************************************************************)
(* AsyncInjection (async_injection.hpp/.cpp) on top of the Scheduler: an   *)
(* object that calls a function every m_interval until it returns true,    *)
(* and then deletes itself from inside the scheduler's callback thread.    *)
(* A task of the scheduler is the m_task of one AsyncInjection, so both    *)
(* have the same name here.                                                *)
(***************************************************************************)
EXTENDS Scheduler

VARIABLE owner  \* the AsyncInjection behind each task: none, alive, deleted

injectionVars == <<schedVars, owner>>

-----------------------------------------------------------------------------
\* The constructor makes the task and schedules it.  Objects may be created
\* for ever: a name stands for a new object once the last one is deleted.
New(t) ==
  /\ owner[t] # "alive"
  /\ owner' = [owner EXCEPT ![t] = "alive"]
  /\ Add(t)
  /\ UNCHANGED cb

\* Mutants: the object is deleted although its function asks for more; the
\* task is scheduled before its function runs, for a steady period.
MutFuncAgain(c) ==
  /\ cb[c].pc = "func"
  /\ owner' = [owner EXCEPT ![cb[c].task] = "deleted"]
  /\ cb' = [cb EXCEPT ![c].pc = "resched"]
  /\ UNCHANGED <<m_waitable_queue, m_timer>>

MutFuncDone(c) ==
  /\ cb[c].pc = "func"
  /\ Add(cb[c].task)
  /\ UNCHANGED <<cb, owner>>

\* AsyncTask::Execute: m_func returned true, the object deletes itself.
FuncDone(c) ==
  /\ cb[c].pc = "func"
  /\ owner' = [owner EXCEPT ![cb[c].task] = "deleted"]
  /\ cb' = [cb EXCEPT ![c].pc = "rearm"]
  /\ UNCHANGED <<m_waitable_queue, m_timer>>

\* AsyncTask::Execute: m_func returned false.
FuncAgain(c) ==
  /\ cb[c].pc = "func"
  /\ cb' = [cb EXCEPT ![c].pc = "resched"]
  /\ UNCHANGED <<m_waitable_queue, m_timer, owner>>

\* Schedule(): the same task is added once more.
Schedule(c) ==
  /\ cb[c].pc = "resched"
  /\ Add(cb[c].task)
  /\ cb' = [cb EXCEPT ![c].pc = "rearm"]
  /\ UNCHANGED owner

-----------------------------------------------------------------------------
\* The scheduler's own steps leave the objects alone.
CallbackStep(c) ==
  \/ /\ \/ CallbackEmpty(c)
        \/ \E e \in m_waitable_queue : CallbackEarly(c, e) \/ CallbackExecute(c, e)
        \/ CallbackRearm(c)
     /\ UNCHANGED owner
  \/ FuncDone(c)
  \/ FuncAgain(c)
  \/ Schedule(c)

TimerExpires == \E c \in TimerThreads : Expire(c) /\ UNCHANGED owner

InjectionInit == SchedInit /\ owner = [t \in Tasks |-> "none"]

InjectionNext ==
  \/ \E t \in Tasks : New(t)
  \/ \E c \in TimerThreads : CallbackStep(c)
  \/ TimerExpires
  \/ Tick /\ UNCHANGED owner

InjectionSpec == InjectionInit /\ [][InjectionNext]_injectionVars

\* Time passes, an expired timer starts its thread, every callback thread is
\* scheduled and every function returns.  Nobody has to create an object.
InjectionFairness ==
  /\ WF_injectionVars(Tick /\ UNCHANGED owner)
  /\ WF_injectionVars(TimerExpires)
  /\ \A c \in TimerThreads : WF_injectionVars(CallbackStep(c))

InjectionFairSpec == InjectionSpec /\ InjectionFairness

-----------------------------------------------------------------------------
(* Properties.                                                              *)

\* The variables keep their types.
InjectionTypeOK == SchedTypeOK /\ owner \in [Tasks -> {"none", "alive", "deleted"}]

\* Callbacks whose Execute() still uses the AsyncInjection.
Executing == {c \in TimerThreads : cb[c].pc \in {"func", "resched"}}

\* No use after free: the scheduler holds a task, in its queue or in a
\* callback that will still touch m_owner, only while the AsyncInjection it
\* refers to is alive.  delete &m_owner runs with m_mutex released, so other
\* callbacks and Add run at the same time.
OwnerAlive ==
  /\ \A e \in m_waitable_queue : owner[e.task] = "alive"
  /\ \A c \in Executing : owner[cb[c].task] = "alive"

\* An AsyncInjection is scheduled at most once at a time: it is queued once
\* or executed by one callback, so its function never runs in two threads
\* together and it is deleted once.
ScheduledOnce ==
  /\ \A e, f \in m_waitable_queue : e.task = f.task => e = f
  /\ \A c, d \in Executing : cb[c].task = cb[d].task => c = d
  /\ \A e \in m_waitable_queue, c \in Executing : e.task # cb[c].task

\* A living AsyncInjection is not forgotten: its function is called again and
\* again until it returns true, provided that new objects stop coming.  Add
\* points the one timer at the newest entry, whatever it was armed for, so
\* objects created faster than they are due postpone all others for ever.
CalledAgain ==
  <>[][\A t \in Tasks : ~New(t)]_injectionVars =>
    \A t \in Tasks :
      (owner[t] = "alive") ~> (owner[t] = "deleted" \/ \E c \in Executing : cb[c].task = t)

=============================================================================
