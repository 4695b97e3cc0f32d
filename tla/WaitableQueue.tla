---------------------------- MODULE WaitableQueue ----------------------------
(***************************************************************************)
(* WaitableQueue (waitablequeue.hpp): a std::queue behind one timed_mutex  *)
(* and one condition_variable_any.  A step is one critical section of      *)
(* m_mutex, or an event of the condition variable: notify_one wakes some   *)
(* waiter, a waiter may wake for no reason, a timed waiter may time out.   *)
(* A woken consumer has still to take the mutex again, and another thread  *)
(* may empty the queue before it does.                                     *)
(***************************************************************************)
EXTENDS Naturals, Sequences, FiniteSets

CONSTANTS
  Consumers,  \* threads that call pop()
  Values,     \* what may be pushed
  None,       \* no value: nothing popped yet, or the timed pop() gave up
  MaxLen      \* bound on the length of the queue

ASSUME WaitableQueueAssumption ==
  /\ IsFiniteSet(Consumers)
  /\ MaxLen \in Nat

VARIABLES
  m_queue,
  pc,         \* where each consumer is
  got         \* *value after the consumer's last call; None if it was false

vars == <<m_queue, pc, got>>

\* out: in no call; wait: inside m_cond_var.wait; woken: notified, wants the
\* mutex; twait, twoken: the same in wait_for; late: wait_for timed out.
PCs == {"out", "wait", "woken", "twait", "twoken", "late"}

Waiting == {c \in Consumers : pc[c] \in {"wait", "twait"}}
Woken   == {c \in Consumers : pc[c] \in {"woken", "twoken", "late"}}

Wake(s) == CASE s = "wait" -> "woken" [] s = "twait" -> "twoken"

-----------------------------------------------------------------------------
\* Mutants: push notifies only when the queue was empty; the timed pop gives
\* up without looking at the queue again.
MutPush(v) ==
  /\ Len(m_queue) < MaxLen
  /\ m_queue' = Append(m_queue, v)
  /\ IF Waiting = {} \/ m_queue # <<>>
     THEN UNCHANGED pc
     ELSE \E c \in Waiting : pc' = [pc EXCEPT ![c] = Wake(@)]
  /\ UNCHANGED got

MutGiveUp(c) ==
  /\ pc[c] = "late"
  /\ got' = [got EXCEPT ![c] = None]
  /\ pc' = [pc EXCEPT ![c] = "out"]
  /\ UNCHANGED m_queue

\* push: append and notify_one while the mutex is held.
Push(v) ==
  /\ Len(m_queue) < MaxLen
  /\ m_queue' = Append(m_queue, v)
  /\ IF Waiting = {}
     THEN UNCHANGED pc
     ELSE \E c \in Waiting : pc' = [pc EXCEPT ![c] = Wake(@)]
  /\ UNCHANGED got

\* pop(value) and pop(value, timeout), entered with an item in the queue, or
\* resumed by a wake-up or a time-out and finding one.
PopItem(c) ==
  /\ pc[c] \in {"out", "woken", "twoken", "late"}
  /\ m_queue # <<>>
  /\ got' = [got EXCEPT ![c] = Head(m_queue)]
  /\ m_queue' = Tail(m_queue)
  /\ pc' = [pc EXCEPT ![c] = "out"]

\* pop(value) finds the queue empty, at its start or after a wake-up.
PopWait(c) ==
  /\ pc[c] \in {"out", "woken"}
  /\ m_queue = <<>>
  /\ pc' = [pc EXCEPT ![c] = "wait"]
  /\ UNCHANGED <<m_queue, got>>

\* pop(value, timeout) finds the queue empty with time left.
TimedPopWait(c) ==
  /\ pc[c] \in {"out", "twoken"}
  /\ m_queue = <<>>
  /\ pc' = [pc EXCEPT ![c] = "twait"]
  /\ UNCHANGED <<m_queue, got>>

\* wait_for evaluates its predicate once more and returns false.
GiveUp(c) ==
  /\ pc[c] = "late"
  /\ m_queue = <<>>
  /\ got' = [got EXCEPT ![c] = None]
  /\ pc' = [pc EXCEPT ![c] = "out"]
  /\ UNCHANGED m_queue

\* A timed wait ends: while waiting, or when its notification comes too late.
Timeout(c) ==
  /\ pc[c] \in {"twait", "twoken"}
  /\ pc' = [pc EXCEPT ![c] = "late"]
  /\ UNCHANGED <<m_queue, got>>

\* A waiter wakes although nobody notified it.
SpuriousWakeup(c) ==
  /\ c \in Waiting
  /\ pc' = [pc EXCEPT ![c] = Wake(@)]
  /\ UNCHANGED <<m_queue, got>>

-----------------------------------------------------------------------------
\* What a consumer inside a call does when it gets the mutex.
Resume(c) ==
  /\ pc[c] # "out"
  /\ PopItem(c) \/ PopWait(c) \/ TimedPopWait(c) \/ GiveUp(c)

Init ==
  /\ m_queue = <<>>
  /\ pc = [c \in Consumers |-> "out"]
  /\ got = [c \in Consumers |-> None]

Next ==
  \/ \E v \in Values : Push(v)
  \/ \E c \in Consumers :
       \/ PopItem(c)
       \/ PopWait(c)
       \/ TimedPopWait(c)
       \/ GiveUp(c)
       \/ Timeout(c)
       \/ SpuriousWakeup(c)

Spec == Init /\ [][Next]_vars

\* A woken consumer eventually gets the mutex, which every thread holds for
\* a bounded time, and a timed wait eventually times out.  Nobody has to
\* push, to call pop, or to be woken spuriously.
Fairness == \A c \in Consumers : WF_vars(Resume(c)) /\ WF_vars(Timeout(c))

FairSpec == Spec /\ Fairness

-----------------------------------------------------------------------------
(* Properties.                                                              *)

\* The variables keep their types: the queue holds values only, a consumer is
\* at one of the places of pop().
TypeOK ==
  /\ m_queue \in Seq(Values)
  /\ pc \in [Consumers -> PCs]
  /\ got \in [Consumers -> Values \union {None}]

\* No lost wake-up: as long as a consumer sleeps in the condition variable,
\* every item of the queue has a consumer that is already awake and on its
\* way to it.  One notify_one per push is enough only because a consumer
\* that finds an item never goes to sleep.
NoLostWakeup == Waiting # {} => Len(m_queue) <= Cardinality(Woken)

\* The consumer's operation as its caller sees it.
Call(c) == CASE pc[c] = "out"               -> "none"
             [] pc[c] \in {"wait", "woken"} -> "pop"
             [] OTHER                       -> "timed"

Abstract == INSTANCE BlockingQueue
  WITH queue <- m_queue, call <- [c \in Consumers |-> Call(c)]

\* The queue implements the atomic blocking queue: FIFO, each item to one
\* consumer, a timed pop() returning false only while the queue is empty, and
\* no consumer overlooked while items remain.
ImplementsBlockingQueue == Abstract!FairSpec

=============================================================================
