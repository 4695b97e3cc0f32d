---------------------------- MODULE BlockingQueue ----------------------------
(***************************************************************************)
(* What WaitableQueue promises its callers (waitablequeue.hpp): a bounded- *)
(* by-nothing FIFO queue on which pop() blocks while the queue is empty,   *)
(* and a timed pop() that may give up, but only while it is empty.  There  *)
(* is no mutex, no condition variable and no wake-up here: an operation    *)
(* takes effect in one step.                                               *)
(***************************************************************************)
EXTENDS Naturals, Sequences

CONSTANTS
  Consumers,  \* threads that call pop()
  Values,     \* what may be pushed
  None,       \* no value: nothing popped yet, or the timed pop() gave up
  MaxLen      \* bound on the length of the queue, for model checking

VARIABLES
  queue,
  call,       \* none, or the operation the consumer is inside: pop or timed
  got         \* the value the consumer's last call returned

vars == <<queue, call, got>>

Push(v) ==
  /\ Len(queue) < MaxLen
  /\ queue' = Append(queue, v)
  /\ UNCHANGED <<call, got>>

Call(c, kind) ==
  /\ call[c] = "none"
  /\ call' = [call EXCEPT ![c] = kind]
  /\ UNCHANGED <<queue, got>>

Take(c) ==
  /\ call[c] # "none"
  /\ queue # <<>>
  /\ got' = [got EXCEPT ![c] = Head(queue)]
  /\ queue' = Tail(queue)
  /\ call' = [call EXCEPT ![c] = "none"]

\* A call that finds an item does not wait at all.
TakeAtOnce(c) ==
  /\ call[c] = "none"
  /\ queue # <<>>
  /\ got' = [got EXCEPT ![c] = Head(queue)]
  /\ queue' = Tail(queue)
  /\ UNCHANGED call

GiveUp(c) ==
  /\ call[c] = "timed"
  /\ queue = <<>>
  /\ got' = [got EXCEPT ![c] = None]
  /\ call' = [call EXCEPT ![c] = "none"]
  /\ UNCHANGED queue

Init ==
  /\ queue = <<>>
  /\ call = [c \in Consumers |-> "none"]
  /\ got = [c \in Consumers |-> None]

Next ==
  \/ \E v \in Values : Push(v)
  \/ \E c \in Consumers :
       \/ Call(c, "pop")
       \/ Call(c, "timed")
       \/ Take(c)
       \/ TakeAtOnce(c)
       \/ GiveUp(c)

Spec == Init /\ [][Next]_vars

\* A consumer inside pop() is not overlooked: it cannot stay there for ever
\* while the queue stays non-empty.
FairSpec == Spec /\ \A c \in Consumers : WF_vars(Take(c))

=============================================================================
