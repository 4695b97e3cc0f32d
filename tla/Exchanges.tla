------------------------------ MODULE Exchanges ------------------------------
(***************************************************************************)
(* The producer/consumer programs ex1.c (a spin lock), ex2.c (a condition  *)
(* variable), ex3.c (a semaphore), ex4.c (a circular buffer between two    *)
(* semaphores), ex6.c (a barrier), the ping-pong programs, in which two    *)
(* processes send each other signals, and the unique identifiers of uid.c. *)
(*                                                                         *)
(* What a thread does while it holds the mutex is one action.  A message   *)
(* is <<producer, number>>; what malloc and rand give it is not modelled.  *)
(***************************************************************************)
EXTENDS Integers, Sequences, SequencesExt, FiniteSets, FiniteSetsExt

CONSTANTS
  XProducers, XConsumers,
  XMessages,     \* messages per producer (MESSAGE_COUNT, MSGS_PER_PRODUCER)
  NUM_ITEMS,     \* of ex4: messages per thread, and bytes of the buffer
  INT_BYTES,     \* sizeof(int)
  UIDProcesses,
  UIDMax         \* bound on the identifiers created, and on the seconds that pass

\* The constants of the programs: NUM_PRODUCERS = NUM_CONSUMERS in ex2.c to ex4.c,
\* and NUM_ITEMS is (1) in ex4.c.
ASSUME ExchangesAssumption ==
  /\ IsFiniteSet(XProducers) /\ IsFiniteSet(XConsumers)
  /\ Cardinality(XProducers) = Cardinality(XConsumers)
  /\ XProducers # {} /\ XConsumers # {} /\ XProducers \intersect XConsumers = {}
  /\ XMessages \in Nat \ {0} /\ INT_BYTES \in Nat \ {0} /\ UIDMax \in Nat
  /\ NUM_ITEMS = 1

VARIABLES
  program,      \* which of the programs runs
  list,         \* messages inserted and not removed yet (g_list, g_message)
  full,         \* g_buffer_state of ex1, g_ready of ex6
  sems,         \* items_sem/read_sem/done_sem and write_sem
  left,         \* g_messages_left
  waiting,      \* consumers in pthread_cond_wait that nobody has woken
  at,           \* where each thread is
  made,         \* how many messages a producer has made, a consumer has read
  put, got,     \* all messages in the order they were inserted, removed
  ball,         \* ping-pong: where each player is, its flag, its pending signal
  uids          \* UIDs: counter per process, the time, what was created

exVars == <<list, full, sems, left, waiting, at, made, put, got>>
xVars == <<program, exVars, ball, uids>>

XThreads == XProducers \union XConsumers
OneProducer == CHOOSE p \in XProducers : TRUE
OneConsumer == CHOOSE c \in XConsumers : TRUE

\* What main of each program creates: its threads, the messages of each of them,
\* what is counted down to the end, the first value of write_sem.
Ex1Main == [producers |-> {OneProducer}, consumers |-> {OneConsumer}, each |-> XMessages, total |-> XMessages, write |-> 0]
Ex2Main == [producers |-> XProducers, consumers |-> XConsumers, each |-> XMessages,
            total |-> Cardinality(XProducers) * XMessages, write |-> 0]
Ex3Main == [producers |-> XProducers, consumers |-> XConsumers, each |-> 1, total |-> Cardinality(XProducers), write |-> 0]
Ex4Main == [producers |-> XProducers, consumers |-> XConsumers, each |-> NUM_ITEMS,
            total |-> Cardinality(XProducers) * NUM_ITEMS, write |-> NUM_ITEMS]
Ex6Main == [producers |-> {OneProducer}, consumers |-> XConsumers, each |-> 1, total |-> Cardinality(XConsumers), write |-> 0]

Main ==
  CASE program = "ex2" -> Ex2Main [] program = "ex3" -> Ex3Main [] program = "ex4" -> Ex4Main
    [] program = "ex6" -> Ex6Main [] OTHER -> Ex1Main

PerProducer == Main.each

Go(t, l) == at' = [at EXCEPT ![t] = l]
Msg(p) == <<p, made[p] + 1>>
Count(t) == made' = [made EXCEPT ![t] = @ + 1]

-----------------------------------------------------------------------------
(* ex1.c: each side spins on g_buffer_state, the message is written before  *)
(* the state changes.                                                       *)

\* Mutant: the buffer is said to be full before the message is in it.
MutSpinProduce(p) ==
  \/ /\ at[p] = "run" /\ made[p] < PerProducer /\ ~full
     /\ full' = TRUE
     /\ Go(p, "set") /\ UNCHANGED <<list, put, made, sems, left, waiting, got>>
  \/ /\ at[p] = "set"
     /\ list' = <<Msg(p)>> /\ put' = Append(put, Msg(p)) /\ Count(p)
     /\ Go(p, IF made[p] + 1 = PerProducer THEN "end" ELSE "run") /\ UNCHANGED <<full, sems, left, waiting, got>>

SpinProduce(p) ==
  \/ /\ at[p] = "run" /\ made[p] < PerProducer /\ ~full
     /\ list' = <<Msg(p)>> /\ put' = Append(put, Msg(p)) /\ Count(p)
     /\ Go(p, "set") /\ UNCHANGED <<full, sems, left, waiting, got>>
  \/ /\ at[p] = "set"
     /\ full' = TRUE
     /\ Go(p, IF made[p] = PerProducer THEN "end" ELSE "run")
     /\ UNCHANGED <<list, sems, left, waiting, made, put, got>>

SpinConsume(c) ==
  \/ /\ at[c] = "run" /\ made[c] < PerProducer /\ full
     /\ got' = got \o list /\ Count(c)
     /\ Go(c, "set") /\ UNCHANGED <<list, full, sems, left, waiting, put>>
  \/ /\ at[c] = "set"
     /\ full' = FALSE
     /\ Go(c, IF made[c] = PerProducer THEN "end" ELSE "run")
     /\ UNCHANGED <<list, sems, left, waiting, made, put, got>>

-----------------------------------------------------------------------------
(* ex2.c.  A signal wakes one waiter, if there is one; a thread may also    *)
(* wake by itself.                                                          *)

CondProduce(p) ==
  /\ at[p] = "run" /\ made[p] < PerProducer
  /\ list' = Append(list, Msg(p)) /\ put' = Append(put, Msg(p)) /\ Count(p)
  /\ IF waiting = {} THEN UNCHANGED waiting ELSE \E w \in waiting : waiting' = waiting \ {w}
  /\ Go(p, IF made[p] + 1 = PerProducer THEN "end" ELSE "run")
  /\ UNCHANGED <<full, sems, left, got>>

\* malloc fails in ex2 or ex3: the producer ends.
ProduceFails(p) ==
  /\ at[p] = "run" /\ Go(p, "end")
  /\ UNCHANGED <<list, full, sems, left, waiting, made, put, got>>

\* Mutant: one test, not a loop: a woken thread takes what is not there.
MutMustWait(c) == list = << >> /\ left > 0 /\ at[c] = "run"

\* while (SLLIsEmpty(g_list) && g_messages_left > 0)
MustWait(c) == list = << >> /\ left > 0

CondConsume(c) ==
  /\ at[c] \in {"run", "woken"} /\ c \notin waiting
  /\ \/ /\ MustWait(c)
        /\ waiting' = waiting \union {c} /\ Go(c, "woken")
        /\ UNCHANGED <<list, full, sems, left, made, put, got>>
     \/ /\ ~MustWait(c) /\ left = 0
        /\ Go(c, "end") /\ UNCHANGED <<list, full, sems, left, waiting, made, put, got>>
     \/ /\ ~MustWait(c) /\ left > 0
        /\ got' = Append(got, IF list = << >> THEN <<c, 0>> ELSE Head(list))
        /\ list' = IF list = << >> THEN list ELSE Tail(list)
        /\ left' = left - 1 /\ Go(c, "run")
        /\ UNCHANGED <<full, sems, waiting, made, put>>

WakeUp(c) ==
  /\ program \in {"ex2", "ex6"} /\ c \in waiting
  /\ waiting' = waiting \ {c}
  /\ UNCHANGED <<list, full, sems, left, at, made, put, got>>

-----------------------------------------------------------------------------
(* ex3.c: the semaphore counts the messages in the list.                    *)

SemProduce(p) ==
  \/ /\ at[p] = "run"
     /\ list' = Append(list, Msg(p)) /\ put' = Append(put, Msg(p)) /\ Count(p)
     /\ Go(p, "post") /\ UNCHANGED <<full, sems, left, waiting, got>>
  \/ /\ at[p] = "post"
     /\ sems' = [sems EXCEPT !.read = @ + 1]
     /\ Go(p, "end") /\ UNCHANGED <<list, full, left, waiting, made, put, got>>

SemConsume(c) ==
  \/ /\ at[c] = "run" /\ sems.read > 0
     /\ sems' = [sems EXCEPT !.read = @ - 1]
     /\ Go(c, "lock") /\ UNCHANGED <<list, full, left, waiting, made, put, got>>
  \/ /\ at[c] = "lock"
     /\ IF left = 0
        THEN Go(c, "end") /\ UNCHANGED <<list, left, got>>
        ELSE /\ got' = Append(got, Head(list)) /\ list' = Tail(list) /\ left' = left - 1
             /\ Go(c, "run")
     /\ UNCHANGED <<full, sems, waiting, made, put>>

-----------------------------------------------------------------------------
(* ex4.c.  The buffer holds NUM_ITEMS bytes, CBuffWrite stores as many of   *)
(* the sizeof(int) bytes as fit and CBuffRead takes as many as there are;   *)
(* the first byte of an int has the whole value, the others are 0.          *)

BytesOf(m) == [i \in 1 .. INT_BYTES |-> IF i = 1 THEN m ELSE <<>>]
Stored(m) == SubSeq(BytesOf(m), 1, Min({INT_BYTES, NUM_ITEMS - Len(list)}))
Loaded == SubSeq(list, 1, Min({INT_BYTES, Len(list)}))

BufferProduce(p) ==
  \/ /\ at[p] = "run" /\ made[p] < PerProducer /\ sems.write > 0
     /\ sems' = [sems EXCEPT !.write = @ - 1]
     /\ Go(p, "lock") /\ UNCHANGED <<list, full, left, waiting, made, put, got>>
  \/ /\ at[p] = "lock"
     /\ list' = list \o Stored(Msg(p)) /\ put' = Append(put, Msg(p)) /\ Count(p)
     /\ Go(p, "post") /\ UNCHANGED <<full, sems, left, waiting, got>>
  \/ /\ at[p] = "post"
     /\ sems' = [sems EXCEPT !.read = @ + 1]
     /\ Go(p, IF made[p] = PerProducer THEN "end" ELSE "run")
     /\ UNCHANGED <<list, full, left, waiting, made, put, got>>

BufferConsume(c) ==
  \/ /\ at[c] = "run" /\ made[c] < PerProducer /\ sems.read > 0
     /\ sems' = [sems EXCEPT !.read = @ - 1]
     /\ Go(c, "lock") /\ UNCHANGED <<list, full, left, waiting, made, put, got>>
  \/ /\ at[c] = "lock"
     /\ got' = Append(got, Head(Loaded)) /\ list' = SubSeq(list, Len(Loaded) + 1, Len(list)) /\ Count(c)
     /\ Go(c, "post") /\ UNCHANGED <<full, sems, left, waiting, put>>
  \/ /\ at[c] = "post"
     /\ sems' = [sems EXCEPT !.write = @ + 1]
     /\ Go(c, IF made[c] = PerProducer THEN "end" ELSE "run")
     /\ UNCHANGED <<list, full, left, waiting, made, put, got>>

-----------------------------------------------------------------------------
(* ex6.c: one message for all consumers; the producer waits for them.       *)

\* Mutant: pthread_cond_signal.
MutBarrierProduce(p) ==
  \/ /\ at[p] = "run"
     /\ list' = <<Msg(p)>> /\ put' = Append(put, Msg(p)) /\ Count(p) /\ full' = TRUE
     /\ IF waiting = {} THEN UNCHANGED waiting ELSE \E w \in waiting : waiting' = waiting \ {w}
     /\ Go(p, "join") /\ UNCHANGED <<sems, left, got>>
  \/ /\ at[p] = "join" /\ sems.read > 0
     /\ sems' = [sems EXCEPT !.read = @ - 1] /\ left' = left - 1
     /\ Go(p, IF left = 1 THEN "end" ELSE "join") /\ UNCHANGED <<list, full, waiting, made, put, got>>

BarrierProduce(p) ==
  \/ /\ at[p] = "run"
     /\ list' = <<Msg(p)>> /\ put' = Append(put, Msg(p)) /\ Count(p)
     /\ full' = TRUE /\ waiting' = {}
     /\ Go(p, "join") /\ UNCHANGED <<sems, left, got>>
  \/ /\ at[p] = "join" /\ sems.read > 0
     /\ sems' = [sems EXCEPT !.read = @ - 1] /\ left' = left - 1
     /\ Go(p, IF left = 1 THEN "end" ELSE "join") /\ UNCHANGED <<list, full, waiting, made, put, got>>

BarrierConsume(c) ==
  /\ at[c] = "run" /\ c \notin waiting
  /\ \/ /\ ~full
        /\ waiting' = waiting \union {c}
        /\ UNCHANGED <<list, full, sems, left, at, made, put, got>>
     \/ /\ full
        /\ got' = got \o list /\ sems' = [sems EXCEPT !.read = @ + 1]
        /\ Go(c, "end") /\ UNCHANGED <<list, full, left, waiting, made, put>>

-----------------------------------------------------------------------------
(* main: CreateThreads starts all threads, so they may run in any order.    *)

ExInit ==
  /\ list = << >> /\ full = FALSE
  /\ sems = [read |-> 0, write |-> Main.write]
  /\ left = Main.total
  /\ waiting = {}
  /\ at = [t \in XThreads |-> IF t \in Main.producers \union Main.consumers THEN "run" ELSE "end"]
  /\ made = [t \in XThreads |-> 0]
  /\ put = << >> /\ got = << >>

ProducerMsg(p) ==
  \/ program = "ex1" /\ SpinProduce(p)
  \/ program = "ex2" /\ (CondProduce(p) \/ ProduceFails(p))
  \/ program = "ex3" /\ (SemProduce(p) \/ ProduceFails(p))
  \/ program = "ex4" /\ BufferProduce(p)
  \/ program = "ex6" /\ BarrierProduce(p)

ConsumerMsg(c) ==
  \/ program = "ex1" /\ SpinConsume(c)
  \/ program = "ex2" /\ CondConsume(c)
  \/ program = "ex3" /\ SemConsume(c)
  \/ program = "ex4" /\ BufferConsume(c)
  \/ program = "ex6" /\ BarrierConsume(c)

\* What the threads do by themselves, and a wake-up for nothing.
ThreadStep ==
  /\ \/ \E p \in Main.producers : ProducerMsg(p)
     \/ \E c \in Main.consumers : ConsumerMsg(c)
  /\ UNCHANGED <<program, ball, uids>>

ExNext == ThreadStep \/ ((\E c \in Main.consumers : WakeUp(c)) /\ UNCHANGED <<program, ball, uids>>)

-----------------------------------------------------------------------------
(* The ping-pong programs.  A signal is delivered at any time: its handler  *)
(* sets the flag, and only a process that is in pause() is woken by it.     *)

Players == {"parent", "child"}
Other(p) == IF p = "parent" THEN "child" ELSE "parent"

\* The parent has sent the first signal.
BallInit == ball = [at |-> [p \in Players |-> "loop"], flag |-> [p \in Players |-> FALSE],
                    pending |-> [p \in Players |-> p = "child"], over |-> FALSE]

\* SignalHandler
Deliver(p) ==
  /\ ball.pending[p]
  /\ ball' = [ball EXCEPT !.pending[p] = FALSE, !.flag[p] = TRUE,
                          !.at[p] = IF @ = "paused" THEN "woken" ELSE @]

Pause(p) == ball.at[p] = "loop" /\ ball' = [ball EXCEPT !.at[p] = "paused"]

Answer(p) ==
  /\ ball.at[p] = "woken"
  /\ \/ ~ball.flag[p] /\ ball' = [ball EXCEPT !.at[p] = "loop"]
     \/ ball.flag[p] /\ ball' = [ball EXCEPT !.flag[p] = FALSE, !.at[p] = "send"]

\* Mutant: two signals for one.
MutSend(p) ==
  /\ ball.at[p] = "send"
  /\ ball' = [ball EXCEPT !.pending = [q \in Players |-> TRUE], !.at[p] = "loop"]

\* kill(partner); a signal that is pending already is not counted twice.
Send(p) ==
  /\ ball.at[p] = "send"
  /\ ball' = [ball EXCEPT !.pending[Other(p)] = TRUE, !.at[p] = "loop"]

\* ex1: the parent's time is up, SIGTERM ends the child.
TimeIsUp ==
  /\ ball.at["parent"] = "loop"
  /\ ball' = [ball EXCEPT !.over = TRUE, !.at = [p \in Players |-> "end"]]

PingPong ==
  /\ program = "pingpong" /\ ~ball.over
  /\ (\E p \in Players : Deliver(p) \/ Pause(p) \/ Answer(p) \/ Send(p)) \/ TimeIsUp
  /\ UNCHANGED <<program, exVars, uids>>

-----------------------------------------------------------------------------
(* uid.c.  The mutex makes UIDCreate one step of its process; a fork copies *)
(* the counter.  The clock does not go back, and a pid is given to a new    *)
(* process only in a later second.                                          *)

UIDbadUID == [counter |-> 0, timestamp |-> 0, pid |-> 0]

UIDInit == uids = [counter |-> [p \in UIDProcesses |-> 0], now |-> 1, created |-> << >>]

NextUID(p) == [counter |-> uids.counter[p] + 1, timestamp |-> uids.now, pid |-> p]

\* Mutant: counter + 1 in place of ++counter.
MutUIDCreate(p) ==
  /\ Len(uids.created) < UIDMax
  /\ \E uid \in {NextUID(p), UIDbadUID} : uids' = [uids EXCEPT !.created = Append(@, uid)]

\* The counter goes on also when there is no address.
UIDCreate(p) ==
  /\ Len(uids.created) < UIDMax
  /\ \E uid \in {NextUID(p), UIDbadUID} :
       uids' = [uids EXCEPT !.counter[p] = @ + 1, !.created = Append(@, uid)]

Fork(p) ==
  \E c \in UIDProcesses \ {p} :
    uids' = [uids EXCEPT !.counter[c] = uids.counter[p], !.now = @ + 1]

UIDIsSame(u, v) == u.counter = v.counter /\ u.timestamp = v.timestamp /\ u.pid = v.pid

UIDNext ==
  /\ program = "uid"
  /\ \E p \in UIDProcesses : UIDCreate(p) \/ (uids.now < UIDMax /\ Fork(p))
  /\ UNCHANGED <<program, exVars, ball>>

-----------------------------------------------------------------------------
XInit ==
  /\ program \in {"ex1", "ex2", "ex3", "ex4", "ex6", "pingpong", "uid"}
  /\ ExInit /\ BallInit /\ UIDInit

XNext == ExNext \/ PingPong \/ UIDNext

XSpec == XInit /\ [][XNext]_xVars

\* No thread can do anything any more, except wake up for nothing.
Quiet ==
  \A t \in XThreads :
    \/ at[t] = "end" \/ t \in waiting
    \/ at[t] = "run" /\ t \in XConsumers /\ program = "ex3" /\ sems.read = 0

\* In every one of the programs each message is read as it was written, in
\* order and once (in ex6 once by each consumer), however the threads are
\* interleaved; a consumer never finds the list empty; and when nothing moves
\* any more, everything that was sent has been read.
MessagesArrive ==
  /\ program \in {"ex2", "ex3"} => put = got \o list /\ left = Main.total - Len(got)
  /\ program \in {"ex1", "ex4"} => IsPrefix(got, put) /\ Len(put) - Len(got) <= (IF program = "ex1" THEN 1 ELSE NUM_ITEMS)
  /\ program = "ex6" => \A m \in ToSet(got) : m \in ToSet(put)
  /\ program = "ex3" => \A c \in XConsumers : at[c] = "lock" => list # << >>
  /\ Quiet => IF program = "ex6" THEN Len(got) = Cardinality(XConsumers) ELSE got = put

\* The programs with a spin lock, a buffer between two semaphores and a barrier
\* come to an end: until all threads have ended one of them can go on without a
\* wake-up for nothing, which no system promises.  (In ex2.c and ex3.c consumers
\* may wait for ever when the last message has been read.)
ThreadsEnd ==
  program \in {"ex1", "ex4", "ex6"} =>
    \/ \A t \in XThreads : at[t] = "end"
    \/ ENABLED ThreadStep

\* There is one ball: a signal on its way, a flag that is set or a player about
\* to send; if both players pause with no signal on its way, a handler ran
\* before its process was in pause() and the flag is still set.
OneBall ==
  program = "pingpong" /\ ~ball.over =>
    /\ Cardinality({p \in Players : ball.pending[p]}) + Cardinality({p \in Players : ball.flag[p]})
         + Cardinality({p \in Players : ball.at[p] = "send"}) = 1
    /\ (\A p \in Players : ball.at[p] = "paused" /\ ~ball.pending[p]) => \E p \in Players : ball.flag[p]

\* No two good UIDs are the same, also across a fork.
UIDsDiffer ==
  \A i, j \in DOMAIN uids.created :
    i # j /\ UIDIsSame(uids.created[i], uids.created[j]) => uids.created[i] = UIDbadUID

=============================================================================
