--------------------------- MODULE FrameworkProofs ---------------------------
(***************************************************************************)
(* The framework's waitable queue, the parts around it, and the timed      *)
(* objects, for any number of consumers, descriptors, keys, plug-ins,      *)
(* dispatchers, callbacks, tasks and threads.                              *)
(***************************************************************************)
EXTENDS MCFramework, AsyncInjection, FiniteSetTheorems, SequenceTheorems, TLAPS

-----------------------------------------------------------------------------
(* The waitable queue, for every set of consumers and of values.            *)

\* The variables keep their types: no value appears that was not pushed.
THEOREM TypeCorrect == Spec => []TypeOK
<1>1. Init => TypeOK
  BY DEF Init, TypeOK, PCs
<1>2. TypeOK /\ [Next]_vars => TypeOK'
  <2> SUFFICES ASSUME TypeOK, [Next]_vars PROVE TypeOK'
    OBVIOUS
  <2> USE DEF TypeOK, PCs
  <2>push. ASSUME NEW v \in Values, Push(v) PROVE TypeOK'
    <3>1. m_queue' \in Seq(Values)
      BY <2>push, AppendProperties DEF Push
    <3>2. \A c \in Waiting : Wake(pc[c]) \in PCs
      BY DEF Waiting, Wake
    <3>3. QED
      BY <2>push, <3>1, <3>2 DEF Push, Waiting
  <2>item. ASSUME NEW c \in Consumers, PopItem(c) PROVE TypeOK'
    <3>1. Head(m_queue) \in Values /\ Tail(m_queue) \in Seq(Values)
      BY <2>item, HeadTailProperties DEF PopItem
    <3>2. QED
      BY <2>item, <3>1 DEF PopItem
  <2>quiet. ASSUME NEW c \in Consumers,
               PopWait(c) \/ TimedPopWait(c) \/ GiveUp(c) \/ Timeout(c)
        PROVE  TypeOK'
    BY <2>quiet DEF PopWait, TimedPopWait, GiveUp, Timeout
  <2>spurious. ASSUME NEW c \in Consumers, SpuriousWakeup(c) PROVE TypeOK'
    BY <2>spurious DEF SpuriousWakeup, Waiting, Wake
  <2>stutter. CASE UNCHANGED vars
    BY <2>stutter DEF vars
  <2>all. QED
    BY <2>push, <2>item, <2>quiet, <2>spurious, <2>stutter DEF Next
<1>3. QED
  BY <1>1, <1>2, PTL DEF Spec

-----------------------------------------------------------------------------
\* The sets of sleeping and of woken consumers are finite, now and after a
\* step.
LEMMA FiniteConsumers ==
  /\ IsFiniteSet(Woken) /\ Cardinality(Woken) \in Nat
  /\ IsFiniteSet(Woken') /\ Cardinality(Woken') \in Nat
<1>1. Woken \in SUBSET Consumers /\ Woken' \in SUBSET Consumers
  BY DEF Woken
<1>2. QED
  BY <1>1, FS_Subset, FS_CardinalityType, WaitableQueueAssumption

\* A consumer that wakes joins the ones on their way to the mutex.
LEMMA WakeCount ==
  ASSUME TypeOK, NEW c \in Waiting, pc' = [pc EXCEPT ![c] = Wake(@)]
  PROVE  Cardinality(Woken') = Cardinality(Woken) + 1
<1>1. Woken' = Woken \union {c} /\ c \notin Woken
  BY DEF TypeOK, Waiting, Woken, Wake
<1>2. QED
  BY <1>1, FiniteConsumers, FS_AddElement

\* A consumer that leaves the woken state is one less on its way.
LEMMA LeaveCount ==
  ASSUME TypeOK, NEW c \in Consumers, NEW s \in {"out", "wait", "twait"},
         pc' = [pc EXCEPT ![c] = s]
  PROVE  Cardinality(Woken') = IF c \in Woken THEN Cardinality(Woken) - 1
                                              ELSE Cardinality(Woken)
<1>1. Woken' = Woken \ {c}
  BY DEF TypeOK, Woken
<1>2. QED
  BY <1>1, FiniteConsumers, FS_RemoveElement

\* No wake-up is lost, for every number of consumers: while one sleeps, every
\* item has an awake consumer.
THEOREM NoWakeupLost == Spec => []NoLostWakeup
<1>1. Init => NoLostWakeup
  BY DEF Init, NoLostWakeup, Waiting
<1>2. TypeOK /\ NoLostWakeup /\ [Next]_vars => NoLostWakeup'
  <2> SUFFICES ASSUME TypeOK, NoLostWakeup, [Next]_vars, Waiting' # {}
               PROVE  Len(m_queue') <= Cardinality(Woken')
    BY DEF NoLostWakeup
  <2>t. pc \in [Consumers -> PCs] /\ m_queue \in Seq(Values) /\ Len(m_queue) \in Nat
    BY LenProperties DEF TypeOK
  <2>1. ASSUME NEW v \in Values, Push(v) PROVE Len(m_queue') <= Cardinality(Woken')
    <3>1. Len(m_queue') = Len(m_queue) + 1
      BY <2>1, <2>t, AppendProperties DEF Push
    <3>2. Waiting # {}
      BY <2>1 DEF Push, Waiting
    <3>3. Cardinality(Woken') = Cardinality(Woken) + 1
      BY <2>1, <3>2, WakeCount DEF Push
    <3>4. QED
      BY <3>1, <3>2, <3>3, <2>t, FiniteConsumers DEF NoLostWakeup
  <2>2. ASSUME NEW c \in Consumers, PopItem(c)
        PROVE  Len(m_queue') <= Cardinality(Woken')
    <3>1. Len(m_queue') = Len(m_queue) - 1 /\ Len(m_queue) > 0
      BY <2>2, <2>t, HeadTailProperties, EmptySeq DEF PopItem
    <3>2. Waiting # {}
      BY <2>2, <2>t DEF PopItem, Waiting
    <3>3. Cardinality(Woken') >= Cardinality(Woken) - 1
      <4>1. Cardinality(Woken') = IF c \in Woken THEN Cardinality(Woken) - 1
                                                  ELSE Cardinality(Woken)
        BY <2>2, LeaveCount DEF PopItem
      <4>2. QED
        BY <4>1, FiniteConsumers
    <3>4. QED
      BY <3>1, <3>2, <3>3, <2>t, FiniteConsumers DEF NoLostWakeup
  <2>3. ASSUME NEW c \in Consumers, PopWait(c) \/ TimedPopWait(c) \/ GiveUp(c)
        PROVE  Len(m_queue') <= Cardinality(Woken')
    <3>1. m_queue' = <<>>
      BY <2>3 DEF PopWait, TimedPopWait, GiveUp
    <3>2. QED
      BY <3>1, FiniteConsumers, EmptySeq
  <2>4. ASSUME NEW c \in Consumers, Timeout(c) \/ SpuriousWakeup(c)
        PROVE  Len(m_queue') <= Cardinality(Woken')
    <3>1. Woken \subseteq Woken' /\ m_queue' = m_queue /\ Waiting # {}
      BY <2>4, <2>t DEF Timeout, SpuriousWakeup, Waiting, Woken, Wake, PCs
    <3>2. Cardinality(Woken) <= Cardinality(Woken')
      BY <3>1, FiniteConsumers, FS_Subset
    <3>3. QED
      BY <3>1, <3>2, <2>t, FiniteConsumers DEF NoLostWakeup
  <2>5. CASE UNCHANGED vars
    BY <2>5 DEF vars, NoLostWakeup, Waiting, Woken
  <2>6. QED
    BY <2>5, <2>1, <2>2, <2>3, <2>4 DEF Next
<1>3. QED
  BY <1>1, <1>2, TypeCorrect, PTL DEF Spec

-----------------------------------------------------------------------------
\* Every behaviour of the queue with its mutex and condition variable is one
\* of the atomic blocking queue: the safety half of ImplementsBlockingQueue.
THEOREM Implements == Spec => Abstract!Spec
<1> DEFINE calls == [c \in Consumers |-> Call(c)]
<1>1. Init => Abstract!Init
  BY DEF Init, Abstract!Init, Call
<1>2. TypeOK /\ [Next]_vars => [Abstract!Next]_(Abstract!vars)
  <2> SUFFICES ASSUME TypeOK, [Next]_vars, ~ UNCHANGED Abstract!vars
               PROVE  Abstract!Next
    OBVIOUS
  <2>t. pc \in [Consumers -> PCs]
    BY DEF TypeOK
  <2>1. ASSUME NEW v \in Values, Push(v) PROVE Abstract!Next
    <3>1. calls' = calls
      BY <2>1, <2>t DEF Push, Call, Waiting, Wake, PCs
    <3>2. Abstract!Push(v)
      BY <2>1, <3>1 DEF Push, Abstract!Push
    <3>3. QED
      BY <3>2 DEF Abstract!Next
  <2>2. ASSUME NEW c \in Consumers, PopItem(c) PROVE Abstract!Next
    <3>1. calls' = [calls EXCEPT ![c] = "none"]
      BY <2>2, <2>t DEF PopItem, Call, PCs
    <3>2. CASE pc[c] = "out"
      <4>1. calls' = calls /\ calls[c] = "none"
        BY <3>1, <3>2 DEF Call
      <4>2. Abstract!TakeAtOnce(c)
        BY <2>2, <4>1 DEF PopItem, Abstract!TakeAtOnce
      <4>3. QED
        BY <4>2 DEF Abstract!Next
    <3>3. CASE pc[c] # "out"
      <4>1. calls[c] # "none"
        BY <3>3 DEF Call
      <4>2. Abstract!Take(c)
        BY <2>2, <3>1, <4>1 DEF PopItem, Abstract!Take
      <4>3. QED
        BY <4>2 DEF Abstract!Next
    <3>4. QED
      BY <3>2, <3>3
  <2>3. ASSUME NEW c \in Consumers, PopWait(c) PROVE Abstract!Next
    <3>1. calls' = [calls EXCEPT ![c] = "pop"]
      BY <2>3, <2>t DEF PopWait, Call, PCs
    <3>2. CASE pc[c] = "out"
      <4>1. Abstract!Call(c, "pop")
        BY <2>3, <3>1, <3>2 DEF PopWait, Abstract!Call, Call
      <4>2. QED
        BY <4>1 DEF Abstract!Next
    <3>3. CASE pc[c] = "woken"
      <4>1. calls' = calls
        BY <3>1, <3>3 DEF Call
      <4>2. QED
        BY <2>3, <4>1 DEF PopWait, Abstract!vars
    <3>4. QED
      BY <2>3, <3>2, <3>3 DEF PopWait
  <2>4. ASSUME NEW c \in Consumers, TimedPopWait(c) PROVE Abstract!Next
    <3>1. calls' = [calls EXCEPT ![c] = "timed"]
      BY <2>4, <2>t DEF TimedPopWait, Call, PCs
    <3>2. CASE pc[c] = "out"
      <4>1. Abstract!Call(c, "timed")
        BY <2>4, <3>1, <3>2 DEF TimedPopWait, Abstract!Call, Call
      <4>2. QED
        BY <4>1 DEF Abstract!Next
    <3>3. CASE pc[c] = "twoken"
      <4>1. calls' = calls
        BY <3>1, <3>3 DEF Call
      <4>2. QED
        BY <2>4, <4>1 DEF TimedPopWait, Abstract!vars
    <3>4. QED
      BY <2>4, <3>2, <3>3 DEF TimedPopWait
  <2>5. ASSUME NEW c \in Consumers, GiveUp(c) PROVE Abstract!Next
    <3>1. calls' = [calls EXCEPT ![c] = "none"] /\ calls[c] = "timed"
      BY <2>5, <2>t DEF GiveUp, Call, PCs
    <3>2. Abstract!GiveUp(c)
      BY <2>5, <3>1 DEF GiveUp, Abstract!GiveUp
    <3>3. QED
      BY <3>2 DEF Abstract!Next
  <2>6. ASSUME NEW c \in Consumers, Timeout(c) \/ SpuriousWakeup(c)
        PROVE  Abstract!Next
    <3>1. calls' = calls
      BY <2>6, <2>t DEF Timeout, SpuriousWakeup, Call, Waiting, Wake, PCs
    <3>2. QED
      BY <2>6, <3>1 DEF Timeout, SpuriousWakeup, Abstract!vars
  <2>7. CASE UNCHANGED vars
    BY <2>7 DEF vars, Abstract!vars, Call
  <2>8. QED
    BY <2>1, <2>2, <2>3, <2>4, <2>5, <2>6, <2>7 DEF Next
<1>3. QED
  BY <1>1, <1>2, TypeCorrect, PTL DEF Spec, Abstract!Spec

-----------------------------------------------------------------------------
(* Dispatcher.                                                              *)

Frames == [by : Dispatchers, end : BOOLEAN, copy : SUBSET Callbacks, died : SUBSET Callbacks]

DispatcherTypeOK ==
  /\ m_callbacks \in [Dispatchers -> SUBSET Callbacks]
  /\ m_dispatcher \in [Callbacks -> Dispatchers \union {NoDispatcher}]
  /\ casting \in Seq(Frames) /\ NoDispatcher \notin dead

\* A destroyed callback in a copy died after the copy was made.  No two destructors
\* are of one dispatcher, and it is not dead yet; nobody but the callbacks left in
\* its copy points to it, and those point nowhere else.
LoopsKnown ==
  /\ \A i \in DOMAIN casting, c \in Callbacks \ mixed :
       c \in casting[i].copy /\ c \in dead => c \in casting[i].died
  /\ \A i \in DeathLoops : casting[i].by \notin dead
  /\ \A i, j \in DeathLoops : casting[i].by = casting[j].by => i = j
  /\ \A i \in DeathLoops, c \in Callbacks \ mixed :
       /\ c \in casting[i].copy => m_dispatcher[c] \in {casting[i].by, NoDispatcher}
       /\ m_dispatcher[c] = casting[i].by => c \in casting[i].copy

DispatcherInv == DispatcherTypeOK /\ BothEndsAgree /\ LoopsKnown

\* The loops there are, and what a frame is.
LEMMA FrameFacts ==
  ASSUME DispatcherTypeOK
  PROVE  /\ DOMAIN casting = 1 .. Len(casting) /\ Len(casting) \in Nat
         /\ \A i \in DOMAIN casting : casting[i] \in Frames
         /\ casting # << >> => Len(casting) \in DOMAIN casting
<1>1. casting \in Seq(Frames)
  BY DEF DispatcherTypeOK
<1>2. DOMAIN casting = 1 .. Len(casting) /\ Len(casting) \in Nat
  BY <1>1, LenProperties
<1>3. \A i \in DOMAIN casting : casting[i] \in Frames
  BY <1>1, <1>2, ElementOfSeq
<1>4. casting # << >> => Len(casting) # 0
  BY <1>1, EmptySeq
<1> QED
  BY <1>2, <1>3, <1>4

\* Steps that leave the loops alone: subscriptions.
LEMMA SubscribeInv ==
  ASSUME DispatcherInv, NEW d \in Dispatchers, NEW c \in Callbacks, Subscribe(d, c)
  PROVE  DispatcherInv'
<1> USE ObserversAssumption DEF DispatcherInv, NoDispatcher
<1>1. /\ d \notin dead /\ c \notin dead /\ UNCHANGED <<dead, casting, stale>>
      /\ m_callbacks' = [m_callbacks EXCEPT ![d] = @ \union {c}]
      /\ m_dispatcher' = [m_dispatcher EXCEPT ![c] = d]
      /\ mixed \subseteq mixed'
      /\ c \notin mixed' => /\ m_dispatcher[c] \in {NoDispatcher, d} /\ d \notin Dying
                            /\ \A i \in DeathLoops : c \notin casting[i].copy
  BY DEF Subscribe, LiveCallbacks
<1>2. DispatcherTypeOK'
  BY <1>1 DEF DispatcherTypeOK
<1>3. DeathLoops' = DeathLoops
  BY <1>1 DEF DeathLoops
<1>4. d \notin Dying => \A i \in DeathLoops : casting[i].by # d
  BY DEF Dying
<1>5. BothEndsAgree'
  BY <1>1, <1>3 DEF DispatcherTypeOK, BothEndsAgree
<1>6. LoopsKnown'
  BY <1>1, <1>3, <1>4 DEF DispatcherTypeOK, LoopsKnown
<1> QED
  BY <1>2, <1>5, <1>6

LEMMA UnSubscribeInv ==
  ASSUME DispatcherInv, NEW d \in Dispatchers, NEW c \in Callbacks, UnSubscribe(d, c)
  PROVE  DispatcherInv'
<1> USE ObserversAssumption DEF DispatcherInv, NoDispatcher
<1>1. /\ UNCHANGED <<dead, casting, stale>>
      /\ m_callbacks' = [m_callbacks EXCEPT ![d] = @ \ {c}]
      /\ m_dispatcher' = [m_dispatcher EXCEPT ![c] = NoDispatcher]
      /\ mixed \subseteq mixed'
      /\ c \notin mixed' => m_dispatcher[c] \in {NoDispatcher, d}
  BY DEF UnSubscribe
<1>2. DispatcherTypeOK'
  BY <1>1 DEF DispatcherTypeOK
<1>3. DeathLoops' = DeathLoops
  BY <1>1 DEF DeathLoops
<1>4. BothEndsAgree'
  BY <1>1, <1>3 DEF DispatcherTypeOK, BothEndsAgree
<1>5. LoopsKnown'
  <2>1. \A i \in DeathLoops : casting[i].by \in Dispatchers
    BY FrameFacts DEF DeathLoops, Frames
  <2> QED
    BY <1>1, <1>3, <2>1 DEF DispatcherTypeOK, LoopsKnown
<1> QED
  BY <1>2, <1>4, <1>5

\* A callback dies; every loop learns of it.
LEMMA DestroyCallbackInv ==
  ASSUME DispatcherInv, NEW c \in Callbacks, DestroyCallback(c)
  PROVE  DispatcherInv'
<1> USE ObserversAssumption DEF DispatcherInv, NoDispatcher
<1>1. /\ c \notin dead /\ dead' = dead \union {c} /\ mixed' = mixed
      /\ m_callbacks' = [e \in Dispatchers |-> IF e = m_dispatcher[c] /\ e \notin dead
                                               THEN m_callbacks[e] \ {c} ELSE m_callbacks[e]]
      /\ m_dispatcher' = [m_dispatcher EXCEPT ![c] = NoDispatcher]
      /\ stale' = IF m_dispatcher[c] \in dead THEN stale \union {c} ELSE stale
      /\ casting' = [i \in DOMAIN casting |-> [casting[i] EXCEPT !.died = @ \union {c}]]
  BY DEF DestroyCallback, LiveCallbacks, Died
<1>2. /\ DOMAIN casting' = DOMAIN casting
      /\ \A i \in DOMAIN casting :
           /\ casting'[i] \in Frames
           /\ casting'[i].by = casting[i].by /\ casting'[i].end = casting[i].end
           /\ casting'[i].copy = casting[i].copy /\ casting'[i].died = casting[i].died \union {c}
  BY <1>1, FrameFacts DEF Frames
<1>3. DispatcherTypeOK'
  <2>1. casting' \in Seq(Frames)
    <3>1. casting' \in [1 .. Len(casting) -> Frames] /\ Len(casting) \in Nat
      BY <1>1, <1>2, FrameFacts, Zenon
    <3> QED
      BY <3>1
  <2>2. m_callbacks' \in [Dispatchers -> SUBSET Callbacks]
    BY <1>1 DEF DispatcherTypeOK
  <2>3. m_dispatcher' \in [Callbacks -> Dispatchers \union {NoDispatcher}]
    BY <1>1 DEF DispatcherTypeOK
  <2> QED
    BY <1>1, <2>1, <2>2, <2>3 DEF DispatcherTypeOK
<1>4. DeathLoops' = DeathLoops /\ \A i \in DeathLoops : i \in DOMAIN casting
  BY <1>2 DEF DeathLoops
<1>5. BothEndsAgree'
  <2> SUFFICES ASSUME NEW b \in Callbacks \ mixed
               PROVE  /\ b \notin stale'
                      /\ \A d \in Dispatchers :
                           /\ m_dispatcher'[b] = d => b \in m_callbacks'[d] /\ d \notin dead' /\ b \notin dead'
                           /\ b \in m_callbacks'[d] => \/ m_dispatcher'[b] = d
                                \/ \E i \in DeathLoops' : casting'[i].by = d /\ b \notin casting'[i].copy
    BY <1>1 DEF BothEndsAgree
  <2>1. /\ b \notin stale
        /\ m_dispatcher[b] \in dead => m_dispatcher[b] = NoDispatcher
        /\ b \in Callbacks
    BY DEF BothEndsAgree, DispatcherTypeOK
  <2>2. ASSUME NEW d \in Dispatchers
        PROVE  /\ m_dispatcher[b] = d => b \in m_callbacks[d] /\ d \notin dead /\ b \notin dead
               /\ b \in m_callbacks[d] => \/ m_dispatcher[b] = d
                                          \/ \E i \in DeathLoops : casting[i].by = d /\ b \notin casting[i].copy
    BY DEF BothEndsAgree
  <2>3. ASSUME NEW d \in Dispatchers, \E i \in DeathLoops : casting[i].by = d /\ b \notin casting[i].copy
        PROVE  \E i \in DeathLoops' : casting'[i].by = d /\ b \notin casting'[i].copy
    BY <1>2, <1>4, <2>3
  <2>4. b \notin stale'
    <3>1. m_dispatcher[b] \notin dead
      BY <2>1 DEF DispatcherTypeOK
    <3> QED
      BY <1>1, <2>1, <3>1
  <2>5. ASSUME NEW d \in Dispatchers, m_dispatcher'[b] = d
        PROVE  b \in m_callbacks'[d] /\ d \notin dead' /\ b \notin dead'
    <3>1. b # c /\ m_dispatcher[b] = d /\ d # c
      BY <1>1, <2>5 DEF DispatcherTypeOK
    <3>2. b \in m_callbacks[d] /\ d \notin dead /\ b \notin dead
      BY <2>2, <3>1
    <3> QED
      BY <1>1, <3>1, <3>2
  <2>6. ASSUME NEW d \in Dispatchers, b \in m_callbacks'[d]
        PROVE  \/ m_dispatcher'[b] = d
               \/ \E i \in DeathLoops' : casting'[i].by = d /\ b \notin casting'[i].copy
    <3>1. b \in m_callbacks[d] /\ ~(b = c /\ d = m_dispatcher[c] /\ d \notin dead)
      BY <1>1, <2>6
    <3>2. CASE m_dispatcher[b] = d
      <4>1. b # c
        BY <2>2, <3>1, <3>2
      <4> QED
        BY <1>1, <3>2, <4>1 DEF DispatcherTypeOK
    <3> QED
      BY <2>2, <2>3, <3>1, <3>2
  <2> QED
    BY <2>4, <2>5, <2>6
<1>6. LoopsKnown'
  <2>1. \A i \in DeathLoops : casting[i].by \in Dispatchers
    BY <1>4, FrameFacts DEF Frames
  <2>2. \A i \in DOMAIN casting', b \in Callbacks \ mixed' :
          b \in casting'[i].copy /\ b \in dead' => b \in casting'[i].died
    BY <1>1, <1>2 DEF LoopsKnown
  <2>3. \A i \in DeathLoops' : casting'[i].by \notin dead'
    BY <1>1, <1>2, <1>4, <2>1 DEF LoopsKnown
  <2>4. \A i, j \in DeathLoops' : casting'[i].by = casting'[j].by => i = j
    BY <1>2, <1>4 DEF LoopsKnown
  <2>5. \A i \in DeathLoops', b \in Callbacks \ mixed' :
          /\ b \in casting'[i].copy => m_dispatcher'[b] \in {casting'[i].by, NoDispatcher}
          /\ m_dispatcher'[b] = casting'[i].by => b \in casting'[i].copy
    BY <1>1, <1>2, <1>4, <2>1 DEF LoopsKnown, DispatcherTypeOK
  <2> QED
    BY <2>2, <2>3, <2>4, <2>5 DEF LoopsKnown
<1> QED
  BY <1>3, <1>5, <1>6

\* A loop begins: it has the callbacks of its dispatcher, and those that are not
\* mixed live.
LEMMA BeginInv ==
  ASSUME DispatcherInv, NEW d \in Dispatchers, Broadcast(d) \/ DestroyDispatcher(d)
  PROVE  DispatcherInv'
<1> USE ObserversAssumption DEF DispatcherInv, NoDispatcher
<1>1. PICK frame \in Frames : /\ casting' = Append(casting, frame) /\ frame.by = d /\ frame.copy = m_callbacks[d]
                              /\ frame.end => d \notin dead \union Dying
                              /\ ~frame.end => mixed' = IF d \in Dying
                                                        THEN mixed \union {c \in m_callbacks[d] : m_dispatcher[c] # d}
                                                        ELSE mixed
                              /\ frame.end => mixed' = mixed
  <2>1. CASE Broadcast(d)
    <3> DEFINE fr == [by |-> d, end |-> FALSE, copy |-> m_callbacks[d], died |-> {}]
    <3>1. fr \in Frames
      BY DEF Frames, DispatcherTypeOK
    <3> QED
      BY <2>1, <3>1 DEF Broadcast
  <2>2. CASE DestroyDispatcher(d)
    <3> DEFINE fr == [by |-> d, end |-> TRUE, copy |-> m_callbacks[d], died |-> {}]
    <3>1. fr \in Frames
      BY DEF Frames, DispatcherTypeOK
    <3> QED
      BY <2>2, <3>1 DEF DestroyDispatcher
  <2> QED
    BY <2>1, <2>2
<1>2. UNCHANGED <<m_callbacks, m_dispatcher, dead, stale>> /\ d \notin dead
  BY DEF Broadcast, DestroyDispatcher
<1> DEFINE k == Len(casting)
<1>3. /\ casting' \in Seq(Frames) /\ DOMAIN casting' = 1 .. k + 1 /\ DOMAIN casting = 1 .. k /\ k \in Nat
      /\ casting'[k + 1] = frame /\ \A i \in DOMAIN casting : casting'[i] = casting[i]
  <2>1. casting \in Seq(Frames)
    BY DEF DispatcherTypeOK
  <2> QED
    BY <1>1, <2>1, AppendProperties, LenProperties
<1>4. DispatcherTypeOK'
  BY <1>2, <1>3 DEF DispatcherTypeOK
<1>5. /\ \A i \in DeathLoops : i \in DeathLoops' /\ casting'[i] = casting[i]
      /\ \A i \in DeathLoops' : i \in DeathLoops \/ (i = k + 1 /\ frame.end)
  BY <1>3 DEF DeathLoops
<1>6. mixed \subseteq mixed'
  BY <1>1 DEF Frames
<1>7. BothEndsAgree'
  <2> SUFFICES ASSUME NEW c \in Callbacks \ mixed'
               PROVE  /\ c \notin stale
                      /\ \A e \in Dispatchers :
                           /\ m_dispatcher[c] = e => c \in m_callbacks[e] /\ e \notin dead /\ c \notin dead
                           /\ c \in m_callbacks[e] => \/ m_dispatcher[c] = e
                                \/ \E i \in DeathLoops' : casting'[i].by = e /\ c \notin casting'[i].copy
    BY <1>2 DEF BothEndsAgree
  <2> QED
    BY <1>5, <1>6 DEF BothEndsAgree
<1>8. \A c \in Callbacks \ mixed' : c \in m_callbacks[d] => m_dispatcher[c] = d /\ c \notin dead
  <2> SUFFICES ASSUME NEW c \in Callbacks \ mixed', c \in m_callbacks[d], m_dispatcher[c] # d PROVE FALSE
    BY <1>6 DEF BothEndsAgree
  <2>1. d \in Dying
    BY <1>6 DEF BothEndsAgree, Dying
  <2> QED
    BY <1>1, <2>1
<1>9. \A c \in Callbacks \ mixed' : m_dispatcher[c] = d => c \in m_callbacks[d]
  BY <1>6 DEF BothEndsAgree
<1>10. LoopsKnown'
  <2>1. \A i \in DOMAIN casting', c \in Callbacks \ mixed' :
          c \in casting'[i].copy /\ c \in dead' => c \in casting'[i].died
    <3>1. ASSUME NEW i \in DOMAIN casting', NEW c \in Callbacks \ mixed', c \in casting'[i].copy, c \in dead
          PROVE  c \in casting'[i].died
      <4>1. CASE i \in DOMAIN casting
        BY <1>3, <1>6, <3>1, <4>1 DEF LoopsKnown
      <4>2. CASE i = k + 1
        BY <1>1, <1>3, <1>8, <3>1, <4>2
      <4> QED
        BY <1>3, <4>1, <4>2
    <3> QED
      BY <1>2, <3>1
  <2>2. \A i \in DeathLoops' : casting'[i].by \notin dead'
    BY <1>1, <1>2, <1>3, <1>5 DEF LoopsKnown
  <2>3. frame.end => \A i \in DeathLoops : casting[i].by # d
    BY <1>1 DEF Dying
  <2>4. ASSUME NEW i \in DeathLoops', NEW j \in DeathLoops', casting'[i].by = casting'[j].by PROVE i = j
    <3>1. CASE i \in DeathLoops /\ j \in DeathLoops
      BY <1>5, <2>4, <3>1 DEF LoopsKnown
    <3>2. CASE i \in DeathLoops /\ j = k + 1 /\ frame.end
      BY <1>1, <1>3, <1>5, <2>3, <2>4, <3>2
    <3>3. CASE j \in DeathLoops /\ i = k + 1 /\ frame.end
      BY <1>1, <1>3, <1>5, <2>3, <2>4, <3>3
    <3> QED
      BY <1>5, <3>1, <3>2, <3>3
  <2>5. \A i \in DeathLoops', c \in Callbacks \ mixed' :
          /\ c \in casting'[i].copy => m_dispatcher'[c] \in {casting'[i].by, NoDispatcher}
          /\ m_dispatcher'[c] = casting'[i].by => c \in casting'[i].copy
    <3>1. ASSUME NEW i \in DeathLoops', NEW c \in Callbacks \ mixed'
          PROVE  /\ c \in casting'[i].copy => m_dispatcher[c] \in {casting'[i].by, NoDispatcher}
                 /\ m_dispatcher[c] = casting'[i].by => c \in casting'[i].copy
      <4>1. CASE i \in DeathLoops
        <5>1. c \in Callbacks \ mixed /\ casting'[i] = casting[i]
          BY <1>5, <1>6, <4>1
        <5> QED
          BY <4>1, <5>1 DEF LoopsKnown
      <4>2. CASE i = k + 1
        BY <1>1, <1>3, <1>8, <1>9, <4>2
      <4> QED
        BY <1>5, <4>1, <4>2
    <3> QED
      BY <1>2, <3>1
  <2> QED
    BY <2>1, <2>2, <2>4, <2>5 DEF LoopsKnown
<1> QED
  BY <1>4, <1>7, <1>10

\* The innermost loop calls a callback.
LEMMA NotifyNextInv ==
  ASSUME DispatcherInv, NEW c \in Callbacks, NotifyNext(c)
  PROVE  DispatcherInv'
<1> USE ObserversAssumption DEF DispatcherInv, NoDispatcher
<1> DEFINE k == Len(casting)
<1>1. /\ k \in DOMAIN casting /\ c \in casting[k].copy
      /\ casting' = [casting EXCEPT ![k].copy = @ \ {c}]
      /\ stale' = IF c \in dead /\ c \notin casting[k].died THEN stale \union {c} ELSE stale
      /\ m_dispatcher' = IF casting[k].end /\ c \notin dead
                         THEN [m_dispatcher EXCEPT ![c] = NoDispatcher] ELSE m_dispatcher
      /\ UNCHANGED <<m_callbacks, dead, mixed>>
  BY FrameFacts DEF NotifyNext, Top
<1>2. /\ DOMAIN casting' = DOMAIN casting
      /\ \A i \in DOMAIN casting :
           /\ casting'[i] \in Frames
           /\ casting'[i].by = casting[i].by /\ casting'[i].end = casting[i].end
           /\ casting'[i].copy = IF i = k THEN casting[i].copy \ {c} ELSE casting[i].copy
           /\ casting'[i].died = casting[i].died
  BY <1>1, FrameFacts DEF Frames
<1>3. DispatcherTypeOK'
  <2>1. casting' \in Seq(Frames)
    <3>1. casting' \in [1 .. k -> Frames] /\ k \in Nat
      <4>1. DOMAIN casting = 1 .. k /\ k \in Nat
        BY FrameFacts
      <4>2. casting' = [i \in DOMAIN casting |-> casting'[i]]
        BY <1>1
      <4> QED
        BY <1>2, <4>1, <4>2
    <3> QED
      BY <3>1
  <2> QED
    BY <1>1, <2>1 DEF DispatcherTypeOK
<1>4. DeathLoops' = DeathLoops /\ \A i \in DeathLoops : i \in DOMAIN casting /\ casting[i].by \in Dispatchers
  BY <1>2, FrameFacts DEF DeathLoops, Frames
<1>5. k \in DeathLoops <=> casting[k].end
  BY <1>1 DEF DeathLoops
<1>6. c \notin mixed => stale' = stale
  BY <1>1 DEF LoopsKnown
<1> HIDE DEF k
<1>7. BothEndsAgree'
  <2>0. \A b \in Callbacks \ mixed : b \notin stale'
    BY <1>1, <1>6 DEF BothEndsAgree
  <2> SUFFICES ASSUME NEW b \in Callbacks \ mixed, NEW d \in Dispatchers
               PROVE  /\ m_dispatcher'[b] = d => b \in m_callbacks[d] /\ d \notin dead /\ b \notin dead
                      /\ b \in m_callbacks[d] => \/ m_dispatcher'[b] = d
                           \/ \E i \in DeathLoops' : casting'[i].by = d /\ b \notin casting'[i].copy
    BY <1>1, <2>0 DEF BothEndsAgree
  <2>1. /\ m_dispatcher[b] = d => b \in m_callbacks[d] /\ d \notin dead /\ b \notin dead
        /\ b \in m_callbacks[d] => \/ m_dispatcher[b] = d
                                   \/ \E i \in DeathLoops : casting[i].by = d /\ b \notin casting[i].copy
    BY DEF BothEndsAgree
  <2>2. ASSUME \E i \in DeathLoops : casting[i].by = d /\ b \notin casting[i].copy
        PROVE  \E i \in DeathLoops' : casting'[i].by = d /\ b \notin casting'[i].copy
    BY <1>2, <1>4, <2>2
  <2>4. m_dispatcher'[b] = d => m_dispatcher[b] = d
    BY <1>1 DEF DispatcherTypeOK
  <2>5. ASSUME m_dispatcher[b] = d, m_dispatcher'[b] # d
        PROVE  \E i \in DeathLoops' : casting'[i].by = d /\ b \notin casting'[i].copy
    <3>1. b = c /\ casting[k].end
      BY <1>1, <2>5 DEF DispatcherTypeOK
    <3>2. k \in DeathLoops /\ casting[k].by = d
      BY <1>1, <1>5, <2>5, <3>1 DEF LoopsKnown
    <3> QED
      BY <1>1, <1>2, <1>4, <3>1, <3>2
  <2> QED
    BY <2>1, <2>2, <2>4, <2>5
<1>8. LoopsKnown'
  <2>1. \A i \in DOMAIN casting', b \in Callbacks \ mixed' :
          b \in casting'[i].copy /\ b \in dead' => b \in casting'[i].died
    BY <1>1, <1>2 DEF LoopsKnown
  <2>2. \A i \in DeathLoops' : casting'[i].by \notin dead'
    BY <1>1, <1>2, <1>4 DEF LoopsKnown
  <2>3. \A i, j \in DeathLoops' : casting'[i].by = casting'[j].by => i = j
    <3>1. \A i \in DeathLoops : casting'[i].by = casting[i].by
      BY <1>2, <1>4
    <3> QED
      BY <1>4, <3>1 DEF LoopsKnown
  <2>4. ASSUME NEW i \in DeathLoops, NEW b \in Callbacks \ mixed
        PROVE  /\ b \in casting'[i].copy => m_dispatcher'[b] \in {casting[i].by, NoDispatcher}
               /\ m_dispatcher'[b] = casting[i].by => b \in casting'[i].copy
    <3>1. /\ b \in casting[i].copy => m_dispatcher[b] \in {casting[i].by, NoDispatcher}
          /\ m_dispatcher[b] = casting[i].by => b \in casting[i].copy
          /\ i \in DOMAIN casting /\ casting[i].by \in Dispatchers
      BY <1>4 DEF LoopsKnown
    <3>2. m_dispatcher'[b] = m_dispatcher[b] \/ (m_dispatcher'[b] = NoDispatcher)
      BY <1>1 DEF DispatcherTypeOK
    <3>3. b \in casting'[i].copy => m_dispatcher'[b] \in {casting[i].by, NoDispatcher}
      BY <1>2, <3>1, <3>2
    <3>4. ASSUME m_dispatcher'[b] = casting[i].by PROVE b \in casting'[i].copy
      <4>1. m_dispatcher[b] = casting[i].by
        BY <3>1, <3>2, <3>4
      <4>2. b \in casting[i].copy /\ b \notin dead
        BY <3>1, <4>1 DEF BothEndsAgree
      <4>3. ~(i = k /\ b = c)
        <5> SUFFICES ASSUME i = k, b = c PROVE FALSE
          OBVIOUS
        <5>1. m_dispatcher'[b] = NoDispatcher
          BY <1>1, <1>5, <4>2 DEF DispatcherTypeOK
        <5> QED
          BY <3>1, <3>4, <5>1
      <4> QED
        BY <1>2, <3>1, <4>2, <4>3
    <3> QED
      BY <3>3, <3>4
  <2>5. \A i \in DeathLoops', b \in Callbacks \ mixed' :
          /\ b \in casting'[i].copy => m_dispatcher'[b] \in {casting'[i].by, NoDispatcher}
          /\ m_dispatcher'[b] = casting'[i].by => b \in casting'[i].copy
    BY <1>1, <1>2, <1>4, <2>4
  <2> QED
    BY <2>1, <2>2, <2>3, <2>5 DEF LoopsKnown
<1> QED
  BY <1>3, <1>7, <1>8

\* The innermost loop ends.
LEMMA EndCastInv ==
  ASSUME DispatcherInv, EndCast
  PROVE  DispatcherInv'
<1> USE ObserversAssumption DEF DispatcherInv, NoDispatcher
<1> DEFINE k == Len(casting)
           top == casting[k]
<1>1. /\ k \in DOMAIN casting /\ top.copy = {} /\ top.by \in Dispatchers /\ top.end \in BOOLEAN
      /\ casting' = SubSeq(casting, 1, k - 1)
      /\ m_callbacks' = IF top.end THEN [m_callbacks EXCEPT ![top.by] = {}] ELSE m_callbacks
      /\ dead' = IF top.end THEN dead \union {top.by} ELSE dead
      /\ UNCHANGED <<m_dispatcher, mixed, stale>>
  BY FrameFacts DEF EndCast, Top, Front, Frames
<1>2. /\ casting' \in Seq(Frames) /\ DOMAIN casting' = 1 .. k - 1 /\ DOMAIN casting = 1 .. k /\ k \in Nat
      /\ \A i \in 1 .. k - 1 : casting'[i] = casting[i]
  <2>1. DOMAIN casting = 1 .. k /\ k \in Nat /\ \A i \in 1 .. k : casting[i] \in Frames
    BY FrameFacts
  <2>2. k >= 1 /\ k - 1 \in Int /\ 1 \in Int
    BY <1>1, <2>1
  <2>3. /\ SubSeq(casting, 1, k - 1) \in Seq(Frames)
        /\ Len(SubSeq(casting, 1, k - 1)) = IF 1 <= k - 1 THEN (k - 1) - 1 + 1 ELSE 0
        /\ \A i \in 1 .. (k - 1) - 1 + 1 : SubSeq(casting, 1, k - 1)[i] = casting[1 + i - 1]
    <3>1. \A i \in 1 .. k - 1 : casting[i] \in Frames
      BY <2>1
    <3> QED
      BY <2>2, <3>1, SubSeqProperties
  <2> HIDE DEF k
  <2>4. Len(casting') = k - 1 /\ \A i \in 1 .. k - 1 : casting'[i] = casting[i]
    BY <1>1, <2>1, <2>2, <2>3
  <2> QED
    BY <1>1, <2>1, <2>3, <2>4, LenProperties
<1> HIDE DEF k
<1>3. DispatcherTypeOK'
  BY <1>1, <1>2 DEF DispatcherTypeOK
<1>4. /\ \A i \in DeathLoops' : i \in DeathLoops /\ i # k /\ casting'[i] = casting[i]
      /\ \A i \in DeathLoops : i # k => i \in DeathLoops' /\ casting'[i] = casting[i]
      /\ k \in DeathLoops <=> top.end
  BY <1>1, <1>2 DEF DeathLoops
<1>5. \A i \in DeathLoops : i # k /\ top.end => casting[i].by # top.by
  BY <1>4 DEF LoopsKnown
<1>6. \A c \in Callbacks \ mixed : top.end => m_dispatcher[c] # top.by
  BY <1>1, <1>4 DEF LoopsKnown
<1> HIDE DEF top
<1>7. BothEndsAgree'
  <2>0. UNCHANGED <<m_dispatcher, mixed, stale>> /\ \A c \in Callbacks \ mixed : c \notin stale
    BY <1>1 DEF BothEndsAgree
  <2> SUFFICES ASSUME NEW c \in Callbacks \ mixed, NEW d \in Dispatchers
               PROVE  /\ m_dispatcher[c] = d => c \in m_callbacks'[d] /\ d \notin dead' /\ c \notin dead'
                      /\ c \in m_callbacks'[d] => \/ m_dispatcher[c] = d
                           \/ \E i \in DeathLoops' : casting'[i].by = d /\ c \notin casting'[i].copy
    BY <2>0 DEF BothEndsAgree
  <2>1. /\ m_dispatcher[c] = d => c \in m_callbacks[d] /\ d \notin dead /\ c \notin dead
        /\ c \in m_callbacks[d] => \/ m_dispatcher[c] = d
                                   \/ \E i \in DeathLoops : casting[i].by = d /\ c \notin casting[i].copy
    BY DEF BothEndsAgree
  <2>2. CASE top.end /\ d = top.by
    BY <1>1, <1>6, <2>1, <2>2 DEF DispatcherTypeOK
  <2>3. CASE ~(top.end /\ d = top.by)
    <3>1. m_callbacks'[d] = m_callbacks[d] /\ (d \in dead' <=> d \in dead) /\ (c \in dead' <=> c \in dead)
      BY <1>1, <2>3 DEF DispatcherTypeOK
    <3>2. \A i \in DeathLoops : casting[i].by = d => i # k
      BY <1>4, <2>3 DEF top
    <3> QED
      BY <1>4, <2>1, <3>1, <3>2
  <2> QED
    BY <2>2, <2>3
<1>8. LoopsKnown'
  <2>1. \A i \in DeathLoops : casting[i].by \in Dispatchers
    BY FrameFacts DEF DeathLoops, Frames
  <2>2. \A i \in DOMAIN casting', c \in Callbacks \ mixed' :
          c \in casting'[i].copy /\ c \in dead' => c \in casting'[i].died
    BY <1>1, <1>2 DEF LoopsKnown
  <2>3. \A i \in DeathLoops' : casting'[i].by \notin dead'
    BY <1>1, <1>4, <1>5 DEF LoopsKnown
  <2>4. \A i, j \in DeathLoops' : casting'[i].by = casting'[j].by => i = j
    BY <1>4 DEF LoopsKnown
  <2>5. \A i \in DeathLoops', c \in Callbacks \ mixed' :
          /\ c \in casting'[i].copy => m_dispatcher'[c] \in {casting'[i].by, NoDispatcher}
          /\ m_dispatcher'[c] = casting'[i].by => c \in casting'[i].copy
    BY <1>1, <1>4 DEF LoopsKnown
  <2> QED
    BY <2>2, <2>3, <2>4, <2>5 DEF LoopsKnown
<1> QED
  BY <1>3, <1>7, <1>8

\* Every step of dispatchers and callbacks keeps the invariant.
LEMMA DispatcherNextInv == DispatcherInv /\ [DispatcherNext]_dispatcherVars => DispatcherInv'
<1>1. DispatcherInv /\ UNCHANGED dispatcherVars => DispatcherInv'
  BY DEF dispatcherVars, DispatcherInv, DispatcherTypeOK, BothEndsAgree, LoopsKnown, DeathLoops
<1> QED
  BY <1>1, SubscribeInv, UnSubscribeInv, DestroyCallbackInv, BeginInv, NotifyNextInv, EndCastInv DEF DispatcherNext

\* There are no callbacks at the start.
LEMMA DispatcherInitInv == DispatcherInit => DispatcherInv
<1> SUFFICES ASSUME DispatcherInit PROVE DispatcherInv
  OBVIOUS
<1>1. casting \in Seq(Frames) /\ DOMAIN casting = {}
  BY EmptySeq DEF DispatcherInit
<1>2. DeathLoops = {}
  BY <1>1 DEF DeathLoops
<1> QED
  BY <1>1, <1>2, ObserversAssumption
     DEF DispatcherInit, DispatcherInv, DispatcherTypeOK, BothEndsAgree, LoopsKnown, NoDispatcher

\* Dispatchers and callbacks know of each other whatever observers do while they are
\* notified, loops inside loops and the destruction of the dispatcher at work
\* included, and a destroyed callback is called only by a loop during which it died;
\* this holds for every callback that has not been used with two dispatchers at a
\* time or with a dying one (Subscribe, UnSubscribe, Broadcast, ~Dispatcher and
\* ~BaseCallback, none of which is guarded).
THEOREM DispatchersAgree == DispatcherSpec => []BothEndsAgree
<1>1. DispatcherInv => BothEndsAgree
  BY DEF DispatcherInv
<1> QED
  BY <1>1, DispatcherInitInv, DispatcherNextInv, PTL DEF DispatcherSpec

-----------------------------------------------------------------------------
(* Sequences.                                                               *)

\* What is appended to the second of two sequences is appended to both.
LEMMA ConcatAppend ==
  ASSUME NEW S, NEW s \in Seq(S), NEW t \in Seq(S), NEW e \in S
  PROVE  s \o Append(t, e) = Append(s \o t, e)
<1>1. Append(t, e) = t \o <<e>> /\ s \o t \in Seq(S) /\ <<e>> \in Seq(S)
  BY AppendIsConcat, ConcatProperties
<1>2. Append(s \o t, e) = (s \o t) \o <<e>>
  BY <1>1, AppendIsConcat
<1> QED
  BY <1>1, <1>2, ConcatAssociative

\* The head of the second of two sequences may move to the first.
LEMMA MoveHead ==
  ASSUME NEW S, NEW s \in Seq(S), NEW t \in Seq(S), t # << >>
  PROVE  s \o t = Append(s, Head(t)) \o Tail(t)
<1>1. Head(t) \in S /\ Tail(t) \in Seq(S) /\ <<Head(t)>> \in Seq(S)
  BY HeadTailProperties
<1>2. t = <<Head(t)>> \o Tail(t)
  <2>1. Len(<<Head(t)>>) = 1 /\ <<Head(t)>>[1] = t[1] /\ Len(t) \in Nat \ {0}
    BY EmptySeq
  <2>2. /\ <<Head(t)>> \o Tail(t) \in Seq(S)
        /\ Len(<<Head(t)>> \o Tail(t)) = Len(t)
        /\ \A i \in 1 .. Len(t) : (<<Head(t)>> \o Tail(t))[i] = t[i]
    BY <1>1, <2>1, ConcatProperties, HeadTailProperties
  <2> QED
    BY <2>2, SeqEqual
<1>3. Append(s, Head(t)) = s \o <<Head(t)>>
  BY <1>1, AppendIsConcat
<1>4. (s \o <<Head(t)>>) \o Tail(t) = s \o (<<Head(t)>> \o Tail(t))
  BY <1>1, ConcatAssociative
<1> QED
  BY <1>2, <1>3, <1>4

\* The head and the tail of two sequences are those of the first one.
LEMMA HeadOfBoth ==
  ASSUME NEW S, NEW q \in Seq(S), NEW r \in Seq(S), q # << >>
  PROVE  q \o r \in Seq(S) /\ q \o r # << >> /\ Head(q \o r) = Head(q) /\ Tail(q \o r) = Tail(q) \o r
<1>1. q \o r \in Seq(S) /\ Len(q \o r) = Len(q) + Len(r) /\ Len(q) \in Nat \ {0} /\ Len(r) \in Nat
  BY EmptySeq, LenProperties, ConcatProperties
<1>2. q \o r # << >>
  BY <1>1, EmptySeq
<1>3. Tail(q) \in Seq(S) /\ Len(Tail(q)) = Len(q) - 1 /\ \A i \in 1 .. Len(q) - 1 : Tail(q)[i] = q[i + 1]
  BY <1>1, HeadTailProperties
<1>4. /\ Tail(q \o r) \in Seq(S) /\ Len(Tail(q \o r)) = Len(q) + Len(r) - 1
      /\ \A i \in 1 .. Len(q) + Len(r) - 1 : Tail(q \o r)[i] = (q \o r)[i + 1]
  BY <1>1, <1>2, HeadTailProperties
<1>5. Tail(q) \o r \in Seq(S) /\ Len(Tail(q) \o r) = Len(q) + Len(r) - 1
  BY <1>1, <1>3, ConcatProperties
<1>6. \A i \in 1 .. Len(q) + Len(r) - 1 : Tail(q \o r)[i] = (Tail(q) \o r)[i]
  BY <1>1, <1>3, <1>4, <1>5
<1>7. Tail(q \o r) = Tail(q) \o r
  BY <1>4, <1>5, <1>6, SeqEqual
<1>8. Head(q \o r) = Head(q)
  BY <1>1
<1> QED
  BY <1>1, <1>2, <1>7, <1>8

\* A sequence is the beginning of what it is continued to.
LEMMA IsPrefixOf ==
  ASSUME NEW S, NEW a \in Seq(S), NEW b \in Seq(S)
  PROVE  Len(a) <= Len(a \o b) /\ \A i \in 1 .. Len(a) : a[i] = (a \o b)[i]
<1>1. Len(a) \in Nat /\ Len(b) \in Nat /\ Len(a \o b) = Len(a) + Len(b)
  BY LenProperties, ConcatProperties
<1>2. \A i \in 1 .. Len(a) + Len(b) : (a \o b)[i] = IF i <= Len(a) THEN a[i] ELSE b[i - Len(a)]
  BY ConcatProperties
<1> QED
  BY <1>1, <1>2

-----------------------------------------------------------------------------
(* Logger.                                                                  *)

Messages == LogThreads \X Nat \X Levels

\* The writer ends only when the logger is being destroyed and its queue is empty, so
\* that what was pushed before the destructor began is in the file; what is pushed
\* afterwards waits behind it.
LoggerInv ==
  /\ m_is_alive \in BOOLEAN
  /\ logged \in [LogThreads -> Nat] /\ passed \in [LogThreads -> Messages \union {NoMessage}]
  /\ file \in Seq(Messages) /\ logQueue \in Seq(Messages)
  /\ accepted = file \o logQueue
  /\ due \in Nat /\ due <= Len(file) + Len(logQueue)
  /\ writerAt = "ended" => ~m_is_alive /\ due <= Len(file)

\* Every step of the logger, of its writer and of the threads that log keeps it.
LEMMA LoggerNextInv == LoggerInv /\ [LoggerNext]_loggerVars => LoggerInv'
<1> SUFFICES ASSUME LoggerInv, [LoggerNext]_loggerVars PROVE LoggerInv'
  OBVIOUS
<1>0. Len(file) \in Nat /\ Len(logQueue) \in Nat
  BY LenProperties DEF LoggerInv
<1>1. ASSUME NEW t \in LogThreads, NEW level \in Levels, Log(t, level) PROVE LoggerInv'
  <2>1. <<t, logged[t] + 1, level>> \in Messages
    BY DEF Messages, LoggerInv
  <2>2. logged' \in [LogThreads -> Nat] /\ passed' \in [LogThreads -> Messages \union {NoMessage}]
    BY <1>1, <2>1 DEF Log, LoggerInv
  <2> QED
    BY <1>1, <2>2 DEF Log, LoggerInv
<1>2. ASSUME NEW t \in LogThreads, LogPush(t) PROVE LoggerInv'
  <2>1. /\ passed' \in [LogThreads -> Messages \union {NoMessage}]
        /\ UNCHANGED <<m_is_alive, due, logged, writerAt, file>>
    BY <1>2 DEF LogPush, LoggerInv
  <2>2. CASE ~fileOpen
    BY <1>2, <2>1, <2>2 DEF LogPush, LoggerInv
  <2>3. CASE fileOpen
    <3>1. PICK m \in Messages : m = passed[t]
      BY <1>2 DEF LogPush, LoggerInv
    <3>2. logQueue' = Append(logQueue, m) /\ accepted' = Append(accepted, m)
      BY <1>2, <2>3, <3>1 DEF LogPush
    <3>3. accepted' = file' \o logQueue'
      <4>1. \A x, y \in Seq(Messages) : x \o Append(y, m) = Append(x \o y, m)
        BY ConcatAppend
      <4> QED
        BY <2>1, <3>2, <4>1 DEF LoggerInv
    <3>4. logQueue' \in Seq(Messages) /\ Len(logQueue') = Len(logQueue) + 1
      BY <3>2, AppendProperties DEF LoggerInv
    <3> QED
      BY <1>0, <2>1, <3>3, <3>4 DEF LoggerInv
  <2> QED
    BY <2>2, <2>3
<1>3. ASSUME NEW level \in Levels, SetLevel(level) PROVE LoggerInv'
  BY <1>3 DEF SetLevel, LoggerInv
<1>4. CASE WriterTest
  <2>1. UNCHANGED <<m_is_alive, logQueue, passed, accepted, due, logged, file>>
    BY <1>4 DEF WriterTest
  <2>2. writerAt' = "ended" => ~m_is_alive /\ logQueue = << >>
    BY <1>4 DEF WriterTest, GoesOn
  <2>3. logQueue = << >> => Len(logQueue) = 0
    BY EmptySeq
  <2> QED
    BY <1>0, <2>1, <2>2, <2>3 DEF LoggerInv
<1>5. CASE WriterPop
  <2>1. CASE logQueue = << >>
    BY <1>5, <2>1 DEF WriterPop, LoggerInv
  <2>2. CASE logQueue # << >>
    <3>1. /\ file' = Append(file, Head(logQueue)) /\ logQueue' = Tail(logQueue) /\ writerAt' = "test"
          /\ UNCHANGED <<m_is_alive, accepted, due, logged, passed>>
      BY <1>5, <2>2 DEF WriterPop
    <3>2. /\ file' \in Seq(Messages) /\ logQueue' \in Seq(Messages)
          /\ Len(file') = Len(file) + 1 /\ Len(logQueue') = Len(logQueue) - 1
      BY <2>2, <3>1, HeadTailProperties, AppendProperties DEF LoggerInv
    <3>3. accepted' = file' \o logQueue'
      BY <2>2, <3>1, MoveHead DEF LoggerInv
    <3> QED
      BY <1>0, <3>1, <3>2, <3>3 DEF LoggerInv
  <2> QED
    BY <2>1, <2>2
<1>6. CASE DestroyLogger
  <2>1. /\ m_is_alive /\ m_is_alive' = FALSE /\ due' = Len(accepted)
        /\ UNCHANGED <<logQueue, passed, accepted, logged, writerAt, file>>
    BY <1>6 DEF DestroyLogger
  <2>2. Len(accepted) = Len(file) + Len(logQueue)
    BY ConcatProperties DEF LoggerInv
  <2>3. due' \in Nat /\ due' <= Len(file) + Len(logQueue)
    BY <1>0, <2>1, <2>2
  <2>4. writerAt # "ended"
    BY <2>1, Zenon DEF LoggerInv
  <2> QED
    BY <2>1, <2>3, <2>4 DEF LoggerInv
<1>7. CASE CloseLog
  BY <1>7 DEF CloseLog, LoggerInv
<1>8. CASE UNCHANGED loggerVars
  BY <1>8 DEF loggerVars, LoggerInv
<1> QED
  BY <1>1, <1>2, <1>3, <1>4, <1>5, <1>6, <1>7, <1>8 DEF LoggerNext

\* Nothing has been logged at the start.
LEMMA LoggerInitInv == LoggerInit => LoggerInv
<1>1. << >> \in Seq(Messages) /\ << >> \o << >> = << >> /\ Len(<< >>) = 0
  BY EmptySeq, ConcatEmptySeq
<1> QED
  BY <1>1 DEF LoggerInit, LoggerInv

\* What was due is in the file when the writer has ended.
LEMMA LoggerInvComplete == LoggerInv => LogComplete
BY LenProperties DEF LoggerInv, LogComplete

\* Every message that is pushed is written once and in order, and those pushed before
\* ~Logger began are in the file when the writer has ended, however Log, the writer's
\* time-outs and the destructor alternate; Log is not guarded and may go on beside
\* and after the destructor.
THEOREM LogAlwaysComplete == LoggerSpec => []LogComplete
BY LoggerInitInv, LoggerNextInv, LoggerInvComplete, PTL DEF LoggerSpec

-----------------------------------------------------------------------------
(* Handleton.                                                               *)

HandletonTypeOK ==
  /\ objects \in Nat /\ s_instance \in 0 .. objects /\ freedObjects \subseteq 1 .. objects
  /\ s_isDestroyed \in BOOLEAN
  /\ hAt \in [HThreads -> {"out", "check", "lock", "create", "aborted"}]
  /\ hTmp \in [HThreads -> 0 .. objects]
  /\ destroying \in (0 .. objects) \X {"no", "flag", "clear", "delete"}
  /\ gotWhen \subseteq HThreads \X Nat \X BOOLEAN

\* A thread that is about to create an object holds the lock, and finds none.
LockHeld ==
  \A t \in HThreads : hAt[t] = "create" =>
    s_mutex = {t} /\ (hTmp[t] = NoObject => s_instance = NoObject)

\* Destroy is registered once for every instance, and works on the one it was
\* registered for; every object but these is deleted.
DestroyKnown ==
  /\ destroying[2] \in {"flag", "clear"} =>
       destroying[1] = s_instance /\ s_instance # NoObject /\ atexits = 0
  /\ destroying[2] \in {"no", "delete"} => atexits = IF s_instance = NoObject THEN 0 ELSE 1
  /\ destroying[2] = "delete" => destroying[1] # NoObject /\ destroying[1] # s_instance
  /\ \A o \in 1 .. objects : o \in freedObjects \/ o = s_instance
                             \/ (destroying[2] = "delete" /\ o = destroying[1])
  /\ s_instance \notin freedObjects

\* Before the destruction there is at most the first object.
FirstObject ==
  /\ ~s_isDestroyed => /\ destroying[2] \in {"no", "flag"}
                       /\ objects = IF s_instance = NoObject THEN 0 ELSE 1
  /\ \A g \in gotWhen : ~g[3] => g[2] = 1

HandletonInv == HandletonTypeOK /\ LockHeld /\ DestroyKnown /\ FirstObject

\* What GetInstance returns while the object lives is the first object.
LEMMA ReturnedFirst ==
  ASSUME HandletonInv, NEW t \in HThreads, NEW obj \in Nat,
         gotWhen' = gotWhen \union {<<t, obj, s_isDestroyed>>},
         ~s_isDestroyed => obj = 1
  PROVE  gotWhen' \subseteq HThreads \X Nat \X BOOLEAN /\ \A g \in gotWhen' : ~g[3] => g[2] = 1
<1> DEFINE new == <<t, obj, s_isDestroyed>>
<1>1. new \in HThreads \X Nat \X BOOLEAN
  BY DEF HandletonInv, HandletonTypeOK
<1>2. new[2] = obj /\ new[3] = s_isDestroyed
  OBVIOUS
<1>3. ~new[3] => new[2] = 1
  BY <1>2, Zenon
<1>4. gotWhen' = gotWhen \union {new}
  OBVIOUS
<1> HIDE DEF new
<1>5. gotWhen \subseteq HThreads \X Nat \X BOOLEAN /\ \A g \in gotWhen : ~g[3] => g[2] = 1
  BY DEF HandletonInv, HandletonTypeOK, FirstObject
<1> QED
  BY <1>1, <1>3, <1>4, <1>5, Zenon

\* Every step of GetInstance keeps the invariant.
LEMMA GetInstanceInv ==
  ASSUME HandletonInv, NEW t \in HThreads,
         LoadInstance(t) \/ CheckDestroyed(t) \/ LockAndLoad(t) \/ CreateInstance(t)
  PROVE  HandletonInv'
<1> USE DEF NoObject
<1>1. CASE LoadInstance(t)
  <2>1. UNCHANGED <<s_instance, s_isDestroyed, s_mutex, hTmp, atexits, destroying, objects, freedObjects>>
    BY <1>1 DEF LoadInstance
  <2>2. CASE s_instance = NoObject
    <3>1. hAt' = [hAt EXCEPT ![t] = "check"] /\ gotWhen' = gotWhen
      BY <1>1, <2>2 DEF LoadInstance, Hop
    <3>2. HandletonTypeOK' /\ LockHeld'
      BY <2>1, <3>1 DEF HandletonInv, HandletonTypeOK, LockHeld
    <3> QED
      BY <2>1, <3>1, <3>2 DEF HandletonInv, DestroyKnown, FirstObject
  <2>3. CASE s_instance # NoObject
    <3>1. hAt' = hAt /\ gotWhen' = gotWhen \union {<<t, s_instance, s_isDestroyed>>}
      BY <1>1, <2>3 DEF LoadInstance, Returned
    <3>2. s_instance \in Nat /\ (~s_isDestroyed => s_instance = 1)
      BY <2>3 DEF HandletonInv, HandletonTypeOK, FirstObject
    <3>3. gotWhen' \subseteq HThreads \X Nat \X BOOLEAN /\ \A g \in gotWhen' : ~g[3] => g[2] = 1
      BY <3>1, <3>2, ReturnedFirst
    <3>4. HandletonTypeOK' /\ FirstObject'
      BY <2>1, <3>1, <3>3 DEF HandletonInv, HandletonTypeOK, FirstObject
    <3> QED
      BY <2>1, <3>1, <3>4 DEF HandletonInv, LockHeld, DestroyKnown
  <2> QED
    BY <2>2, <2>3
<1>2. CASE CheckDestroyed(t)
  <2>1. UNCHANGED <<s_instance, s_isDestroyed, s_mutex, hTmp, atexits, destroying, objects, freedObjects, gotWhen>>
    BY <1>2 DEF CheckDestroyed
  <2>2. hAt' \in [HThreads -> {"out", "check", "lock", "create", "aborted"}]
        /\ \A u \in HThreads : hAt'[u] = "create" => hAt[u] = "create"
    BY <1>2 DEF CheckDestroyed, HandletonInv, HandletonTypeOK
  <2> QED
    BY <2>1, <2>2 DEF HandletonInv, HandletonTypeOK, LockHeld, DestroyKnown, FirstObject
<1>3. CASE LockAndLoad(t)
  <2>1. /\ s_mutex = {} /\ s_mutex' = {t} /\ hTmp' = [hTmp EXCEPT ![t] = s_instance]
        /\ hAt' = [hAt EXCEPT ![t] = "create"]
        /\ UNCHANGED <<s_instance, s_isDestroyed, atexits, destroying, objects, freedObjects, gotWhen>>
    BY <1>3 DEF LockAndLoad, LoadAgain, Hop
  <2>2. HandletonTypeOK'
    BY <2>1 DEF HandletonInv, HandletonTypeOK
  <2>3. LockHeld'
    BY <2>1 DEF HandletonInv, HandletonTypeOK, LockHeld
  <2> QED
    BY <2>1, <2>2, <2>3 DEF HandletonInv, DestroyKnown, FirstObject
<1>4. CASE CreateInstance(t)
  <2>1. /\ hAt[t] = "create" /\ s_mutex' = {} /\ hTmp' = [hTmp EXCEPT ![t] = NoObject]
        /\ hAt' = [hAt EXCEPT ![t] = "out"]
        /\ UNCHANGED <<s_isDestroyed, destroying, freedObjects>>
    BY <1>4 DEF CreateInstance, Hop
  <2>2. \A u \in HThreads : hAt'[u] # "create"
    BY <2>1 DEF HandletonInv, HandletonTypeOK, LockHeld
  <2>3. LockHeld'
    BY <2>2 DEF LockHeld
  <2>4. CASE hTmp[t] = NoObject
    <3>1. /\ objects' = objects + 1 /\ s_instance' = objects + 1 /\ atexits' = atexits + 1
          /\ gotWhen' = gotWhen \union {<<t, objects + 1, s_isDestroyed>>}
      BY <1>4, <2>4 DEF CreateInstance, Returned
    <3>2. s_instance = NoObject /\ objects \in Nat
      BY <2>1, <2>4 DEF HandletonInv, HandletonTypeOK, LockHeld
    <3>3. gotWhen' \subseteq HThreads \X Nat \X BOOLEAN /\ \A g \in gotWhen' : ~g[3] => g[2] = 1
      <4>1. objects + 1 \in Nat /\ (~s_isDestroyed => objects + 1 = 1)
        BY <3>2 DEF HandletonInv, FirstObject
      <4> QED
        BY <3>1, <4>1, ReturnedFirst
    <3>4. HandletonTypeOK'
      BY <2>1, <3>1, <3>2, <3>3 DEF HandletonInv, HandletonTypeOK
    <3>5. destroying[2] \in {"no", "delete"} /\ atexits = 0
      BY <3>2 DEF HandletonInv, HandletonTypeOK, DestroyKnown
    <3>6. DestroyKnown'
      BY <2>1, <3>1, <3>2, <3>5 DEF HandletonInv, HandletonTypeOK, DestroyKnown
    <3>7. FirstObject'
      BY <2>1, <3>1, <3>2, <3>3 DEF HandletonInv, FirstObject
    <3> QED
      BY <2>3, <3>4, <3>6, <3>7 DEF HandletonInv
  <2>5. CASE hTmp[t] # NoObject
    <3>1. /\ UNCHANGED <<objects, s_instance, atexits>>
          /\ gotWhen' = gotWhen \union {<<t, hTmp[t], s_isDestroyed>>}
      BY <1>4, <2>5 DEF CreateInstance, Returned
    <3>2. hTmp[t] \in Nat /\ (~s_isDestroyed => hTmp[t] = 1)
      BY <2>5 DEF HandletonInv, HandletonTypeOK, FirstObject
    <3>3. gotWhen' \subseteq HThreads \X Nat \X BOOLEAN /\ \A g \in gotWhen' : ~g[3] => g[2] = 1
      BY <3>1, <3>2, ReturnedFirst
    <3>4. HandletonTypeOK' /\ FirstObject'
      BY <2>1, <3>1, <3>3 DEF HandletonInv, HandletonTypeOK, FirstObject
    <3> QED
      BY <2>1, <2>3, <3>1, <3>4 DEF HandletonInv, DestroyKnown
  <2> QED
    BY <2>4, <2>5
<1> QED
  BY <1>1, <1>2, <1>3, <1>4

\* Every step of Destroy keeps the invariant.
LEMMA DestroyInstanceInv ==
  ASSUME HandletonInv, DestroyInstance, UNCHANGED <<s_mutex, hAt, hTmp, objects, gotWhen>>
  PROVE  HandletonInv'
<1> USE DEF NoObject
<1>1. /\ destroying' \in (0 .. objects) \X {"no", "flag", "clear", "delete"}
      /\ s_instance' \in {s_instance, NoObject} /\ s_isDestroyed' \in BOOLEAN
      /\ freedObjects' \subseteq 1 .. objects
  <2>1. destroying' \in (0 .. objects) \X {"no", "flag", "clear", "delete"}
    BY DEF DestroyInstance, HandletonInv, HandletonTypeOK
  <2>2. s_instance' \in {s_instance, NoObject}
    BY DEF DestroyInstance
  <2>3. s_isDestroyed' \in BOOLEAN
    BY DEF DestroyInstance, HandletonInv, HandletonTypeOK
  <2>4. freedObjects' \subseteq 1 .. objects
    <3>1. \/ freedObjects' = freedObjects
          \/ destroying[2] = "delete" /\ freedObjects' = freedObjects \union {destroying[1]}
      BY DEF DestroyInstance
    <3>2. destroying[2] = "delete" => destroying[1] \in 1 .. objects
      BY DEF HandletonInv, HandletonTypeOK, DestroyKnown
    <3> QED
      BY <3>1, <3>2 DEF HandletonInv, HandletonTypeOK
  <2> QED
    BY <2>1, <2>2, <2>3, <2>4
<1>2. HandletonTypeOK'
  BY <1>1 DEF HandletonInv, HandletonTypeOK
<1>3. LockHeld'
  BY <1>1 DEF HandletonInv, LockHeld
<1>4. DestroyKnown'
  BY DEF DestroyInstance, HandletonInv, HandletonTypeOK, DestroyKnown
<1>5. FirstObject'
  BY DEF DestroyInstance, HandletonInv, HandletonTypeOK, DestroyKnown, FirstObject
<1> QED
  BY <1>2, <1>3, <1>4, <1>5 DEF HandletonInv

\* There is no object at the start.
LEMMA HandletonInitInv == HandletonInit => HandletonInv
<1> SUFFICES ASSUME HandletonInit PROVE HandletonInv
  OBVIOUS
<1> USE DEF HandletonInit, NoObject
<1>1. HandletonTypeOK
  <2>1. 0 \in 0 .. 0 /\ <<0, "no">> \in (0 .. 0) \X {"no", "flag", "clear", "delete"}
    OBVIOUS
  <2>2. hTmp \in [HThreads -> 0 .. 0] /\ hAt \in [HThreads -> {"out", "check", "lock", "create", "aborted"}]
    OBVIOUS
  <2> QED
    BY <2>1, <2>2 DEF HandletonTypeOK
<1>2. LockHeld /\ FirstObject
  BY DEF LockHeld, FirstObject
<1>3. DestroyKnown
  BY DEF DestroyKnown
<1> QED
  BY <1>1, <1>2, <1>3 DEF HandletonInv

\* All steps keep the invariant.
LEMMA HandletonNextInv == HandletonInv /\ [HandletonNext]_handletonVars => HandletonInv'
<1>1. HandletonInv /\ UNCHANGED handletonVars => HandletonInv'
  BY DEF handletonVars, HandletonInv, HandletonTypeOK, LockHeld, DestroyKnown, FirstObject
<1> QED
  BY <1>1, GetInstanceInv, DestroyInstanceInv DEF HandletonNext

\* The objects that are not deleted are at most the instance.
LEMMA HandletonInvOne == HandletonInv => OneInstance
<1> SUFFICES ASSUME HandletonInv PROVE OneInstance
  OBVIOUS
<1> USE DEF NoObject
<1>1. \A g, h \in gotWhen : ~g[3] /\ ~h[3] => g[2] = h[2]
  BY DEF HandletonInv, FirstObject
<1>2. s_instance \notin freedObjects /\ (~s_isDestroyed => objects <= 1)
  BY DEF HandletonInv, HandletonTypeOK, DestroyKnown, FirstObject
<1>3. ASSUME destroying[2] # "delete" PROVE Cardinality((1 .. objects) \ freedObjects) <= 1
  <2>1. (1 .. objects) \ freedObjects \subseteq {s_instance}
    BY <1>3 DEF HandletonInv, DestroyKnown
  <2>2. IsFiniteSet({s_instance}) /\ Cardinality({s_instance}) = 1
    BY FS_Singleton
  <2> QED
    BY <2>1, <2>2, FS_Subset
<1> QED
  BY <1>1, <1>2, <1>3 DEF OneInstance

\* Until Destroy begins all callers of GetInstance get one living object, and no two
\* objects are ever alive outside the delete of one of them, for any number of
\* threads that race with each other and with exit.
THEOREM InstanceIsOne == HandletonSpec => []OneInstance
BY HandletonInitInv, HandletonNextInv, HandletonInvOne, PTL DEF HandletonSpec

-----------------------------------------------------------------------------
(* Reactor and pool.                                                        *)

\* The places of k are finitely many.
LEMMA TimesNat ==
  ASSUME NEW S, NEW s \in Seq(S), NEW k
  PROVE  IsFiniteSet({i \in DOMAIN s : s[i] = k}) /\ Times(k, s) \in Nat
<1>1. DOMAIN s = 1 .. Len(s) /\ Len(s) \in Nat
  BY LenProperties
<1>2. IsFiniteSet(1 .. Len(s))
  BY <1>1, FS_Interval
<1>3. {i \in DOMAIN s : s[i] = k} \in SUBSET (1 .. Len(s))
  BY <1>1
<1>4. IsFiniteSet({i \in DOMAIN s : s[i] = k})
  BY <1>2, <1>3, FS_Subset
<1> QED
  BY <1>4, FS_CardinalityType DEF Times

\* Append adds one to the count of the element it appends.
LEMMA TimesAppend ==
  ASSUME NEW S, NEW s \in Seq(S), NEW e \in S, NEW k
  PROVE  Times(k, Append(s, e)) = Times(k, s) + (IF e = k THEN 1 ELSE 0)
<1> DEFINE At(q) == {i \in DOMAIN q : q[i] = k}
<1>1. DOMAIN s = 1 .. Len(s) /\ Len(s) \in Nat
  BY LenProperties
<1>2. /\ DOMAIN Append(s, e) = 1 .. Len(s) + 1
      /\ \A i \in 1 .. Len(s) : Append(s, e)[i] = s[i]
      /\ Append(s, e)[Len(s) + 1] = e
  BY <1>1, AppendProperties, LenProperties
<1>3. At(Append(s, e)) = IF e = k THEN At(s) \union {Len(s) + 1} ELSE At(s)
  BY <1>1, <1>2
<1>4. IsFiniteSet(At(s)) /\ Len(s) + 1 \notin At(s) /\ Times(k, s) \in Nat
  <2>1. IsFiniteSet(At(s)) /\ Times(k, s) \in Nat
    BY TimesNat
  <2> QED
    BY <1>1, <2>1
<1>5. Times(k, s) = Cardinality(At(s)) /\ Times(k, Append(s, e)) = Cardinality(At(Append(s, e)))
  BY DEF Times
<1> HIDE DEF At
<1>6. Cardinality(At(s) \union {Len(s) + 1}) = Cardinality(At(s)) + 1
  BY <1>4, FS_AddElement
<1> QED
  BY <1>3, <1>4, <1>5, <1>6

\* What RemoveAt leaves.
LEMMA RemoveElements ==
  ASSUME NEW S, NEW s \in Seq(S), NEW p \in 1 .. Len(s)
  PROVE  /\ RemoveAt(s, p) \in Seq(S) /\ Len(RemoveAt(s, p)) = Len(s) - 1
         /\ \A i \in 1 .. Len(s) - 1 : RemoveAt(s, p)[i] = IF i < p THEN s[i] ELSE s[i + 1]
<1> DEFINE r == RemoveAt(s, p)
           n == Len(s)
<1>1. DOMAIN s = 1 .. n /\ n \in Nat /\ n >= 1 /\ \A i \in 1 .. n : s[i] \in S
  BY LenProperties
<1> DEFINE u == SubSeq(s, 1, p - 1)
           v == SubSeq(s, p + 1, n)
<1>2. u \in Seq(S) /\ Len(u) = p - 1 /\ \A i \in 1 .. p - 1 : u[i] = s[i]
  <2>1. p - 1 \in Int /\ \A i \in 1 .. p - 1 : s[i] \in S
    BY <1>1
  <2>2. /\ u \in Seq(S) /\ Len(u) = IF 1 <= p - 1 THEN (p - 1) - 1 + 1 ELSE 0
        /\ \A i \in 1 .. (p - 1) - 1 + 1 : u[i] = s[1 + i - 1]
    BY <2>1, SubSeqProperties
  <2> HIDE DEF u
  <2> QED
    BY <1>1, <2>2
<1>3. v \in Seq(S) /\ Len(v) = n - p /\ \A i \in 1 .. n - p : v[i] = s[p + i]
  <2>1. p + 1 \in Int /\ n \in Int /\ \A i \in p + 1 .. n : s[i] \in S
    BY <1>1
  <2>2. /\ v \in Seq(S) /\ Len(v) = IF p + 1 <= n THEN n - (p + 1) + 1 ELSE 0
        /\ \A i \in 1 .. n - (p + 1) + 1 : v[i] = s[(p + 1) + i - 1]
    BY <2>1, SubSeqProperties
  <2> HIDE DEF v
  <2>3. n - (p + 1) + 1 = n - p /\ (p + 1 <= n \/ n - p = 0) /\ \A i \in 1 .. n - p : (p + 1) + i - 1 = p + i
    <3>1. p \in Int /\ p <= n
      BY <1>1
    <3>2. \A a, b \in Int : (b + 1) + a - 1 = b + a
      OBVIOUS
    <3>3. \A a, b \in Int : b <= a => a - (b + 1) + 1 = a - b /\ (b + 1 <= a \/ a - b = 0)
      OBVIOUS
    <3> HIDE DEF n
    <3> QED
      BY <2>1, <3>1, <3>2, <3>3
  <2>4. Len(v) = n - p
    BY <2>2, <2>3
  <2>5. \A i \in 1 .. n - p : v[i] = s[(p + 1) + i - 1]
    BY <2>2, <2>3
  <2>6. \A i \in 1 .. n - p : v[i] = s[p + i]
    BY <2>3, <2>5, Zenon
  <2> QED
    BY <2>2, <2>4, <2>6
<1>4. /\ r \in Seq(S) /\ Len(r) = n - 1
      /\ \A i \in 1 .. n - 1 : r[i] = IF i < p THEN s[i] ELSE s[i + 1]
  <2>1. r = u \o v
    BY DEF RemoveAt
  <2> HIDE DEF u, v, r
  <2>2. /\ r \in Seq(S) /\ Len(r) = Len(u) + Len(v)
        /\ \A i \in 1 .. Len(u) + Len(v) : r[i] = IF i <= Len(u) THEN u[i] ELSE v[i - Len(u)]
    BY <1>2, <1>3, <2>1, ConcatProperties
  <2>3. Len(r) = n - 1
    BY <1>1, <1>2, <1>3, <2>2
  <2>4. ASSUME NEW i \in 1 .. n - 1 PROVE r[i] = IF i < p THEN s[i] ELSE s[i + 1]
    <3>0. i \in 1 .. Len(u) + Len(v)
      BY <1>1, <1>2, <1>3
    <3>1. CASE i < p
      <4>1. i <= Len(u) /\ i \in 1 .. p - 1
        BY <1>1, <1>2, <3>1
      <4> QED
        BY <1>2, <2>2, <3>0, <3>1, <4>1
    <3>2. CASE ~(i < p)
      <4>1. i - (p - 1) \in 1 .. n - p /\ p + (i - (p - 1)) = i + 1
        BY <1>1, <3>2
      <4>2. r[i] = v[i - (p - 1)]
        <5>1. ~(i <= Len(u)) /\ i - Len(u) = i - (p - 1)
          BY <1>1, <1>2, <3>2
        <5> QED
          BY <2>2, <3>0, <5>1
      <4> QED
        BY <1>3, <3>2, <4>1, <4>2
    <3> QED
      BY <3>1, <3>2
  <2> QED
    BY <2>2, <2>3, <2>4
<1> QED
  BY <1>4

\* RemoveAt takes one from the count of the element it removes.
LEMMA TimesRemove ==
  ASSUME NEW S, NEW s \in Seq(S), NEW p \in 1 .. Len(s), NEW k
  PROVE  /\ RemoveAt(s, p) \in Seq(S)
         /\ Times(k, RemoveAt(s, p)) = Times(k, s) - (IF s[p] = k THEN 1 ELSE 0)
<1> DEFINE r == RemoveAt(s, p)
           n == Len(s)
           At(q) == {i \in DOMAIN q : q[i] = k}
<1>1. DOMAIN s = 1 .. n /\ n \in Nat /\ n >= 1
  BY LenProperties
<1>4. /\ r \in Seq(S) /\ Len(r) = n - 1
      /\ \A i \in 1 .. n - 1 : r[i] = IF i < p THEN s[i] ELSE s[i + 1]
  BY RemoveElements
<1> HIDE DEF r
<1>5. DOMAIN r = 1 .. n - 1
  BY <1>4, LenProperties
<1>6. IsFiniteSet(At(s)) /\ Cardinality(At(s)) \in Nat
  BY TimesNat DEF Times
<1>7. /\ IsFiniteSet(At(s) \ {p})
      /\ Cardinality(At(s) \ {p}) = Cardinality(At(s)) - (IF s[p] = k THEN 1 ELSE 0)
  <2>1. p \in At(s) <=> s[p] = k
    BY <1>1
  <2> HIDE DEF At
  <2> QED
    BY <1>6, <2>1, FS_RemoveElement
<1>8. ExistsBijection(At(s) \ {p}, At(r))
  <2> DEFINE f == [i \in At(s) \ {p} |-> IF i < p THEN i ELSE i - 1]
  <2>1. f \in [At(s) \ {p} -> At(r)]
    BY <1>1, <1>4, <1>5
  <2>2. \A i, j \in At(s) \ {p} : f[i] = f[j] => i = j
    BY <1>1
  <2>3. ASSUME NEW j \in At(r) PROVE \E i \in At(s) \ {p} : f[i] = j
    <3>1. CASE j < p
      <4>1. j \in At(s) \ {p} /\ f[j] = j
        BY <1>1, <1>4, <1>5, <3>1
      <4> QED
        BY <4>1
    <3>2. CASE ~(j < p)
      <4>1. j + 1 \in At(s) \ {p} /\ f[j + 1] = j
        BY <1>1, <1>4, <1>5, <3>2
      <4> QED
        BY <4>1
    <3> QED
      BY <3>1, <3>2
  <2> HIDE DEF f
  <2> QED
    BY <2>1, <2>2, <2>3 DEF ExistsBijection, Bijection, Injection, Surjection, IsInjective
<1>9. Cardinality(At(r)) = Cardinality(At(s) \ {p})
  BY <1>7, <1>8, FS_Bijection
<1> QED
  <2>1. Times(k, s) = Cardinality(At(s)) /\ Times(k, r) = Cardinality(At(r))
    BY DEF Times
  <2> HIDE DEF At
  <2>2. r \in Seq(S) /\ Times(k, r) = Times(k, s) - (IF s[p] = k THEN 1 ELSE 0)
    BY <1>4, <1>7, <1>9, <2>1
  <2> QED
    BY <2>2 DEF r

\* Nothing is in the empty sequence, and one thing in that of one element.
LEMMA TimesShort ==
  ASSUME NEW S, NEW e \in S, NEW k
  PROVE  Times(k, << >>) = 0 /\ Times(k, <<e>>) = IF e = k THEN 1 ELSE 0
<1>1. << >> \in Seq(S) /\ Append(<< >>, e) = <<e>>
  BY EmptySeq
<1>2. Times(k, << >>) = 0
  <2>1. {i \in DOMAIN << >> : << >>[i] = k} = {}
    OBVIOUS
  <2> QED
    BY <2>1, FS_EmptySet, Zenon DEF Times
<1>3. Times(k, Append(<< >>, e)) = Times(k, << >>) + (IF e = k THEN 1 ELSE 0)
  BY <1>1, TimesAppend
<1> QED
  BY <1>1, <1>2, <1>3

\* Tail takes one from the count of the head.
LEMMA TimesTail ==
  ASSUME NEW S, NEW s \in Seq(S), s # << >>, NEW k
  PROVE  /\ Head(s) \in S /\ Tail(s) \in Seq(S)
         /\ Times(k, Tail(s)) = Times(k, s) - (IF Head(s) = k THEN 1 ELSE 0)
<1>1. /\ Head(s) \in S /\ Tail(s) \in Seq(S) /\ Len(Tail(s)) = Len(s) - 1 /\ Head(s) = s[1]
      /\ \A i \in 1 .. Len(s) - 1 : Tail(s)[i] = s[i + 1]
  BY HeadTailProperties, EmptySeq
<1>2. Len(s) \in Nat /\ 1 \in 1 .. Len(s)
  BY EmptySeq, LenProperties
<1>3. /\ RemoveAt(s, 1) \in Seq(S) /\ Len(RemoveAt(s, 1)) = Len(s) - 1
      /\ \A i \in 1 .. Len(s) - 1 : RemoveAt(s, 1)[i] = IF i < 1 THEN s[i] ELSE s[i + 1]
  BY <1>2, RemoveElements
<1>4. \A i \in 1 .. Len(s) - 1 : RemoveAt(s, 1)[i] = Tail(s)[i]
  BY <1>1, <1>2, <1>3
<1>5. RemoveAt(s, 1) = Tail(s)
  BY <1>1, <1>3, <1>4, SeqEqual
<1>6. Times(k, RemoveAt(s, 1)) = Times(k, s) - (IF s[1] = k THEN 1 ELSE 0)
  BY <1>2, TimesRemove
<1> QED
  BY <1>1, <1>5, <1>6

\* The numbers of the inputs.
Numbers == 1 .. Len(sent)

\* Everywhere there are numbers of inputs that were sent, the callback at work has one
\* at most, and every input is once at one place.
TasksInv ==
  /\ sent \in Seq([fd : Fds, key : Keys]) /\ fdCallbacks \subseteq Fds
  /\ input \in [Fds -> Seq(Numbers)] /\ args \in {<< >>} \union {<<n>> : n \in Numbers}
  /\ poolTasks \in Seq(Numbers) /\ working \in Seq(Numbers) /\ executed \in Seq(Numbers)
  /\ \A n \in Numbers :
       Times(n, input[sent[n].fd]) + Times(n, args) + Times(n, poolTasks) + Times(n, working)
         + Times(n, executed) = 1
  /\ \A f \in Fds, n \in Numbers : f # sent[n].fd => Times(n, input[f]) = 0

\* An input has a descriptor, and is counted everywhere.
LEMMA Counted ==
  ASSUME TasksInv, NEW n \in Numbers
  PROVE  /\ sent[n].fd \in Fds /\ \A f \in Fds : Times(n, input[f]) \in Nat
         /\ args \in Seq(Numbers) /\ Times(n, args) \in Nat
         /\ Times(n, poolTasks) \in Nat /\ Times(n, working) \in Nat /\ Times(n, executed) \in Nat
<1>1. sent[n].fd \in Fds
  <2>1. sent[n] \in [fd : Fds, key : Keys]
    BY ElementOfSeq DEF TasksInv, Numbers
  <2> QED
    BY <2>1
<1>2. args \in Seq(Numbers)
  <2>1. << >> \in Seq(Numbers) /\ \A m \in Numbers : <<m>> \in Seq(Numbers)
    BY EmptySeq
  <2> QED
    BY <2>1 DEF TasksInv
<1>3. \A f \in Fds : input[f] \in Seq(Numbers)
  BY DEF TasksInv
<1> QED
  BY <1>1, <1>2, <1>3, TimesNat DEF TasksInv

\* The callback takes the first input of its descriptor.
LEMMA InvokeInv ==
  ASSUME TasksInv, InvokeCallback
  PROVE  TasksInv'
<1>1. UNCHANGED <<sent, fdCallbacks, poolTasks, working, executed>>
  BY DEF InvokeCallback, poolVars
<1>2. CASE Head(rdy_fds) \notin fdCallbacks
  <2>1. UNCHANGED <<input, args>>
    BY <1>2 DEF InvokeCallback
  <2> QED
    BY <1>1, <2>1 DEF TasksInv, Numbers
<1>3. CASE Head(rdy_fds) \in fdCallbacks
  <2>1. PICK fd \in Fds : /\ input[fd] # << >> /\ args = << >> /\ args' = <<Head(input[fd])>>
                          /\ input' = [input EXCEPT ![fd] = Tail(@)]
    BY <1>3 DEF InvokeCallback, GetKeyArgs, TasksInv
  <2>2. input[fd] \in Seq(Numbers)
    BY DEF TasksInv
  <2>3. Head(input[fd]) \in Numbers /\ Tail(input[fd]) \in Seq(Numbers)
    BY <2>1, <2>2, TimesTail
  <2>4. /\ input' \in [Fds -> Seq(Numbers)] /\ input'[fd] = Tail(input[fd])
        /\ \A f \in Fds : f # fd => input'[f] = input[f]
    BY <2>1, <2>3 DEF TasksInv
  <2>5. ASSUME NEW n \in Numbers
        PROVE  /\ Times(n, input'[sent[n].fd]) + Times(n, args') + Times(n, poolTasks) + Times(n, working)
                    + Times(n, executed) = 1
               /\ \A f \in Fds : f # sent[n].fd => Times(n, input'[f]) = 0
    <3>1. PICK one \in {0, 1} : one = IF Head(input[fd]) = n THEN 1 ELSE 0
      OBVIOUS
    <3>2. /\ Times(n, input'[fd]) = Times(n, input[fd]) - one /\ Times(n, input'[fd]) \in Nat
          /\ Times(n, args') = one /\ Times(n, args) = 0
      <4>1. Times(n, Tail(input[fd])) = Times(n, input[fd]) - one
        BY <2>1, <2>2, <3>1, TimesTail
      <4>2. Times(n, <<Head(input[fd])>>) = one /\ Times(n, << >>) = 0
        BY <2>3, <3>1, TimesShort
      <4>3. Times(n, Tail(input[fd])) \in Nat
        BY <2>3, TimesNat
      <4> QED
        BY <2>1, <2>4, <4>1, <4>2, <4>3
    <3>3. /\ sent[n].fd \in Fds /\ \A f \in Fds : Times(n, input[f]) \in Nat
          /\ Times(n, poolTasks) \in Nat /\ Times(n, working) \in Nat /\ Times(n, executed) \in Nat
      BY Counted
    <3>4. /\ Times(n, input[sent[n].fd]) + Times(n, args) + Times(n, poolTasks) + Times(n, working)
               + Times(n, executed) = 1
          /\ \A f \in Fds : f # sent[n].fd => Times(n, input[f]) = 0
      BY DEF TasksInv
    <3>5. ASSUME NEW f \in Fds, f # sent[n].fd PROVE Times(n, input'[f]) = 0
      <4>1. CASE f = fd
        <5>1. Times(n, input[fd]) = 0
          BY <3>4, <3>5, <4>1
        <5> QED
          BY <3>2, <4>1, <5>1
      <4>2. CASE f # fd
        BY <2>4, <3>4, <3>5, <4>2
      <4> QED
        BY <4>1, <4>2
    <3>6. CASE fd = sent[n].fd
      BY <3>2, <3>3, <3>4, <3>5, <3>6
    <3>7. CASE fd # sent[n].fd
      <4>1. one = 0
        BY <3>2, <3>4, <3>7
      <4> QED
        BY <2>4, <3>2, <3>3, <3>4, <3>5, <3>7, <4>1
    <3> QED
      BY <3>6, <3>7
  <2>6. args' \in {<< >>} \union {<<n>> : n \in Numbers}
    BY <2>1, <2>3
  <2> QED
    BY <1>1, <2>4, <2>5, <2>6 DEF TasksInv, Numbers
<1> QED
  BY <1>2, <1>3

\* The pool gets what the callback has read.
LEMMA AddTaskInv ==
  ASSUME TasksInv, AddTask
  PROVE  TasksInv'
<1>1. PICK m \in Numbers : args = <<m>>
  BY DEF AddTask, TasksInv
<1>2. /\ args' = << >> /\ poolTasks' = Append(poolTasks, m)
      /\ UNCHANGED <<sent, fdCallbacks, input, working, executed>>
  BY <1>1 DEF AddTask
<1>3. poolTasks' \in Seq(Numbers)
  BY <1>2, AppendProperties DEF TasksInv
<1>4. ASSUME NEW n \in Numbers
      PROVE  Times(n, input[sent[n].fd]) + Times(n, args') + Times(n, poolTasks') + Times(n, working)
               + Times(n, executed) = 1
  <2>1. PICK one \in {0, 1} : one = IF m = n THEN 1 ELSE 0
    OBVIOUS
  <2>2. Times(n, args) = one /\ Times(n, args') = 0
    BY <1>1, <1>2, <2>1, TimesShort
  <2>3. Times(n, poolTasks') = Times(n, poolTasks) + one
    <3>1. poolTasks \in Seq(Numbers)
      BY DEF TasksInv
    <3> QED
      BY <1>2, <2>1, <3>1, TimesAppend
  <2>4. Times(n, input[sent[n].fd]) + Times(n, args) + Times(n, poolTasks) + Times(n, working)
          + Times(n, executed) = 1
    BY DEF TasksInv
  <2>5. /\ Times(n, input[sent[n].fd]) \in Nat /\ Times(n, poolTasks) \in Nat
        /\ Times(n, working) \in Nat /\ Times(n, executed) \in Nat
    BY Counted
  <2> QED
    BY <2>2, <2>3, <2>4, <2>5
<1> QED
  BY <1>2, <1>3, <1>4 DEF TasksInv, Numbers

\* A worker takes a task from the pool.
LEMMA TakeTaskInv ==
  ASSUME TasksInv, TakeTask
  PROVE  TasksInv'
<1>1. PICK i \in DOMAIN poolTasks : /\ working' = Append(working, poolTasks[i])
                                    /\ poolTasks' = RemoveAt(poolTasks, i)
  BY DEF TakeTask
<1>2. UNCHANGED <<sent, fdCallbacks, input, args, executed>>
  BY DEF TakeTask, reactorVars
<1>3. poolTasks \in Seq(Numbers) /\ working \in Seq(Numbers) /\ i \in 1 .. Len(poolTasks)
  BY LenProperties DEF TasksInv
<1>4. poolTasks[i] \in Numbers
  BY <1>3, ElementOfSeq
<1>5. poolTasks' \in Seq(Numbers) /\ working' \in Seq(Numbers)
  BY <1>1, <1>3, <1>4, TimesRemove, AppendProperties
<1>6. ASSUME NEW n \in Numbers
      PROVE  Times(n, input[sent[n].fd]) + Times(n, args) + Times(n, poolTasks') + Times(n, working')
               + Times(n, executed) = 1
  <2>1. PICK one \in {0, 1} : one = IF poolTasks[i] = n THEN 1 ELSE 0
    OBVIOUS
  <2>2. Times(n, poolTasks') = Times(n, poolTasks) - one
    BY <1>1, <1>3, <2>1, TimesRemove
  <2>3. Times(n, working') = Times(n, working) + one
    BY <1>1, <1>3, <1>4, <2>1, TimesAppend
  <2>4. Times(n, input[sent[n].fd]) + Times(n, args) + Times(n, poolTasks) + Times(n, working)
          + Times(n, executed) = 1
    BY DEF TasksInv
  <2>5. /\ Times(n, input[sent[n].fd]) \in Nat /\ Times(n, args) \in Nat /\ Times(n, poolTasks) \in Nat
        /\ Times(n, working) \in Nat /\ Times(n, executed) \in Nat
    BY Counted
  <2> QED
    BY <2>2, <2>3, <2>4, <2>5
<1> QED
  BY <1>2, <1>5, <1>6 DEF TasksInv, Numbers

\* A worker executes its task, or the process ends.
LEMMA ExecuteInv ==
  ASSUME TasksInv, Execute
  PROVE  TasksInv'
<1>1. UNCHANGED <<sent, fdCallbacks, input, args, poolTasks>>
  BY DEF Execute, reactorVars
<1>2. CASE UNCHANGED <<working, executed>>
  BY <1>1, <1>2 DEF TasksInv, Numbers
<1>3. CASE ~UNCHANGED <<working, executed>>
  <2>1. PICK i \in DOMAIN working : /\ executed' = Append(executed, working[i])
                                    /\ working' = RemoveAt(working, i)
    BY <1>3 DEF Execute
  <2>2. working \in Seq(Numbers) /\ executed \in Seq(Numbers) /\ i \in 1 .. Len(working)
    BY LenProperties DEF TasksInv
  <2>3. working[i] \in Numbers
    BY <2>2, ElementOfSeq
  <2>4. working' \in Seq(Numbers) /\ executed' \in Seq(Numbers)
    BY <2>1, <2>2, <2>3, TimesRemove, AppendProperties
  <2>5. ASSUME NEW n \in Numbers
        PROVE  Times(n, input[sent[n].fd]) + Times(n, args) + Times(n, poolTasks) + Times(n, working')
                 + Times(n, executed') = 1
    <3>1. PICK one \in {0, 1} : one = IF working[i] = n THEN 1 ELSE 0
      OBVIOUS
    <3>2. Times(n, working') = Times(n, working) - one
      BY <2>1, <2>2, <3>1, TimesRemove
    <3>3. Times(n, executed') = Times(n, executed) + one
      BY <2>1, <2>2, <2>3, <3>1, TimesAppend
    <3>4. Times(n, input[sent[n].fd]) + Times(n, args) + Times(n, poolTasks) + Times(n, working)
            + Times(n, executed) = 1
      BY DEF TasksInv
    <3>5. /\ Times(n, input[sent[n].fd]) \in Nat /\ Times(n, args) \in Nat /\ Times(n, poolTasks) \in Nat
          /\ Times(n, working) \in Nat /\ Times(n, executed) \in Nat
      BY Counted
    <3> QED
      BY <3>2, <3>3, <3>4, <3>5
  <2> QED
    BY <1>1, <2>4, <2>5 DEF TasksInv, Numbers
<1> QED
  BY <1>2, <1>3

\* A number that was not given yet is nowhere.
LEMMA NotYet ==
  ASSUME Len(sent) \in Nat, NEW s \in Seq(Numbers)
  PROVE  Times(Len(sent) + 1, s) = 0 /\ s \in Seq(1 .. Len(sent) + 1)
<1>1. DOMAIN s = 1 .. Len(s) /\ Len(s) \in Nat /\ \A i \in 1 .. Len(s) : s[i] \in Numbers
  BY LenProperties, ElementOfSeq
<1>2. {i \in DOMAIN s : s[i] = Len(sent) + 1} = {}
  BY <1>1 DEF Numbers
<1>3. \A i \in 1 .. Len(s) : s[i] \in 1 .. Len(sent) + 1
  BY <1>1 DEF Numbers
<1> QED
  BY <1>1, <1>2, <1>3, FS_EmptySet DEF Times

\* An input arrives and gets the next number.
LEMMA ArriveInv ==
  ASSUME TasksInv, NEW f \in Fds, NEW key \in Keys, Arrive(f, key)
  PROVE  TasksInv'
<1> DEFINE m == Len(sent) + 1
           new == [fd |-> f, key |-> key]
<1>1. /\ sent' = Append(sent, new) /\ input' = [input EXCEPT ![f] = Append(@, m)]
      /\ UNCHANGED <<fdCallbacks, args, poolTasks, working, executed>>
  BY DEF Arrive, poolVars
<1>2. /\ sent' \in Seq([fd : Fds, key : Keys]) /\ Len(sent') = m /\ Len(sent) \in Nat
      /\ sent'[m] = new /\ \A n \in Numbers : sent'[n] = sent[n]
  <2>1. new \in [fd : Fds, key : Keys] /\ sent \in Seq([fd : Fds, key : Keys])
    BY DEF TasksInv
  <2> QED
    BY <1>1, <2>1, AppendProperties, LenProperties DEF Numbers
<1>3. Numbers' = 1 .. m /\ Numbers' = Numbers \union {m} /\ m \notin Numbers
  BY <1>2 DEF Numbers
<1>4. /\ \A g \in Fds : input[g] \in Seq(Numbers)
      /\ args \in Seq(Numbers) /\ poolTasks \in Seq(Numbers) /\ working \in Seq(Numbers) /\ executed \in Seq(Numbers)
  <2>1. << >> \in Seq(Numbers) /\ \A n \in Numbers : <<n>> \in Seq(Numbers)
    BY EmptySeq
  <2> QED
    BY <2>1 DEF TasksInv
<1>5. \A s \in Seq(Numbers) : Times(m, s) = 0 /\ s \in Seq(Numbers')
  BY <1>2, <1>3, NotYet
<1>6. Append(input[f], m) \in Seq(Numbers')
  <2>1. input[f] \in Seq(Numbers') /\ m \in Numbers'
    BY <1>3, <1>4, <1>5
  <2> QED
    BY <2>1, AppendProperties
<1>7. /\ input' \in [Fds -> Seq(Numbers')] /\ input'[f] = Append(input[f], m)
      /\ \A g \in Fds : g # f => input'[g] = input[g]
  BY <1>1, <1>4, <1>5, <1>6 DEF TasksInv
<1>8. ASSUME NEW n \in Numbers, NEW g \in Fds PROVE Times(n, input'[g]) = Times(n, input[g])
  <2>1. CASE g = f
    <3>1. input[f] \in Seq(Numbers') /\ m \in Numbers' /\ m # n
      BY <1>3, <1>4, <1>5
    <3>2. Times(n, Append(input[f], m)) = Times(n, input[f]) + 0
      BY <3>1, TimesAppend
    <3>3. Times(n, input[f]) \in Nat
      BY Counted
    <3>4. Times(n, Append(input[f], m)) = Times(n, input[f])
      BY <3>2, <3>3
    <3> QED
      BY <1>7, <2>1, <3>4, Zenon
  <2> QED
    BY <1>7, <2>1
<1>9. Times(m, input'[f]) = 1 /\ \A g \in Fds : g # f => Times(m, input'[g]) = 0
  <2>1. input[f] \in Seq(Numbers') /\ m \in Numbers' /\ Times(m, input[f]) = 0
    BY <1>3, <1>4, <1>5
  <2>2. Times(m, Append(input[f], m)) = Times(m, input[f]) + 1
    BY <2>1, TimesAppend
  <2>3. Times(m, Append(input[f], m)) = 1
    BY <2>1, <2>2
  <2>4. \A g \in Fds : Times(m, input[g]) = 0
    BY <1>4, <1>5
  <2> QED
    BY <1>7, <2>3, <2>4, Zenon
<1>10. /\ Times(m, args) = 0 /\ Times(m, poolTasks) = 0 /\ Times(m, working) = 0 /\ Times(m, executed) = 0
       /\ poolTasks \in Seq(Numbers') /\ working \in Seq(Numbers') /\ executed \in Seq(Numbers')
  BY <1>4, <1>5
<1>11. args \in {<< >>} \union {<<n>> : n \in Numbers'}
  BY <1>3 DEF TasksInv
<1> HIDE DEF m
<1>12. ASSUME NEW n \in Numbers'
       PROVE  /\ Times(n, input'[sent'[n].fd]) + Times(n, args) + Times(n, poolTasks) + Times(n, working)
                   + Times(n, executed) = 1
              /\ \A g \in Fds : g # sent'[n].fd => Times(n, input'[g]) = 0
  <2>1. CASE n = m
    <3>1. sent'[n].fd = f
      BY <1>2, <2>1
    <3> QED
      BY <1>9, <1>10, <2>1, <3>1
  <2>2. CASE n \in Numbers
    <3>1. sent'[n] = sent[n] /\ sent[n].fd \in Fds
      BY <1>2, <2>2, Counted
    <3>2. Times(n, input[sent[n].fd]) + Times(n, args) + Times(n, poolTasks) + Times(n, working)
            + Times(n, executed) = 1
      BY <2>2 DEF TasksInv
    <3>3. \A g \in Fds : g # sent[n].fd => Times(n, input[g]) = 0
      BY <2>2 DEF TasksInv
    <3>4. \A g \in Fds : Times(n, input'[g]) = Times(n, input[g])
      BY <1>8, <2>2
    <3> QED
      BY <3>1, <3>2, <3>3, <3>4, Zenon
  <2> QED
    BY <1>3, <2>1, <2>2
<1> QED
  BY <1>1, <1>2, <1>7, <1>10, <1>11, <1>12 DEF TasksInv

\* The steps of the reactor and of the pool keep the inputs accounted for.
LEMMA TasksNextInv == TasksInv /\ [FrameworkNext]_fwVars => TasksInv'
<1> SUFFICES ASSUME TasksInv, [FrameworkNext]_fwVars PROVE TasksInv'
  OBVIOUS
<1>1. ASSUME UNCHANGED <<sent, fdCallbacks, input, args, poolTasks, working, executed>> PROVE TasksInv'
  BY <1>1 DEF TasksInv, Numbers
<1>2. CASE ChangeFds
  <2>1. UNCHANGED <<sent, input, args, poolTasks, working, executed>> /\ fdCallbacks' \subseteq Fds
    BY <1>2 DEF ChangeFds, poolVars, TasksInv
  <2> QED
    BY <2>1 DEF TasksInv, Numbers
<1>3. CASE UNCHANGED fwVars
  BY <1>1, <1>3 DEF fwVars, reactorVars, poolVars
<1>4. CASE RunStep \/ Stop \/ StopPool \/ Unregister \/ DtorStep
  BY <1>1, <1>4 DEF RunStep, Run, RunMonitor, RunReactor, Stop, StopPool, Unregister, DtorStep, DestroyCallbackMember,
     ClearFlag, RemoveWatch, Join, reactorVars, poolVars
<1>5. CASE Loop \/ Listen \/ ListenThrows \/ EndOfRound \/ Appear
  BY <1>1, <1>5 DEF Loop, Listen, ListenThrows, EndOfRound, Appear, reactorVars, poolVars
<1>6. CASE ListenerStep
  BY <1>1, <1>6 DEF ListenerStep, CheckRunning, ReadEvents, NextEvent, Notify, reactorVars, poolVars
<1> QED
  BY <1>2, <1>3, <1>4, <1>5, <1>6, InvokeInv, AddTaskInv, TakeTaskInv, ExecuteInv, ArriveInv
     DEF FrameworkNext, ReactorStep, PoolStep

\* Nothing has been sent at the start.
LEMMA TasksInitInv == FrameworkInit => TasksInv
<1> SUFFICES ASSUME FrameworkInit PROVE TasksInv
  OBVIOUS
<1>1. /\ sent = << >> /\ args = << >> /\ executed = << >> /\ poolTasks = << >> /\ working = << >>
      /\ input = [f \in Fds |-> << >>] /\ fdCallbacks = Fds
  BY DEF FrameworkInit, ReactorInit, PoolInit
<1>2. << >> \in Seq(Numbers) /\ << >> \in Seq([fd : Fds, key : Keys]) /\ Len(<< >>) = 0
  BY EmptySeq
<1>3. Numbers = {}
  BY <1>1, <1>2 DEF Numbers
<1> QED
  BY <1>1, <1>2, <1>3 DEF TasksInv

-----------------------------------------------------------------------------
(* DirMonitor and DllLoader.                                                *)

Inside == {"built", "runMonitor", "runReactor", "running", "returned", "threw", "unregistered"}

\* The reactor loops only while Run does; the listener thread exists once the monitor
\* runs, and starts with an empty buffer.
ThreadsKnown ==
  /\ loopAt # "out" => life = "running"
  /\ life \in Inside \union {"monitorLeft"} => monitorRunning \/ listenAt = "none"
  /\ listenAt \notin {"next", "notify"} => buffer = << >>
  /\ listenAt = "notify" => buffer # << >>

\* While the callback is registered it is in every broadcast, and while one of them may
\* load a plug-in what has appeared is loaded, in the buffer or in the kernel; after
\* the callback's destruction at most the broadcast that had begun calls it.
PluginsKnown ==
  /\ appeared \in Seq(Files) /\ loaded \in Seq(Files)
  /\ Len(loaded) <= Len(appeared) /\ \A i \in 1 .. Len(loaded) : loaded[i] = appeared[i]
  /\ callbackAlive \in BOOLEAN /\ copied \in BOOLEAN /\ subscribed \in BOOLEAN
  /\ lateCalls \in {0, 1} /\ (copied => lateCalls = 0 /\ listenAt = "notify")
  /\ subscribed => callbackAlive /\ life # "unregistered" /\ (listenAt = "notify" => copied)
  /\ callbackAlive => /\ life \in Inside /\ lateCalls = 0
                      /\ buffer \in Seq(Files) /\ events \in Seq(Files)
                      /\ subscribed \/ copied => appeared = loaded \o (buffer \o events)

MonitorInv == ThreadsKnown /\ PluginsKnown

\* The steps that touch neither the threads nor the plug-ins keep what is known of them.
LEMMA MonitorSame ==
  ASSUME MonitorInv,
         UNCHANGED <<monitorRunning, listenAt, events, buffer, subscribed, copied, callbackAlive, appeared, loaded,
                     lateCalls>>,
         \/ UNCHANGED <<life, loopAt>>
         \/ life \in {"built", "returned", "threw"} /\ life' = "runMonitor" /\ loopAt' = loopAt
         \/ life = "runReactor" /\ (life' = "running" \/ (life' = "threw" /\ loopAt' = loopAt))
         \/ life = "running" /\ life' \in {"returned", "threw"} /\ loopAt' = "out"
         \/ life = "running" /\ life' = life
  PROVE  MonitorInv'
BY DEF MonitorInv, ThreadsKnown, PluginsKnown, Inside

\* A file appears while there is a watch.
LEMMA AppearInv ==
  ASSUME MonitorInv, Appear
  PROVE  MonitorInv'
<1> USE DEF MonitorInv
<1>1. PICK f \in Files : appeared' = Append(appeared, f) /\ events' = Append(events, f)
  BY DEF Appear
<1>2. UNCHANGED <<life, loopAt, monitorRunning, listenAt, buffer, subscribed, copied, callbackAlive, loaded, lateCalls>>
  BY DEF Appear, reactorVars
<1>3. /\ appeared' \in Seq(Files) /\ Len(appeared') = Len(appeared) + 1 /\ Len(appeared) \in Nat
      /\ \A i \in 1 .. Len(appeared) : appeared'[i] = appeared[i]
  BY <1>1, AppendProperties, LenProperties DEF PluginsKnown
<1>4. Len(loaded) \in Nat /\ Len(loaded) <= Len(appeared') /\ \A i \in 1 .. Len(loaded) : loaded[i] = appeared'[i]
  BY <1>3, LenProperties DEF PluginsKnown
<1>5. ASSUME callbackAlive
      PROVE  events' \in Seq(Files) /\ (subscribed \/ copied => appeared' = loaded \o (buffer \o events'))
  <2>1. /\ loaded \in Seq(Files) /\ buffer \in Seq(Files) /\ events \in Seq(Files) /\ buffer \o events \in Seq(Files)
        /\ subscribed \/ copied => appeared = loaded \o (buffer \o events)
    BY <1>5, ConcatProperties DEF PluginsKnown
  <2>2. buffer \o Append(events, f) = Append(buffer \o events, f) /\ Append(events, f) \in Seq(Files)
    BY <2>1, ConcatAppend, AppendProperties
  <2>3. loaded \o Append(buffer \o events, f) = Append(loaded \o (buffer \o events), f)
    <3>1. \A x, y \in Seq(Files) : x \o Append(y, f) = Append(x \o y, f)
      BY ConcatAppend
    <3> QED
      BY <2>1, <3>1, Zenon
  <2> QED
    BY <1>1, <2>1, <2>2, <2>3
<1>6. PluginsKnown'
  BY <1>2, <1>3, <1>4, <1>5 DEF PluginsKnown
<1>7. ThreadsKnown'
  BY <1>2 DEF ThreadsKnown
<1> QED
  BY <1>6, <1>7

\* The listener thread takes the next event.
LEMMA NextEventInv ==
  ASSUME MonitorInv, NextEvent
  PROVE  MonitorInv'
<1> USE DEF MonitorInv
<1>1. /\ listenAt = "next" /\ ~copied
      /\ UNCHANGED <<life, loopAt, monitorRunning, events, subscribed, callbackAlive, appeared, loaded, lateCalls>>
  BY DEF NextEvent, reactorVars, PluginsKnown
<1>2. CASE buffer = << >>
  BY <1>1, <1>2 DEF NextEvent, ThreadsKnown, PluginsKnown
<1>3. CASE buffer # << >> /\ Head(buffer) = IN_IGNORED
  <2>1. buffer' = Tail(buffer) /\ UNCHANGED <<listenAt, copied>>
    BY <1>3 DEF NextEvent
  <2>2. ~callbackAlive
    BY <1>3, HeadTailProperties, FrameworkAssumption DEF FrameworkAssumption, PluginsKnown
  <2> QED
    BY <1>1, <2>1, <2>2 DEF ThreadsKnown, PluginsKnown
<1>4. CASE buffer # << >> /\ Head(buffer) # IN_IGNORED
  <2>1. listenAt' = "notify" /\ copied' = subscribed /\ buffer' = buffer
    BY <1>4 DEF NextEvent
  <2>2. ThreadsKnown'
    BY <1>1, <1>4, <2>1 DEF ThreadsKnown
  <2>3. PluginsKnown'
    BY <1>1, <2>1 DEF PluginsKnown
  <2> QED
    BY <2>2, <2>3
<1> QED
  BY <1>2, <1>3, <1>4

\* The broadcast reaches the callback, if it is in the copy.
LEMMA NotifyInv ==
  ASSUME MonitorInv, Notify
  PROVE  MonitorInv'
<1> USE DEF MonitorInv
<1>1. /\ listenAt = "notify" /\ buffer' = Tail(buffer) /\ copied' = FALSE /\ listenAt' = "next"
      /\ UNCHANGED <<life, loopAt, monitorRunning, events, subscribed, callbackAlive, appeared>>
  BY DEF Notify, reactorVars
<1>2. ThreadsKnown'
  BY <1>1 DEF ThreadsKnown
<1>3. CASE ~callbackAlive
  <2>1. loaded' = loaded /\ lateCalls' = IF copied THEN lateCalls + 1 ELSE lateCalls
    BY <1>3 DEF Notify
  <2>2. lateCalls' \in {0, 1} /\ ~subscribed
    BY <1>3, <2>1 DEF PluginsKnown
  <2> QED
    BY <1>1, <1>2, <1>3, <2>1, <2>2 DEF PluginsKnown
<1>4. CASE callbackAlive /\ ~copied
  <2>1. loaded' = loaded /\ lateCalls' = lateCalls /\ ~subscribed
    BY <1>1, <1>4 DEF Notify, PluginsKnown
  <2>2. buffer # << >> /\ buffer \in Seq(Files)
    BY <1>1, <1>4 DEF ThreadsKnown, PluginsKnown
  <2>3. Tail(buffer) \in Seq(Files)
    BY <2>2, HeadTailProperties
  <2> QED
    BY <1>1, <1>2, <1>4, <2>1, <2>3 DEF PluginsKnown
<1>5. CASE callbackAlive /\ copied
  <2>1. buffer # << >> /\ lateCalls = 0
    BY <1>1, <1>5 DEF PluginsKnown, ThreadsKnown
  <2>2. loaded' = Append(loaded, Head(buffer)) /\ lateCalls' = lateCalls
    BY <1>5 DEF Notify
  <2>3. /\ Head(buffer) \in Files /\ Tail(buffer) \in Seq(Files) /\ Append(loaded, Head(buffer)) \in Seq(Files)
        /\ loaded \in Seq(Files) /\ buffer \in Seq(Files) /\ events \in Seq(Files)
        /\ appeared = loaded \o (buffer \o events)
    BY <1>5, <2>1, HeadTailProperties, AppendProperties DEF PluginsKnown
  <2>4. appeared = Append(loaded, Head(buffer)) \o (Tail(buffer) \o events)
    <3>1. PICK t \in Seq(Files) : /\ t = buffer \o events /\ t # << >>
                                  /\ Head(t) = Head(buffer) /\ Tail(t) = Tail(buffer) \o events
      BY <2>1, <2>3, HeadOfBoth, Zenon
    <3>2. loaded \o t = Append(loaded, Head(t)) \o Tail(t)
      BY <2>3, <3>1, MoveHead, Zenon
    <3> QED
      BY <2>3, <3>1, <3>2, Zenon
  <2>5. loaded' \in Seq(Files) /\ Tail(buffer) \o events \in Seq(Files) /\ appeared = loaded' \o (Tail(buffer) \o events)
    BY <2>2, <2>3, <2>4, ConcatProperties
  <2>6. Len(loaded') <= Len(appeared) /\ \A i \in 1 .. Len(loaded') : loaded'[i] = appeared[i]
    BY <2>5, IsPrefixOf
  <2>7. PluginsKnown'
    BY <1>1, <1>5, <2>1, <2>2, <2>3, <2>5, <2>6 DEF PluginsKnown
  <2> QED
    BY <1>2, <2>7
<1> QED
  BY <1>3, <1>4, <1>5 DEF PluginsKnown

\* The steps of the owner: Run starts the listener thread at most once, and the
\* destructor goes from the callback to the monitor.
LEMMA OwnerInv ==
  ASSUME MonitorInv, RunMonitor \/ Unregister \/ DtorStep
  PROVE  MonitorInv'
<1> USE DEF MonitorInv, Inside
<1>1. CASE RunMonitor
  <2>1. /\ UNCHANGED <<loopAt, events, buffer, subscribed, copied, callbackAlive, appeared, loaded, lateCalls>>
        /\ life = "runMonitor" /\ life' = "runReactor" /\ monitorRunning' = TRUE
        /\ listenAt' = IF monitorRunning THEN listenAt ELSE "check"
    BY <1>1 DEF RunMonitor, reactorVars
  <2>2. ~monitorRunning => listenAt = "none" /\ buffer = << >> /\ ~copied
    BY <2>1 DEF ThreadsKnown, PluginsKnown
  <2>3. ThreadsKnown'
    BY <2>1, <2>2 DEF ThreadsKnown
  <2>4. PluginsKnown'
    BY <2>1, <2>2 DEF PluginsKnown
  <2> QED
    BY <2>3, <2>4
<1>2. CASE Unregister
  BY <1>2 DEF Unregister, reactorVars, ThreadsKnown, PluginsKnown
<1>3. CASE DestroyCallbackMember
  <2>1. ~subscribed'
    BY <1>3 DEF DestroyCallbackMember, PluginsKnown
  <2> QED
    BY <1>3, <2>1 DEF DestroyCallbackMember, reactorVars, ThreadsKnown, PluginsKnown
<1>4. CASE ClearFlag
  BY <1>4 DEF ClearFlag, FirstOfDtor, reactorVars, ThreadsKnown, PluginsKnown
<1>5. CASE RemoveWatch
  BY <1>5 DEF RemoveWatch, FirstOfDtor, reactorVars, ThreadsKnown, PluginsKnown
<1>6. CASE Join
  BY <1>6 DEF Join, monitorVars, ThreadsKnown, PluginsKnown
<1> QED
  BY <1>1, <1>2, <1>3, <1>4, <1>5, <1>6 DEF DtorStep

\* Every step of the framework's threads keeps the invariant.
LEMMA MonitorNextInv == MonitorInv /\ [FrameworkNext]_fwVars => MonitorInv'
<1> SUFFICES ASSUME MonitorInv, [FrameworkNext]_fwVars PROVE MonitorInv'
  OBVIOUS
<1> DEFINE Calm == UNCHANGED <<monitorRunning, listenAt, events, buffer, subscribed, copied, callbackAlive, appeared,
                               loaded, lateCalls>>
<1>0. loopAt # "out" => life = "running"
  BY DEF MonitorInv, ThreadsKnown
<1>1. CASE Run \/ RunReactor
  <2>1. Calm
    BY <1>1 DEF Run, RunReactor, monitorVars
  <2>2. \/ life \in {"built", "returned", "threw"} /\ life' = "runMonitor" /\ loopAt' = loopAt
        \/ life = "runReactor" /\ (life' = "running" \/ (life' = "threw" /\ loopAt' = loopAt))
    BY <1>1 DEF Run, RunReactor, reactorVars
  <2> QED
    BY <2>1, <2>2, MonitorSame
<1>2. CASE Stop \/ StopPool \/ ChangeFds \/ PoolStep \/ InvokeCallback \/ AddTask
           \/ \E f \in Fds, k \in Keys : Arrive(f, k)
  <2>1. Calm /\ UNCHANGED <<life, loopAt>>
    BY <1>2 DEF Stop, StopPool, ChangeFds, PoolStep, TakeTask, Execute, InvokeCallback, AddTask, Arrive, monitorVars,
       reactorVars
  <2> QED
    BY <2>1, MonitorSame
<1>3. CASE Loop \/ Listen \/ ListenThrows \/ EndOfRound
  <2>1. Calm
    BY <1>3 DEF Loop, Listen, ListenThrows, EndOfRound, monitorVars
  <2>2. loopAt # "out" /\ (life' = life \/ (life' \in {"returned", "threw"} /\ loopAt' = "out"))
    BY <1>3 DEF Loop, Listen, ListenThrows, EndOfRound
  <2> QED
    BY <1>0, <2>1, <2>2, MonitorSame
<1>4. CASE CheckRunning
  BY <1>4 DEF CheckRunning, reactorVars, MonitorInv, ThreadsKnown, PluginsKnown, Inside
<1>5. CASE ReadEvents
  <2>1. /\ listenAt = "read" /\ buffer' = events /\ events' = << >> /\ listenAt' = "next"
        /\ UNCHANGED <<life, loopAt, monitorRunning, subscribed, copied, callbackAlive, appeared, loaded, lateCalls>>
    BY <1>5 DEF ReadEvents, reactorVars
  <2>2. buffer = << >>
    BY <2>1 DEF MonitorInv, ThreadsKnown
  <2>3. ASSUME callbackAlive
        PROVE  /\ buffer' \in Seq(Files) /\ events' \in Seq(Files)
               /\ subscribed \/ copied => appeared = loaded \o (buffer' \o events')
    BY <2>1, <2>2, <2>3, EmptySeq, ConcatEmptySeq DEF MonitorInv, PluginsKnown
  <2>4. PluginsKnown'
    BY <2>1, <2>3 DEF MonitorInv, PluginsKnown
  <2>5. ThreadsKnown'
    BY <2>1 DEF MonitorInv, ThreadsKnown
  <2> QED
    BY <2>4, <2>5 DEF MonitorInv
<1>6. CASE UNCHANGED fwVars
  BY <1>6, MonitorSame DEF fwVars, reactorVars, monitorVars
<1> QED
  BY <1>1, <1>2, <1>3, <1>4, <1>5, <1>6, OwnerInv, AppearInv, NextEventInv, NotifyInv
     DEF FrameworkNext, RunStep, ReactorStep, ListenerStep

\* Nothing has appeared at the start.
LEMMA MonitorInitInv == FrameworkInit => MonitorInv
<1> SUFFICES ASSUME FrameworkInit PROVE MonitorInv
  OBVIOUS
<1>1. << >> \in Seq(Files) /\ Len(<< >>) = 0 /\ << >> \o (<< >> \o << >>) = << >>
  BY EmptySeq, ConcatEmptySeq
<1>2. ThreadsKnown
  BY DEF FrameworkInit, MonitorInit, ReactorInit, ThreadsKnown
<1>3. PluginsKnown
  <2>1. /\ appeared = << >> /\ loaded = << >> /\ buffer = << >> /\ events = << >> /\ lateCalls = 0
        /\ life = "built" /\ listenAt = "none"
    BY DEF FrameworkInit, MonitorInit
  <2>2. subscribed = TRUE /\ copied = FALSE /\ callbackAlive = TRUE
    BY DEF FrameworkInit
  <2>3. callbackAlive \in BOOLEAN /\ copied \in BOOLEAN /\ subscribed \in BOOLEAN
    BY <2>2, Zenon
  <2>4. /\ appeared \in Seq(Files) /\ loaded \in Seq(Files) /\ buffer \in Seq(Files) /\ events \in Seq(Files)
        /\ appeared = loaded \o (buffer \o events)
    BY <1>1, <2>1, Zenon
  <2>5. Len(loaded) <= Len(appeared) /\ \A i \in 1 .. Len(loaded) : loaded[i] = appeared[i]
    <3>1. Len(loaded) = 0 /\ Len(appeared) = 0
      BY <1>1, <2>1, Zenon
    <3> QED
      BY <3>1
  <2>6. ~copied /\ callbackAlive /\ subscribed
    BY <2>2, Zenon
  <2>7. lateCalls \in {0, 1} /\ lateCalls = 0 /\ life \in Inside /\ life # "unregistered" /\ listenAt # "notify"
    BY <2>1 DEF Inside
  <2> QED
    BY <2>3, <2>4, <2>5, <2>6, <2>7, Zenon DEF PluginsKnown
<1> QED
  BY <1>2, <1>3 DEF MonitorInv

\* The invariants say what the framework promises.
LEMMA FrameworkInvTwice == TasksInv /\ MonitorInv => NothingTwice
<1> SUFFICES ASSUME TasksInv, MonitorInv PROVE NothingTwice
  OBVIOUS
<1>1. IsPrefix(loaded, appeared)
  <2>1. /\ Len(loaded) \in Nat /\ Len(loaded) <= Len(appeared)
        /\ \A i \in 1 .. Len(loaded) : loaded[i] = appeared[i]
    BY LenProperties DEF MonitorInv, PluginsKnown
  <2>2. SubSeq(loaded, 1, Len(loaded)) = SubSeq(appeared, 1, Len(loaded))
    BY <2>1
  <2> QED
    BY <2>1, <2>2 DEF IsPrefix
<1>2. subscribed => appeared = loaded \o (buffer \o events)
  BY DEF MonitorInv, PluginsKnown
<1>3. lateCalls <= 1
  BY DEF MonitorInv, PluginsKnown
<1>4. /\ \A n \in 1 .. Len(sent) :
           Times(n, input[sent[n].fd]) + Times(n, args) + Times(n, poolTasks) + Times(n, working)
             + Times(n, executed) = 1
      /\ \A f \in Fds, n \in 1 .. Len(sent) : f # sent[n].fd => Times(n, input[f]) = 0
  BY DEF TasksInv, Numbers
<1> QED
  BY <1>1, <1>2, <1>3, <1>4 DEF NothingTwice

\* Every input is at one place from the descriptor to the command, the read, the task
\* of the pool, the worker and the execution being steps of their own; and every
\* plug-in that appears is loaded once and in order while the callback is registered;
\* whatever Run, Stop, the destructor, a failing select, the workers and the listener
\* thread do in between.
THEOREM HandledOnce == FrameworkSpec => []NothingTwice
BY TasksInitInv, TasksNextInv, MonitorInitInv, MonitorNextInv, FrameworkInvTwice, PTL DEF FrameworkSpec

-----------------------------------------------------------------------------
(* All parts.                                                               *)

PartsInv == TasksInv /\ MonitorInv /\ DispatcherInv /\ HandletonInv /\ LoggerInv

\* A step of the whole is for each part one of its steps or none.
LEMMA PartsNextInv == PartsInv /\ [MCNext]_mcVars => PartsInv'
<1> SUFFICES ASSUME PartsInv, [MCNext]_mcVars PROVE PartsInv'
  OBVIOUS
<1>1. [FrameworkNext]_fwVars
  BY DEF MCNext, mcVars
<1>2. [DispatcherNext]_dispatcherVars
  BY DEF MCNext, mcVars
<1>3. [HandletonNext]_handletonVars
  BY DEF MCNext, mcVars
<1>4. [LoggerNext]_loggerVars
  BY DEF MCNext, mcVars
<1> QED
  BY <1>1, <1>2, <1>3, <1>4, TasksNextInv, MonitorNextInv, DispatcherNextInv, HandletonNextInv, LoggerNextInv
     DEF PartsInv

\* The framework's parts keep together what each of them promises.
THEOREM PartsHold == MCSpec => []FrameworkHolds
<1>1. MCInit => PartsInv
  BY TasksInitInv, MonitorInitInv, DispatcherInitInv, HandletonInitInv, LoggerInitInv DEF MCInit, PartsInv
<1>2. PartsInv => FrameworkHolds
  BY FrameworkInvTwice, HandletonInvOne, LoggerInvComplete DEF PartsInv, FrameworkHolds, DispatcherInv
<1> QED
  BY <1>1, <1>2, PartsNextInv, PTL DEF MCSpec

-----------------------------------------------------------------------------
(* The objects of AsyncInjection on the timer of the Scheduler, for every   *)
(* set of tasks and of callback threads.                                    *)

\* A callback that executes a task has one, and a task once created belongs
\* to Tasks; ScheduledOnce is what makes OwnerAlive inductive: the callback
\* that deletes an object is the only one that knows it.
ExecutingOK == \A c \in Executing : cb[c].task \in Tasks

InjectionInv == InjectionTypeOK /\ ExecutingOK /\ OwnerAlive /\ ScheduledOnce /\ TimerCoversQueue

-----------------------------------------------------------------------------
LEMMA InjectionInvInit == InjectionInit => InjectionInv
<1> SUFFICES ASSUME InjectionInit PROVE InjectionInv
  OBVIOUS
<1> USE DEF InjectionInit, SchedInit, NoCallback, Off
<1>1. InjectionTypeOK
  BY DEF InjectionTypeOK, SchedTypeOK, CallbackPCs, Entries
<1>2. Executing = {}
  BY DEF Executing
<1>3. QED
  BY <1>1, <1>2 DEF InjectionInv, ExecutingOK, OwnerAlive, ScheduledOnce, TimerCoversQueue

\* What a re-arming of the timer leaves behind.
LEMMA SetTimerArms ==
  ASSUME NEW when \in Int, SetTimer(when)
  PROVE  m_timer' \in [armed : BOOLEAN, due : Int] /\ m_timer'.armed
BY DEF SetTimer

LEMMA NewInjectionInv ==
  ASSUME InjectionInv, NEW t \in Tasks, New(t)
  PROVE  InjectionInv'
<1> DEFINE x == [task |-> t, due |-> Delay[t]]
<1>t. InjectionTypeOK /\ ExecutingOK /\ OwnerAlive /\ ScheduledOnce
  BY DEF InjectionInv
<1>1. /\ m_waitable_queue' = m_waitable_queue \union {x}
      /\ SetTimer(Delay[t])
      /\ cb' = cb
      /\ owner' = [owner EXCEPT ![t] = "alive"]
      /\ owner[t] # "alive"
  BY DEF New, Add
<1>2. Delay[t] \in Int /\ x \in Entries
  BY SchedulerAssumption DEF Entries
<1>3. InjectionTypeOK' /\ m_timer'.armed
  BY <1>1, <1>2, <1>t, SetTimerArms DEF InjectionTypeOK, SchedTypeOK
<1>4. Executing' = Executing
  BY <1>1 DEF Executing
<1>5. ExecutingOK'
  BY <1>1, <1>4, <1>t DEF ExecutingOK
<1>6. \A e \in m_waitable_queue : e.task \in Tasks /\ e.task # t
  BY <1>1, <1>t DEF InjectionTypeOK, SchedTypeOK, Entries, OwnerAlive
<1>7. \A c \in Executing : cb[c].task # t
  BY <1>1, <1>t DEF OwnerAlive
<1>8. OwnerAlive'
  BY <1>1, <1>4, <1>6, <1>7, <1>t
     DEF OwnerAlive, ExecutingOK, InjectionTypeOK
<1>9. ScheduledOnce'
  BY <1>1, <1>4, <1>6, <1>7, <1>t DEF ScheduledOnce
<1>10. QED
  BY <1>3, <1>5, <1>8, <1>9 DEF InjectionInv, TimerCoversQueue

\* A step of a callback thread.
LEMMA CallbackInjectionInv ==
  ASSUME InjectionInv, NEW c \in TimerThreads, CallbackStep(c)
  PROVE  InjectionInv'
<1>t. InjectionTypeOK /\ ExecutingOK /\ OwnerAlive /\ ScheduledOnce /\ TimerCoversQueue
  BY DEF InjectionInv
<1>u. /\ cb \in [TimerThreads -> [pc : CallbackPCs, task : Tasks \union {NoTask}]]
      /\ m_waitable_queue \subseteq Entries
      /\ m_timer \in [armed : BOOLEAN, due : Int]
      /\ owner \in [Tasks -> {"none", "alive", "deleted"}]
  BY <1>t DEF InjectionTypeOK, SchedTypeOK
\* A callback that ends: Executing is unchanged because c was not in it.
<1>a. ASSUME cb' = [cb EXCEPT ![c] = NoCallback], owner' = owner,
             m_waitable_queue' = m_waitable_queue,
             m_timer' \in [armed : BOOLEAN, due : Int],
             cb[c].pc \in {"start", "rearm"},
             m_waitable_queue # {} => m_timer'.armed
      PROVE  InjectionInv'
  <2>1. InjectionTypeOK'
    BY <1>a, <1>u DEF InjectionTypeOK, SchedTypeOK, NoCallback, CallbackPCs
  <2>2. Executing' = Executing /\ \A d \in Executing : cb'[d] = cb[d]
    BY <1>a, <1>u DEF Executing, NoCallback
  <2>3. QED
    BY <2>1, <2>2, <1>a, <1>t
       DEF InjectionInv, ExecutingOK, OwnerAlive, ScheduledOnce, TimerCoversQueue
<1>1. CASE CallbackEmpty(c) /\ UNCHANGED owner
  BY <1>1, <1>a, <1>u DEF CallbackEmpty
<1>2. ASSUME NEW e \in m_waitable_queue, CallbackEarly(c, e), UNCHANGED owner
      PROVE  InjectionInv'
  <2>1. e.due \in Int
    BY <1>u DEF Entries
  <2>2. QED
    BY <1>2, <2>1, <1>a, SetTimerArms DEF CallbackEarly
<1>3. ASSUME NEW e \in m_waitable_queue, CallbackExecute(c, e), UNCHANGED owner
      PROVE  InjectionInv'
  <2>0. e.task \in Tasks
    BY <1>u DEF Entries
  <2>1. InjectionTypeOK'
    BY <1>3, <2>0, <1>u, <1>t DEF CallbackExecute, InjectionTypeOK, SchedTypeOK, CallbackPCs
  <2>2. /\ Executing' = Executing \union {c} /\ c \notin Executing
        /\ \A d \in Executing : cb'[d] = cb[d]
        /\ cb'[c].task = e.task
        /\ m_waitable_queue' = m_waitable_queue \ {e}
    BY <1>3, <1>u DEF CallbackExecute, Executing
  <2>3. ExecutingOK' /\ OwnerAlive'
    BY <2>0, <2>2, <1>3, <1>t DEF ExecutingOK, OwnerAlive
  <2>4. ScheduledOnce'
    BY <2>2, <1>t DEF ScheduledOnce
  <2>5. TimerCoversQueue'
    BY <1>3, <1>u DEF CallbackExecute, TimerCoversQueue, InFlight
  <2>6. QED
    BY <2>1, <2>3, <2>4, <2>5 DEF InjectionInv
<1>4. CASE CallbackRearm(c) /\ UNCHANGED owner
  <2>1. CASE m_waitable_queue = {}
    BY <1>4, <2>1, <1>a, <1>u DEF CallbackRearm
  <2>2. CASE m_waitable_queue # {}
    <3>1. PICK e \in m_waitable_queue : SetTimer(e.due)
      BY <1>4, <2>2 DEF CallbackRearm
    <3>2. e.due \in Int
      BY <1>u DEF Entries
    <3>3. QED
      BY <1>4, <3>1, <3>2, <1>a, SetTimerArms DEF CallbackRearm
  <2>3. QED
    BY <2>1, <2>2
<1>5. CASE FuncDone(c)
  <2>0. c \in Executing /\ cb[c].task \in Tasks
    BY <1>5, <1>t DEF FuncDone, Executing, ExecutingOK
  <2>1. InjectionTypeOK'
    BY <1>5, <2>0, <1>u, <1>t DEF FuncDone, InjectionTypeOK, SchedTypeOK, CallbackPCs
  <2>2. /\ Executing' = Executing \ {c}
        /\ \A d \in Executing : cb'[d].task = cb[d].task
    BY <1>5, <1>u DEF FuncDone, Executing
  <2>3. ExecutingOK' /\ ScheduledOnce'
    BY <2>2, <1>5, <1>t DEF FuncDone, ExecutingOK, ScheduledOnce
  <2>4. OwnerAlive'
    BY <2>0, <2>2, <1>5, <1>u, <1>t
       DEF FuncDone, OwnerAlive, ScheduledOnce, ExecutingOK, Entries
  <2>5. TimerCoversQueue'
    BY <1>5, <1>u DEF FuncDone, TimerCoversQueue, InFlight
  <2>6. QED
    BY <2>1, <2>3, <2>4, <2>5 DEF InjectionInv
<1>6. CASE FuncAgain(c)
  <2>1. InjectionTypeOK'
    BY <1>6, <1>u, <1>t DEF FuncAgain, InjectionTypeOK, SchedTypeOK, CallbackPCs
  <2>2. /\ Executing' = Executing
        /\ \A d \in Executing : cb'[d].task = cb[d].task
    BY <1>6, <1>u DEF FuncAgain, Executing
  <2>3. ExecutingOK' /\ ScheduledOnce' /\ OwnerAlive'
    BY <2>2, <1>6, <1>t DEF FuncAgain, ExecutingOK, ScheduledOnce, OwnerAlive
  <2>4. TimerCoversQueue'
    BY <1>6, <1>u DEF FuncAgain, TimerCoversQueue, InFlight
  <2>5. QED
    BY <2>1, <2>3, <2>4 DEF InjectionInv
<1>7. CASE Schedule(c)
  <2> DEFINE t == cb[c].task
             x == [task |-> t, due |-> Delay[t]]
  <2>0. c \in Executing /\ t \in Tasks
    BY <1>7, <1>t DEF Schedule, Executing, ExecutingOK
  <2>1. Delay[t] \in Int /\ x \in Entries
    BY <2>0, SchedulerAssumption DEF Entries
  <2>2. /\ m_waitable_queue' = m_waitable_queue \union {x}
        /\ SetTimer(Delay[t])
        /\ cb' = [cb EXCEPT ![c].pc = "rearm"]
        /\ owner' = owner
    BY <1>7 DEF Schedule, Add
  <2>3. InjectionTypeOK' /\ m_timer'.armed
    BY <2>1, <2>2, <1>u, SetTimerArms DEF InjectionTypeOK, SchedTypeOK, CallbackPCs
  <2>4. /\ Executing' = Executing \ {c}
        /\ \A d \in Executing : cb'[d].task = cb[d].task
    BY <2>2, <1>u DEF Executing
  <2>5. ExecutingOK' /\ OwnerAlive'
    BY <2>0, <2>2, <2>4, <1>t DEF ExecutingOK, OwnerAlive
  <2>6. ScheduledOnce'
    BY <2>0, <2>2, <2>4, <1>t DEF ScheduledOnce
  <2>7. QED
    BY <2>3, <2>5, <2>6 DEF InjectionInv, TimerCoversQueue
<1>8. QED
  BY <1>1, <1>2, <1>3, <1>4, <1>5, <1>6, <1>7 DEF CallbackStep

\* The timer's own steps: it expires, or time passes.
LEMMA TimerInjectionInv ==
  ASSUME InjectionInv, TimerExpires \/ (Tick /\ UNCHANGED owner)
  PROVE  InjectionInv'
<1>t. InjectionTypeOK /\ ExecutingOK /\ OwnerAlive /\ ScheduledOnce /\ TimerCoversQueue
  BY DEF InjectionInv
<1>u. /\ cb \in [TimerThreads -> [pc : CallbackPCs, task : Tasks \union {NoTask}]]
      /\ m_waitable_queue \subseteq Entries
      /\ m_timer \in [armed : BOOLEAN, due : Int]
      /\ owner \in [Tasks -> {"none", "alive", "deleted"}]
  BY <1>t DEF InjectionTypeOK, SchedTypeOK
<1>1. ASSUME NEW c \in TimerThreads, Expire(c), UNCHANGED owner PROVE InjectionInv'
  <2>1. InjectionTypeOK'
    BY <1>1, <1>u DEF Expire, InjectionTypeOK, SchedTypeOK, CallbackPCs, Off
  <2>2. Executing' = Executing /\ \A d \in Executing : cb'[d] = cb[d]
    BY <1>1, <1>u DEF Expire, Executing
  <2>3. ExecutingOK' /\ OwnerAlive' /\ ScheduledOnce'
    BY <2>2, <1>1, <1>t DEF Expire, ExecutingOK, OwnerAlive, ScheduledOnce
  <2>4. TimerCoversQueue'
    BY <1>1, <1>u DEF Expire, TimerCoversQueue, InFlight
  <2>5. QED
    BY <2>1, <2>3, <2>4 DEF InjectionInv
<1>2. CASE Tick /\ UNCHANGED owner
  <2> DEFINE Later(e) == [e EXCEPT !.due = @ - 1]
  <2>1. /\ m_waitable_queue' = {Later(e) : e \in m_waitable_queue}
        /\ cb' = cb /\ owner' = owner
    BY <1>2 DEF Tick
  <2>2. \A e \in m_waitable_queue : Later(e) \in Entries /\ Later(e).task = e.task
    BY <1>u DEF Entries
  <2>3. m_timer' \in [armed : BOOLEAN, due : Int] /\ m_timer'.armed = m_timer.armed
    BY <1>2, <1>u DEF Tick
  <2>4. InjectionTypeOK'
    BY <2>1, <2>2, <2>3, <1>u DEF InjectionTypeOK, SchedTypeOK
  <2>5. Executing' = Executing /\ InFlight' = InFlight
    BY <2>1 DEF Executing, InFlight
  <2> HIDE DEF Later
  <2>6. ExecutingOK' /\ OwnerAlive'
    BY <2>1, <2>2, <2>5, <1>t DEF ExecutingOK, OwnerAlive
  <2>7. ScheduledOnce'
    BY <2>1, <2>2, <2>5, <1>t DEF ScheduledOnce
  <2>8. TimerCoversQueue'
    BY <2>1, <2>3, <2>5, <1>t DEF TimerCoversQueue
  <2>9. QED
    BY <2>4, <2>6, <2>7, <2>8 DEF InjectionInv
<1>3. QED
  BY <1>1, <1>2 DEF TimerExpires

\* The inductive invariant holds in every reachable state.
THEOREM SchedulerInvariant == InjectionSpec => []InjectionInv
<1>1. InjectionInv /\ [InjectionNext]_injectionVars => InjectionInv'
  <2> SUFFICES ASSUME InjectionInv, [InjectionNext]_injectionVars PROVE InjectionInv'
    OBVIOUS
  <2>1. CASE UNCHANGED injectionVars
    BY <2>1 DEF injectionVars, schedVars, InjectionInv, InjectionTypeOK, SchedTypeOK, ExecutingOK, OwnerAlive,
                ScheduledOnce, TimerCoversQueue, Executing, InFlight
  <2>2. QED
    BY <2>1, NewInjectionInv, CallbackInjectionInv, TimerInjectionInv DEF InjectionNext
<1>2. QED
  BY InjectionInvInit, <1>1, PTL DEF InjectionSpec

\* The queue, the timer and the callbacks keep their types.
THEOREM InjectionTypes == InjectionSpec => []InjectionTypeOK
<1>1. InjectionInv => InjectionTypeOK
  BY DEF InjectionInv
<1>2. QED
  BY <1>1, SchedulerInvariant, PTL

\* One timer is enough for any number of tasks and of overlapping callbacks.
THEOREM TimerNeverLost == InjectionSpec => []TimerCoversQueue
<1>1. InjectionInv => TimerCoversQueue
  BY DEF InjectionInv
<1>2. QED
  BY <1>1, SchedulerInvariant, PTL

\* The scheduler never holds a task whose AsyncInjection was deleted.
THEOREM NoUseAfterFree == InjectionSpec => []OwnerAlive
<1>1. InjectionInv => OwnerAlive
  BY DEF InjectionInv
<1>2. QED
  BY <1>1, SchedulerInvariant, PTL

\* No AsyncInjection is queued or executed twice at the same time.
THEOREM NeverTwice == InjectionSpec => []ScheduledOnce
<1>1. InjectionInv => ScheduledOnce
  BY DEF InjectionInv
<1>2. QED
  BY <1>1, SchedulerInvariant, PTL

=============================================================================
