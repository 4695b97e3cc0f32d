------------------------------ MODULE Observers ------------------------------
(***************************************************************************)
(* Three small parts of the framework: the Dispatcher and its callbacks    *)
(* (dispatcher.hpp), the Handleton that creates an object once and         *)
(* destroys it at exit (handleton.hpp; singleton.hpp has the same code),   *)
(* and the Logger with its writer thread (logger.cpp).                     *)
(***************************************************************************)
EXTENDS Integers, Sequences, SequencesExt, FiniteSets

CONSTANTS
  Dispatchers,
  Callbacks,
  MaxNest,        \* bound on the loops over callbacks inside each other
  HThreads,       \* threads that call GetInstance
  LogThreads,     \* threads that call Log
  MaxLogs         \* bound on the calls of Log by each of them

\* Dispatchers and callbacks are different objects; 0 stands for nullptr.
ASSUME ObserversAssumption ==
  /\ 0 \notin Dispatchers \union Callbacks
  /\ Callbacks \intersect Dispatchers = {}
  /\ MaxNest \in Nat /\ MaxLogs \in Nat

VARIABLES
  m_callbacks,    \* per dispatcher
  m_dispatcher,   \* per callback; NoDispatcher for nullptr
  dead,           \* dispatchers and callbacks destroyed
  casting,        \* the loops of Broadcast and ~Dispatcher, the innermost last: the
                  \* dispatcher, its copy, the callbacks that have died since
  mixed,          \* callbacks used in a way one m_dispatcher cannot tell
  stale           \* callbacks by which freed memory was used

dispatcherVars == <<m_callbacks, m_dispatcher, dead, casting, mixed, stale>>

NoDispatcher == 0

-----------------------------------------------------------------------------
(* Dispatcher.  One thread.  While a callback is being notified its observer *)
(* may do anything: subscribe, unsubscribe, broadcast, destroy callbacks and *)
(* dispatchers, the ones at work included.  An object is destroyed once, and *)
(* only a living one is used.                                                *)

LiveCallbacks == Callbacks \ dead

Top == casting[Len(casting)]

\* The loops of destructors, and the dispatchers they destroy.
DeathLoops == {i \in DOMAIN casting : casting[i].end}
Dying == {casting[i].by : i \in DeathLoops}

\* What a callback cannot remember: a second dispatcher, one that is dying, or
\* a new one while the death of the last is still to be told.
Subscribe(d, c) ==
  /\ d \notin dead /\ c \in LiveCallbacks
  /\ m_callbacks' = [m_callbacks EXCEPT ![d] = @ \union {c}]
  /\ m_dispatcher' = [m_dispatcher EXCEPT ![c] = d]
  /\ mixed' = IF \/ m_dispatcher[c] \notin {NoDispatcher, d} \/ d \in Dying
                 \/ \E i \in DeathLoops : c \in casting[i].copy
              THEN mixed \union {c} ELSE mixed
  /\ UNCHANGED <<dead, casting, stale>>

\* A callback unsubscribed from another dispatcher than its own forgets its own.
UnSubscribe(d, c) ==
  /\ d \notin dead /\ c \in LiveCallbacks
  /\ m_callbacks' = [m_callbacks EXCEPT ![d] = @ \ {c}]
  /\ m_dispatcher' = [m_dispatcher EXCEPT ![c] = NoDispatcher]
  /\ mixed' = IF m_dispatcher[c] \in {NoDispatcher, d} THEN mixed ELSE mixed \union {c}
  /\ UNCHANGED <<dead, casting, stale>>

Died(c) == [i \in DOMAIN casting |-> [casting[i] EXCEPT !.died = @ \union {c}]]

\* Mutant: the destructor does not unsubscribe.
MutDestroyCallback(c) ==
  /\ c \in LiveCallbacks
  /\ dead' = dead \union {c} /\ casting' = Died(c)
  /\ UNCHANGED <<m_callbacks, m_dispatcher, mixed, stale>>

\* ~BaseCallback: UnSubscribe at m_dispatcher, which is a use of freed memory if
\* that is dead, and then changes no living object.
DestroyCallback(c) ==
  LET d == m_dispatcher[c] IN
  /\ c \in LiveCallbacks
  /\ dead' = dead \union {c}
  /\ m_callbacks' = [e \in Dispatchers |-> IF e = d /\ e \notin dead THEN m_callbacks[e] \ {c} ELSE m_callbacks[e]]
  /\ m_dispatcher' = [m_dispatcher EXCEPT ![c] = NoDispatcher]
  /\ stale' = IF d \in dead THEN stale \union {c} ELSE stale
  /\ casting' = Died(c)
  /\ UNCHANGED mixed

\* Broadcast notifies a copy; of a dying dispatcher also the callbacks that have
\* been told of its death.
Broadcast(d) ==
  /\ d \notin dead /\ Len(casting) < MaxNest
  /\ casting' = Append(casting, [by |-> d, end |-> FALSE, copy |-> m_callbacks[d], died |-> {}])
  /\ mixed' = IF d \in Dying THEN mixed \union {c \in m_callbacks[d] : m_dispatcher[c] # d} ELSE mixed
  /\ UNCHANGED <<m_callbacks, m_dispatcher, dead, stale>>

\* ~Dispatcher, which notifies a copy too.
DestroyDispatcher(d) ==
  /\ d \notin dead \union Dying /\ Len(casting) < MaxNest
  /\ casting' = Append(casting, [by |-> d, end |-> TRUE, copy |-> m_callbacks[d], died |-> {}])
  /\ UNCHANGED <<m_callbacks, m_dispatcher, dead, mixed, stale>>

\* The next callback of the innermost copy: Notify, or NotifyDeath, which forgets
\* the dispatcher first.  One destroyed meanwhile is called all the same.
NotifyNext(c) ==
  /\ casting # << >> /\ c \in Top.copy
  /\ casting' = [casting EXCEPT ![Len(casting)].copy = @ \ {c}]
  /\ stale' = IF c \in dead /\ c \notin Top.died THEN stale \union {c} ELSE stale
  /\ m_dispatcher' = IF Top.end /\ c \notin dead THEN [m_dispatcher EXCEPT ![c] = NoDispatcher] ELSE m_dispatcher
  /\ UNCHANGED <<m_callbacks, dead, mixed>>

\* The end of the innermost loop; the destructor clears the set.
EndCast ==
  /\ casting # << >> /\ Top.copy = {}
  /\ casting' = Front(casting)
  /\ m_callbacks' = IF Top.end THEN [m_callbacks EXCEPT ![Top.by] = {}] ELSE m_callbacks
  /\ dead' = IF Top.end THEN dead \union {Top.by} ELSE dead
  /\ UNCHANGED <<m_dispatcher, mixed, stale>>

DispatcherInit ==
  /\ m_callbacks = [d \in Dispatchers |-> {}] /\ m_dispatcher = [c \in Callbacks |-> NoDispatcher]
  /\ dead = {} /\ casting = << >> /\ mixed = {} /\ stale = {}

DispatcherNext ==
  \/ \E d \in Dispatchers, c \in Callbacks : Subscribe(d, c) \/ UnSubscribe(d, c)
  \/ \E c \in Callbacks : DestroyCallback(c) \/ NotifyNext(c)
  \/ \E d \in Dispatchers : Broadcast(d) \/ DestroyDispatcher(d)
  \/ EndCast

DispatcherSpec == DispatcherInit /\ [][DispatcherNext]_dispatcherVars

-----------------------------------------------------------------------------
(* Handleton.                                                               *)

VARIABLES
  s_instance, s_isDestroyed, s_mutex,
  hAt, hTmp,      \* where a thread is in GetInstance, its tmp
  atexits,        \* calls of Destroy registered and not run yet
  destroying,     \* Destroy's tmp while it runs; NoObject outside
  objects,        \* how many objects have been created
  freedObjects,   \* those deleted
  gotWhen         \* what GetInstance returned, and if s_isDestroyed was set then

handletonVars == <<s_instance, s_isDestroyed, s_mutex, hAt, hTmp, atexits, destroying, objects, freedObjects, gotWhen>>

NoObject == 0

HandletonInit ==
  /\ s_instance = NoObject /\ s_isDestroyed = FALSE /\ s_mutex = {}
  /\ hAt = [t \in HThreads |-> "out"] /\ hTmp = [t \in HThreads |-> NoObject]
  /\ atexits = 0 /\ destroying = <<NoObject, "no">> /\ objects = 0 /\ freedObjects = {} /\ gotWhen = {}

Hop(t, l) == hAt' = [hAt EXCEPT ![t] = l]
Returned(t, obj) == gotWhen' = gotWhen \union {<<t, obj, s_isDestroyed>>}

\* The first load: an instance is returned at once.
LoadInstance(t) ==
  /\ hAt[t] = "out"
  /\ IF s_instance = NoObject THEN Hop(t, "check") /\ UNCHANGED gotWhen
     ELSE Returned(t, s_instance) /\ UNCHANGED hAt
  /\ UNCHANGED <<s_instance, s_isDestroyed, s_mutex, hTmp, atexits, destroying, objects, freedObjects>>

\* abort() ends the process if the object has been destroyed.
CheckDestroyed(t) ==
  /\ hAt[t] = "check"
  /\ hAt' = IF s_isDestroyed THEN [u \in HThreads |-> "aborted"] ELSE [hAt EXCEPT ![t] = "lock"]
  /\ UNCHANGED <<s_instance, s_isDestroyed, s_mutex, hTmp, atexits, destroying, objects, freedObjects, gotWhen>>

\* Mutant: the instance is not looked at again under the lock.
MutLoadAgain == NoObject

\* The load under the lock.
LoadAgain == s_instance

LockAndLoad(t) ==
  /\ hAt[t] = "lock" /\ s_mutex = {}
  /\ s_mutex' = {t} /\ hTmp' = [hTmp EXCEPT ![t] = LoadAgain]
  /\ Hop(t, "create")
  /\ UNCHANGED <<s_instance, s_isDestroyed, atexits, destroying, objects, freedObjects, gotWhen>>

\* new T(), the store, atexit, the unlock; or only the unlock.
CreateInstance(t) ==
  /\ hAt[t] = "create"
  /\ IF hTmp[t] = NoObject
     THEN /\ objects' = objects + 1 /\ s_instance' = objects + 1 /\ atexits' = atexits + 1
          /\ Returned(t, objects + 1)
     ELSE Returned(t, hTmp[t]) /\ UNCHANGED <<objects, s_instance, atexits>>
  /\ s_mutex' = {} /\ hTmp' = [hTmp EXCEPT ![t] = NoObject] /\ Hop(t, "out")
  /\ UNCHANGED <<s_isDestroyed, destroying, freedObjects>>

\* Destroy, run by exit while other threads may still be inside GetInstance.
DestroyInstance ==
  \/ /\ atexits > 0 /\ destroying[2] = "no"
     /\ destroying' = <<s_instance, "flag">> /\ atexits' = atexits - 1
     /\ UNCHANGED <<s_instance, s_isDestroyed, freedObjects>>
  \/ /\ destroying[2] = "flag"
     /\ s_isDestroyed' = TRUE /\ destroying' = <<destroying[1], "clear">>
     /\ UNCHANGED <<s_instance, atexits, freedObjects>>
  \/ /\ destroying[2] = "clear"
     /\ s_instance' = NoObject /\ destroying' = <<destroying[1], "delete">>
     /\ UNCHANGED <<s_isDestroyed, atexits, freedObjects>>
  \/ /\ destroying[2] = "delete"
     /\ freedObjects' = freedObjects \union {destroying[1]} /\ destroying' = <<NoObject, "no">>
     /\ UNCHANGED <<s_instance, s_isDestroyed, atexits>>

HandletonNext ==
  \/ \E t \in HThreads : LoadInstance(t) \/ CheckDestroyed(t) \/ LockAndLoad(t) \/ CreateInstance(t)
  \/ /\ \E t \in HThreads : hAt[t] # "aborted"
     /\ DestroyInstance
     /\ UNCHANGED <<s_mutex, hAt, hTmp, objects, gotWhen>>

HandletonSpec == HandletonInit /\ [][HandletonNext]_handletonVars

-----------------------------------------------------------------------------
(* Logger.  The queue is the WaitableQueue.                                 *)

VARIABLES
  m_is_alive, m_curr_level,
  logQueue,
  passed,       \* the message of a call of Log that has passed the level, per thread
  accepted,     \* messages pushed, in order
  due,          \* how many of them before the destructor began
  logged,       \* calls of Log per thread
  writerAt,     \* where WriteToFile is
  file,         \* the messages in the file
  fileOpen      \* the logger has not been destroyed

loggerVars == <<m_is_alive, m_curr_level, logQueue, passed, accepted, due, logged, writerAt, file, fileOpen>>

ERROR == 0
DEBUGING == 2
INFO == 3
Levels == {ERROR, DEBUGING, INFO}

NoMessage == << >>

LoggerInit ==
  /\ m_is_alive = TRUE /\ m_curr_level = DEBUGING /\ logQueue = << >> /\ accepted = << >> /\ due = 0
  /\ passed = [t \in LogThreads |-> NoMessage]
  /\ logged = [t \in LogThreads |-> 0] /\ writerAt = "test" /\ file = << >> /\ fileOpen = TRUE

\* Log up to the push: the level decides.  A thread may be here at any time, also
\* while the logger is being destroyed and after it.
Log(t, level) ==
  /\ passed[t] = NoMessage /\ logged[t] < MaxLogs
  /\ logged' = [logged EXCEPT ![t] = @ + 1]
  /\ passed' = IF level > m_curr_level THEN passed ELSE [passed EXCEPT ![t] = <<t, logged[t] + 1, level>>]
  /\ UNCHANGED <<m_is_alive, m_curr_level, logQueue, accepted, due, writerAt, file, fileOpen>>

\* The push; after the destruction it reaches no file.
LogPush(t) ==
  /\ passed[t] # NoMessage
  /\ passed' = [passed EXCEPT ![t] = NoMessage]
  /\ IF fileOpen
     THEN logQueue' = Append(logQueue, passed[t]) /\ accepted' = Append(accepted, passed[t])
     ELSE UNCHANGED <<logQueue, accepted>>
  /\ UNCHANGED <<m_is_alive, m_curr_level, due, logged, writerAt, file, fileOpen>>

SetLevel(level) ==
  /\ fileOpen /\ m_curr_level' = level
  /\ UNCHANGED <<m_is_alive, logQueue, passed, accepted, due, logged, writerAt, file, fileOpen>>

\* Mutant: the writer ends with the logger, whatever is left in the queue.
MutGoesOn == m_is_alive

\* m_is_alive.load() || !m_queue.empty()
GoesOn == m_is_alive \/ logQueue # << >>

WriterTest ==
  /\ writerAt = "test"
  /\ writerAt' = IF GoesOn THEN "pop" ELSE "ended"
  /\ UNCHANGED <<m_is_alive, m_curr_level, logQueue, passed, accepted, due, logged, file, fileOpen>>

\* pop with its time-out, and the line in the file.
WriterPop ==
  /\ writerAt = "pop" /\ writerAt' = "test"
  /\ IF logQueue = << >> THEN UNCHANGED <<logQueue, file>>
     ELSE file' = Append(file, Head(logQueue)) /\ logQueue' = Tail(logQueue)
  /\ UNCHANGED <<m_is_alive, m_curr_level, passed, accepted, due, logged, fileOpen>>

\* ~Logger: the flag, and after the join the file is closed.
DestroyLogger ==
  /\ m_is_alive /\ m_is_alive' = FALSE
  /\ due' = Len(accepted)
  /\ UNCHANGED <<m_curr_level, logQueue, passed, accepted, logged, writerAt, file, fileOpen>>

CloseLog ==
  /\ ~m_is_alive /\ writerAt = "ended" /\ fileOpen
  /\ fileOpen' = FALSE
  /\ UNCHANGED <<m_is_alive, m_curr_level, logQueue, passed, accepted, due, logged, writerAt, file>>

LoggerNext ==
  \/ \E t \in LogThreads : LogPush(t) \/ \E level \in Levels : Log(t, level)
  \/ \E level \in Levels : SetLevel(level)
  \/ WriterTest \/ WriterPop \/ DestroyLogger \/ CloseLog

LoggerSpec == LoggerInit /\ [][LoggerNext]_loggerVars

-----------------------------------------------------------------------------
(* Properties.                                                              *)

\* A dispatcher and its callbacks always know of each other, except that a
\* dispatcher's destructor has been forgotten by the callbacks it has told; so no
\* living callback points to a destroyed dispatcher and no dispatcher to a
\* destroyed callback, and nobody uses a destroyed object but a loop during which
\* a callback of its copy died (Subscribe, UnSubscribe, ~BaseCallback, and
\* Broadcast and ~Dispatcher inside each other).  This holds for a callback as long
\* as it is not used with two dispatchers at a time or with a dying one.
BothEndsAgree ==
  \A c \in Callbacks \ mixed :
    /\ c \notin stale
    /\ \A d \in Dispatchers :
         /\ m_dispatcher[c] = d => c \in m_callbacks[d] /\ d \notin dead /\ c \notin dead
         /\ c \in m_callbacks[d] => \/ m_dispatcher[c] = d
                                    \/ \E i \in DeathLoops : casting[i].by = d /\ c \notin casting[i].copy

\* GetInstance: until the object's destruction begins all calls return the same
\* object, and it lives; never are two objects alive; an object is created after
\* the destruction only by a thread that had passed the test before it.
OneInstance ==
  /\ \A g, h \in gotWhen : ~g[3] /\ ~h[3] => g[2] = h[2]
  /\ s_instance # NoObject => s_instance \notin freedObjects
  /\ Cardinality((1 .. objects) \ freedObjects) <= 1 \/ destroying[2] = "delete"
  /\ ~s_isDestroyed => objects <= 1

\* Every message that was pushed is written once and in order, and when the writer
\* has ended those that were pushed before the destructor began are all in the
\* file (Log, WriteToFile and ~Logger; one pushed later may be lost).
LogComplete ==
  /\ accepted = file \o logQueue
  /\ writerAt = "ended" => Len(file) >= due

=============================================================================
