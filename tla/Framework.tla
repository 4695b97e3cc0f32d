------------------------------ MODULE Framework ------------------------------
(***************************************************************************)
(* The framework around the thread pool: Framework (framework.cpp) owns an *)
(* InputMediator (input_mediator.cpp) with its Reactor (reactor.cpp) and   *)
(* listener (select_listener.hpp), and a DirMonitor (dir_monitor.cpp) that *)
(* broadcasts new files to the DllLoader (dll_loader.cpp).  Commands come  *)
(* from a Factory (factory.hpp), which plug-ins extend when they are       *)
(* loaded (my_plugin.cpp).                                                 *)
(*                                                                         *)
(* Threads: the one that calls Framework::Run and later destroys the       *)
(* framework, the monitor's listener thread, the pool's workers, and one   *)
(* that calls Stop.  An input has a number, the place of its key in sent;  *)
(* the pool is a bag of tasks here (see ThreadPool for its order).         *)
(***************************************************************************)
EXTENDS Integers, Sequences, SequencesExt, FiniteSets

CONSTANTS
  Fds,          \* monitored file descriptors
  Keys,         \* keys of commands
  FirstKeys,    \* those registered by the framework's constructor
  Files,        \* plug-ins that may appear in the directory, each a key
  MaxInputs     \* bound on the inputs of a run

\* The event that ends a watch; it has no name.
IN_IGNORED == "ignored"

ASSUME FrameworkAssumption ==
  /\ IsFiniteSet(Fds) /\ FirstKeys \subseteq Keys
  /\ Files \subseteq Keys /\ IN_IGNORED \notin Files
  /\ MaxInputs \in Nat

VARIABLES
  life,          \* of the framework, as its owner sees it
  stopping,      \* a call of Stop has told the reactor and not yet the pool
  m_is_running,  \* of the reactor
  loopAt,        \* where Reactor::Run is
  rdy_fds,       \* what is left of the listener's answer
  fdCallbacks,   \* m_callbacks of the reactor
  sent,          \* the inputs there have been: descriptor and key
  input,         \* per descriptor the inputs not read yet
  args,          \* the input read by the callback at work, until the pool has it
  poolTasks, poolRunning,
  working,       \* the tasks the workers have taken
  executed,      \* the tasks whose command was executed
  factoryMap,    \* keys of m_map
  crashed,       \* Create threw in a worker: std::terminate
  monitorRunning,       \* m_isRunning of the DirMonitor
  listenAt,             \* where ListeningLoop is
  events, buffer,       \* inotify events: in the kernel, read by the loop
  watching,             \* the inotify watch is in place
  subscribed, copied,   \* m_pluginCallback: is in m_callbacks, in a Broadcast's copy
  callbackAlive, appeared, loaded, lateCalls

reactorVars == <<m_is_running, loopAt, rdy_fds, fdCallbacks, sent, input, args>>
poolVars == <<poolTasks, poolRunning, working, executed, factoryMap, crashed>>
monitorVars == <<monitorRunning, listenAt, events, buffer, watching, subscribed, copied, callbackAlive, appeared,
                 loaded, lateCalls>>
fwVars == <<life, stopping, reactorVars, poolVars, monitorVars>>

-----------------------------------------------------------------------------
(* Framework, InputMediator.                                                *)

\* InputMediator's constructor adds a callback for every descriptor to the reactor.
ReactorInit ==
  /\ m_is_running = FALSE /\ loopAt = "out" /\ rdy_fds = << >>
  /\ fdCallbacks = Fds /\ sent = << >> /\ input = [f \in Fds |-> << >>] /\ args = << >>

\* RegisterCommands fills the factory; the pool has been made by its first use.
PoolInit ==
  /\ poolTasks = << >> /\ poolRunning = FALSE /\ working = << >> /\ executed = << >>
  /\ factoryMap = FirstKeys /\ crashed = FALSE

\* DirMonitor's constructor places the watch; its thread starts with Run.
MonitorInit ==
  /\ monitorRunning = FALSE /\ listenAt = "none" /\ events = << >> /\ buffer = << >> /\ watching = TRUE
  /\ appeared = << >> /\ loaded = << >> /\ lateCalls = 0

\* Framework's constructor ends by registering its callback with the monitor.
FrameworkInit ==
  /\ life = "built" /\ stopping = FALSE
  /\ ReactorInit /\ PoolInit /\ MonitorInit
  /\ subscribed = TRUE /\ copied = FALSE /\ callbackAlive = TRUE

\* Run, its first call: the pool.  The owner may call it again when it has
\* returned or thrown.
Run ==
  /\ life \in {"built", "returned", "threw"}
  /\ life' = "runMonitor" /\ poolRunning' = TRUE
  /\ UNCHANGED <<stopping, reactorVars, poolTasks, working, executed, factoryMap, crashed, monitorVars>>

\* DirMonitor::Run: the listener thread, unless there is one.
RunMonitor ==
  /\ life = "runMonitor" /\ life' = "runReactor"
  /\ monitorRunning' = TRUE
  /\ listenAt' = IF monitorRunning THEN listenAt ELSE "check"
  /\ UNCHANGED <<stopping, reactorVars, poolVars, events, buffer, watching, subscribed, copied, callbackAlive,
                 appeared, loaded, lateCalls>>

\* Reactor::Run, which throws when the reactor is said to be running.
RunReactor ==
  /\ life = "runReactor"
  /\ IF m_is_running
     THEN life' = "threw" /\ UNCHANGED <<m_is_running, loopAt>>
     ELSE life' = "running" /\ m_is_running' = TRUE /\ loopAt' = "loop"
  /\ UNCHANGED <<stopping, rdy_fds, fdCallbacks, sent, input, args, poolVars, monitorVars>>

\* Stop, by any thread: the reactor is asked to end.
Stop ==
  /\ life \in {"built", "runMonitor", "runReactor", "running", "returned", "threw"} /\ ~stopping
  /\ m_is_running' = FALSE /\ stopping' = TRUE
  /\ UNCHANGED <<life, loopAt, rdy_fds, fdCallbacks, sent, input, args, poolVars, monitorVars>>

\* The rest of Stop: the pool is paused.
StopPool ==
  /\ stopping /\ stopping' = FALSE
  /\ poolRunning' = FALSE
  /\ UNCHANGED <<life, reactorVars, poolTasks, working, executed, factoryMap, crashed, monitorVars>>

\* ~Framework: the callback is taken out of the dispatcher, whatever the listener
\* thread is doing.
Unregister ==
  /\ life \in {"built", "returned", "threw"}
  /\ life' = "unregistered"
  /\ subscribed' = FALSE
  /\ UNCHANGED <<stopping, reactorVars, poolVars, monitorRunning, listenAt, events, buffer, watching, copied,
                 callbackAlive, appeared, loaded, lateCalls>>

\* The members go in the reverse of their order: m_pluginCallback, which is in no
\* dispatcher any more, and m_dllLoader.
DestroyCallbackMember ==
  /\ life = "unregistered" /\ life' = "monitorLeft"
  /\ callbackAlive' = FALSE
  /\ UNCHANGED <<stopping, reactorVars, poolVars, monitorRunning, listenAt, events, buffer, watching, subscribed,
                 copied, appeared, loaded, lateCalls>>

\* Mutant: the watch is removed before m_isRunning is cleared.
MutFirstOfDtor == "watch"

\* ~DirMonitor: what comes first, m_isRunning.store(false) or inotify_rm_watch.
FirstOfDtor == "flag"

ClearFlag ==
  /\ life = (IF FirstOfDtor = "flag" THEN "monitorLeft" ELSE "unwatched")
  /\ monitorRunning' = FALSE
  /\ life' = IF FirstOfDtor = "flag" THEN "cleared" ELSE "joining"
  /\ UNCHANGED <<stopping, reactorVars, poolVars, listenAt, events, buffer, watching, subscribed, copied,
                 callbackAlive, appeared, loaded, lateCalls>>

RemoveWatch ==
  /\ life = (IF FirstOfDtor = "flag" THEN "cleared" ELSE "monitorLeft")
  /\ watching' = FALSE /\ events' = Append(events, IN_IGNORED)
  /\ life' = IF FirstOfDtor = "flag" THEN "joining" ELSE "unwatched"
  /\ UNCHANGED <<stopping, reactorVars, poolVars, monitorRunning, listenAt, buffer, subscribed, copied,
                 callbackAlive, appeared, loaded, lateCalls>>

\* The join of the listener thread, if there is one; then ~InputMediator.
Join ==
  /\ life = "joining" /\ listenAt \in {"none", "ended"}
  /\ life' = "gone" /\ m_is_running' = FALSE
  /\ UNCHANGED <<stopping, loopAt, rdy_fds, fdCallbacks, sent, input, args, poolVars, monitorVars>>

-----------------------------------------------------------------------------
(* Reactor.                                                                 *)

\* Mutant: the loop goes on as long as there are descriptors.
MutGoOn == fdCallbacks # {}

\* The loop's condition.
GoOn == m_is_running /\ fdCallbacks # {}

\* One test of it; the descriptors are copied for the listener.
Loop ==
  /\ loopAt = "loop"
  /\ IF GoOn
     THEN loopAt' = "listen" /\ UNCHANGED life
     ELSE loopAt' = "out" /\ life' = "returned"
  /\ UNCHANGED <<stopping, m_is_running, rdy_fds, fdCallbacks, sent, input, args, poolVars, monitorVars>>

\* ListenSelect::Listen: the descriptors with input, in the map's order, which may
\* be any; none after the time-out.
Listen ==
  /\ loopAt = "listen"
  /\ \E order \in SetToSeqs({f \in fdCallbacks : input[f] # << >>}) : rdy_fds' = order
  /\ loopAt' = "invoke"
  /\ UNCHANGED <<life, stopping, m_is_running, fdCallbacks, sent, input, args, poolVars, monitorVars>>

\* select failed: the exception leaves Run, and m_is_running stays as it is.
ListenThrows ==
  /\ loopAt = "listen"
  /\ loopAt' = "out" /\ life' = "threw"
  /\ UNCHANGED <<stopping, m_is_running, rdy_fds, fdCallbacks, sent, input, args, poolVars, monitorVars>>

\* Mutant: the input is looked at and stays in the descriptor.
MutGetKeyArgs(fd) ==
  /\ input[fd] # << >> /\ args' = <<Head(input[fd])>>
  /\ UNCHANGED input

\* GetKeyArgs reads one input.
GetKeyArgs(fd) ==
  /\ input[fd] # << >> /\ args' = <<Head(input[fd])>>
  /\ input' = [input EXCEPT ![fd] = Tail(@)]

\* The callback of a ready descriptor that is still registered begins.  A Stop in
\* between does not end this loop.
InvokeCallback ==
  /\ loopAt = "invoke" /\ rdy_fds # << >> /\ args = << >>
  /\ IF Head(rdy_fds) \in fdCallbacks
     THEN GetKeyArgs(Head(rdy_fds)) /\ UNCHANGED rdy_fds
     ELSE rdy_fds' = Tail(rdy_fds) /\ UNCHANGED <<input, args>>
  /\ UNCHANGED <<life, stopping, m_is_running, loopAt, fdCallbacks, sent, poolVars, monitorVars>>

\* The rest of the callback: a TPTask goes to the pool.
AddTask ==
  /\ args # << >> /\ args' = << >>
  /\ poolTasks' = Append(poolTasks, Head(args))
  /\ rdy_fds' = Tail(rdy_fds)
  /\ UNCHANGED <<life, stopping, m_is_running, loopAt, fdCallbacks, sent, input, poolRunning, working, executed,
                 factoryMap, crashed, monitorVars>>

\* Reactor::Remove and Add, from a callback.
ChangeFds ==
  /\ loopAt = "invoke" /\ rdy_fds # << >>
  /\ \E f \in Fds : fdCallbacks' = IF f \in fdCallbacks THEN fdCallbacks \ {f} ELSE fdCallbacks \union {f}
  /\ UNCHANGED <<life, stopping, m_is_running, loopAt, rdy_fds, sent, input, args, poolVars, monitorVars>>

EndOfRound ==
  /\ loopAt = "invoke" /\ rdy_fds = << >>
  /\ loopAt' = "loop"
  /\ UNCHANGED <<life, stopping, m_is_running, rdy_fds, fdCallbacks, sent, input, args, poolVars, monitorVars>>

\* Something arrives at a descriptor.
Arrive(f, k) ==
  /\ Len(sent) < MaxInputs
  /\ sent' = Append(sent, [fd |-> f, key |-> k])
  /\ input' = [input EXCEPT ![f] = Append(@, Len(sent) + 1)]
  /\ UNCHANGED <<life, stopping, m_is_running, loopAt, rdy_fds, fdCallbacks, args, poolVars, monitorVars>>

\* A worker takes a task, any one, since there are several workers.
TakeTask ==
  /\ poolRunning
  /\ \E i \in DOMAIN poolTasks :
       /\ working' = Append(working, poolTasks[i])
       /\ poolTasks' = RemoveAt(poolTasks, i)
  /\ UNCHANGED <<life, stopping, reactorVars, poolRunning, executed, factoryMap, crashed, monitorVars>>

\* TPTask::Execute: the factory's command, then an AsyncInjection.  A key nobody
\* registered makes Create throw, and nothing catches that.
Execute ==
  /\ \E i \in DOMAIN working :
       IF sent[working[i]].key \in factoryMap
       THEN /\ executed' = Append(executed, working[i])
            /\ working' = RemoveAt(working, i) /\ UNCHANGED crashed
       ELSE crashed' = TRUE /\ UNCHANGED <<working, executed>>
  /\ UNCHANGED <<life, stopping, reactorVars, poolTasks, poolRunning, factoryMap, monitorVars>>

-----------------------------------------------------------------------------
(* DirMonitor::ListeningLoop, DllLoader.                                    *)

\* A file appears in the directory.
Appear ==
  /\ watching
  /\ \E f \in Files \ ToSet(appeared) : appeared' = Append(appeared, f) /\ events' = Append(events, f)
  /\ UNCHANGED <<life, stopping, reactorVars, poolVars, monitorRunning, listenAt, buffer, watching, subscribed, copied,
                 callbackAlive, loaded, lateCalls>>

CheckRunning ==
  /\ listenAt = "check"
  /\ listenAt' = IF monitorRunning THEN "read" ELSE "ended"
  /\ UNCHANGED <<life, stopping, reactorVars, poolVars, monitorRunning, events, buffer, watching, subscribed, copied,
                 callbackAlive, appeared, loaded, lateCalls>>

\* read blocks until there is an event and takes what there is.
ReadEvents ==
  /\ listenAt = "read" /\ events # << >>
  /\ buffer' = events /\ events' = << >> /\ listenAt' = "next"
  /\ UNCHANGED <<life, stopping, reactorVars, poolVars, monitorRunning, watching, subscribed, copied, callbackAlive,
                 appeared, loaded, lateCalls>>

\* The next event of the buffer: one without a name is skipped, another broadcast to
\* a copy of the callbacks.
NextEvent ==
  /\ listenAt = "next"
  /\ IF buffer = << >> THEN listenAt' = "check" /\ UNCHANGED <<buffer, copied>>
     ELSE IF Head(buffer) = IN_IGNORED THEN buffer' = Tail(buffer) /\ UNCHANGED <<listenAt, copied>>
     ELSE listenAt' = "notify" /\ copied' = subscribed /\ UNCHANGED buffer
  /\ UNCHANGED <<life, stopping, reactorVars, poolVars, monitorRunning, events, watching, subscribed, callbackAlive,
                 appeared, loaded, lateCalls>>

\* Notify, LoadCallback, dlopen: the plug-in's constructor adds its key to the
\* factory.  A destroyed callback may be called here; what it does is not said.
Notify ==
  /\ listenAt = "notify"
  /\ IF copied /\ callbackAlive
     THEN /\ loaded' = Append(loaded, Head(buffer)) /\ UNCHANGED lateCalls
          /\ factoryMap' = factoryMap \union {Head(buffer)}
     ELSE /\ lateCalls' = IF copied THEN lateCalls + 1 ELSE lateCalls
          /\ UNCHANGED <<loaded, factoryMap>>
  /\ buffer' = Tail(buffer) /\ copied' = FALSE /\ listenAt' = "next"
  /\ UNCHANGED <<life, stopping, reactorVars, poolTasks, poolRunning, working, executed, crashed, monitorRunning, events,
                 watching, subscribed, callbackAlive, appeared>>

-----------------------------------------------------------------------------
RunStep == Run \/ RunMonitor \/ RunReactor
DtorStep == DestroyCallbackMember \/ ClearFlag \/ RemoveWatch \/ Join
ReactorStep == Loop \/ Listen \/ ListenThrows \/ InvokeCallback \/ AddTask \/ EndOfRound
ListenerStep == CheckRunning \/ ReadEvents \/ NextEvent \/ Notify
PoolStep == TakeTask \/ Execute

FrameworkNext ==
  /\ ~crashed
  /\ \/ RunStep \/ Stop \/ StopPool \/ Unregister \/ DtorStep
     \/ ReactorStep \/ ChangeFds \/ PoolStep \/ Appear \/ ListenerStep
     \/ \E f \in Fds, k \in Keys : Arrive(f, k)

\* The system schedules the threads that can go on.
FrameworkFairness ==
  /\ WF_fwVars(~crashed /\ (RunMonitor \/ RunReactor \/ DtorStep))
  /\ WF_fwVars(~crashed /\ StopPool)
  /\ WF_fwVars(~crashed /\ ReactorStep)
  /\ WF_fwVars(~crashed /\ ListenerStep)
  /\ WF_fwVars(~crashed /\ PoolStep)

FrameworkSpec == FrameworkInit /\ [][FrameworkNext]_fwVars /\ FrameworkFairness

-----------------------------------------------------------------------------
(* Properties.                                                              *)

\* How often n is in s.
Times(n, s) == Cardinality({i \in DOMAIN s : s[i] = n})

\* Every input that was sent is at one place: in its descriptor, in the hands of
\* the reactor's callback, in the pool, with a worker or executed; so none is lost
\* or handled twice from the descriptor to the command, across stops, exceptions
\* and further runs.  Plug-ins are loaded in the order in which their files
\* appeared, none twice, and all of them while the callback is registered; at most
\* the one broadcast that had begun when the framework unregistered it reaches the
\* callback after its destruction.
NothingTwice ==
  /\ \A n \in 1 .. Len(sent) :
       Times(n, input[sent[n].fd]) + Times(n, args) + Times(n, poolTasks) + Times(n, working)
         + Times(n, executed) = 1
  /\ \A f \in Fds, n \in 1 .. Len(sent) : f # sent[n].fd => Times(n, input[f]) = 0
  /\ IsPrefix(loaded, appeared)
  /\ subscribed => appeared = loaded \o (buffer \o events)
  /\ lateCalls <= 1

\* The destructor returns, since removing the watch wakes the listener thread, which
\* finds that it should end; and a reactor that was asked to stop returns from Run,
\* or throws, unless it is told to run again.
ThreadsReturn ==
  /\ (life = "unregistered") ~> (life = "gone" \/ crashed)
  /\ (life = "running" /\ ~m_is_running) ~> (life \in {"returned", "threw"} \/ crashed)

=============================================================================
