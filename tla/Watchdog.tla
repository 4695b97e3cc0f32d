------------------------------ MODULE Watchdog -------------------------------
(***************************************************************************)
(* The watchdog (utils/src/wd_client.c, wd_lib.c, wd.c).  A client process *)
(* calls WDStart, which forks a watchdog process and starts a monitor      *)
(* thread.  The thread and the watchdog shake hands over two named         *)
(* semaphores and then run the same two scheduled tasks: send the peer a   *)
(* heartbeat (SIGUSR1) and check how many beats the peer missed.  Each     *)
(* side revives the other: the client forks a new watchdog, the watchdog   *)
(* kills the client and becomes the client program by execvp.  WDStop ends *)
(* both with SIGUSR2 and the flag stop_flag.                               *)
(*                                                                         *)
(* A step is one statement that another process or thread can observe: a   *)
(* semaphore or signal operation, a task of the schedule, a signal handler.*)
(***************************************************************************)
EXTENDS Integers

CONSTANTS
  Tolerance,     \* missed heartbeats before the peer is revived
  Skew,          \* how many heartbeats one schedule may run ahead of the other
  MaxFaults      \* bound on crashes and failing system calls

ASSUME WatchdogAssumption ==
  /\ Tolerance \in Nat \ {0}
  /\ Skew \in Nat \ {0}
  /\ MaxFaults \in Nat

VARIABLES
  client,    \* the client process: up or dead
  main,      \* its main thread
  thread,    \* its monitor thread, ClientThread
  user_sem,  \* has the monitor thread posted user_sem?
  fresh,     \* does g_wd_pid name the present watchdog process?
  wd,        \* the watchdog process
  exists,    \* which of the named semaphores exist
  sem,       \* their values
  sig,       \* signals pending at each side
  stop_flag, \* 0 run, 1 ask the peer to stop, 2 stop
  counter,   \* heartbeats sent since the last one received
  beat,      \* is TaskSendHeartbeat scheduled?
  checks,    \* how many times TaskCheckCounter is scheduled
  ahead,     \* heartbeats the client sent more than the watchdog
  faults

vars == <<client, main, thread, user_sem, fresh, wd, exists, sem, sig,
          stop_flag, counter, beat, checks, ahead, faults>>
semVars == <<exists, sem>>
ctxVars == <<stop_flag, counter, beat, checks, ahead>>
procVars == <<client, main, thread, user_sem, fresh, wd>>

Sides == {"client", "wd"}
Peer(s) == IF s = "client" THEN "wd" ELSE "client"

\* main: idle, forked, starting, failed, protected, stopping, joining or stopped;
\* thread: none, open, wait, post, sched, reviveWait, revivePost or gone;
\* wd: none, boot, create, post, wait or sched.

Running(s) == IF s = "client" THEN client = "up" ELSE wd # "none"
InSched(s) == IF s = "client" THEN client = "up" /\ thread = "sched"
                              ELSE wd = "sched"

\* The handlers of a process that is running are installed.
Handling(s) == IF s = "client" THEN thread # "none" ELSE wd # "boot"

\* kill(pid, SIGUSR1 or SIGUSR2): nothing happens to a process that is gone.
Kill(s, signal) ==
  sig' = IF Running(s) THEN [sig EXCEPT ![s] = @ \union {signal}] ELSE sig

\* sem_open(O_CREAT) by either side: a name that does not exist gets a new
\* semaphore.
CreateSems ==
  /\ exists' = [s \in Sides |-> TRUE]
  /\ sem' = [s \in Sides |-> IF exists[s] THEN sem[s] ELSE 0]

\* sem_unlink of both names: who has the semaphores open goes on with them.
UnlinkSems == exists' = [s \in Sides |-> FALSE] /\ UNCHANGED sem

SemWait(s) == sem[s] > 0 /\ sem' = [sem EXCEPT ![s] = @ - 1] /\ UNCHANGED exists
SemPost(s) == sem' = [sem EXCEPT ![s] = @ + 1] /\ UNCHANGED exists

\* WDTasksInit: a context of its own and the two tasks.
TasksInit(s) ==
  /\ stop_flag' = [stop_flag EXCEPT ![s] = 0]
  /\ counter' = [counter EXCEPT ![s] = 0]
  /\ beat' = [beat EXCEPT ![s] = TRUE]
  /\ checks' = [checks EXCEPT ![s] = 1]
  /\ ahead' = 0

-----------------------------------------------------------------------------
(* The client's main thread.                                                *)

\* fork and execvp of the watchdog's program.
SpawnWatchdog == wd' = "boot" /\ fresh' = TRUE

\* WDStart: the watchdog is forked; from here on it runs beside WDStart.
WDStart ==
  /\ client = "up" /\ main = "idle"
  /\ main' = "forked"
  /\ user_sem' = FALSE
  /\ SpawnWatchdog
  /\ UNCHANGED <<client, thread, semVars, sig, ctxVars, faults>>

\* WDStart goes on: the context, the handlers, the tasks, and ClientThread.
WDStartThread ==
  /\ client = "up" /\ main = "forked"
  /\ main' = "starting"
  /\ thread' = "open"
  /\ TasksInit("client")
  /\ UNCHANGED <<client, user_sem, fresh, wd, semVars, sig, faults>>

\* A call of WDStart fails, fork or one before it or one after it: then the
\* watchdog is killed, and the semaphores it may have created stay.
WDStartFails ==
  /\ client = "up" /\ main \in {"idle", "forked"}
  /\ faults < MaxFaults
  /\ faults' = faults + 1
  /\ main' = "failed"
  /\ wd' = "none"
  /\ sig' = [sig EXCEPT !["wd"] = {}]
  /\ UNCHANGED <<client, thread, user_sem, fresh, semVars, ctxVars>>

\* sem_wait(&user_sem) returned: WD_SUCCESS.
WDStartReturns ==
  /\ client = "up" /\ main = "starting" /\ user_sem
  /\ main' = "protected"
  /\ UNCHANGED <<client, thread, user_sem, fresh, wd, semVars, sig, ctxVars, faults>>

\* WDStop: kill(g_wd_pid, SIGUSR2).  After a revival g_wd_pid names the old
\* watchdog, a process that is gone.
WDStop ==
  /\ client = "up" /\ main = "protected"
  /\ main' = "stopping"
  /\ IF fresh THEN Kill("wd", "USR2") ELSE UNCHANGED sig
  /\ UNCHANGED <<client, thread, user_sem, fresh, wd, semVars, ctxVars, faults>>

\* WDStop: WDTasksRequestStop.
WDStopRequest ==
  /\ client = "up" /\ main = "stopping"
  /\ main' = "joining"
  /\ stop_flag' = [stop_flag EXCEPT !["client"] = 1]
  /\ UNCHANGED <<client, thread, user_sem, fresh, wd, semVars, sig, counter,
                 beat, checks, ahead, faults>>

\* WDStop: pthread_join returned, the semaphores are unlinked.
WDStopReturns ==
  /\ client = "up" /\ main = "joining" /\ thread = "gone"
  /\ main' = "stopped"
  /\ UnlinkSems
  /\ UNCHANGED <<client, thread, user_sem, fresh, wd, sig, ctxVars, faults>>

-----------------------------------------------------------------------------
(* The client's monitor thread, up to its schedule.                         *)

\* ClientThread opens the semaphores; it does not create them.
ThreadOpen ==
  /\ client = "up" /\ thread = "open"
  /\ IF exists["wd"] /\ exists["client"]
     THEN /\ thread' = "wait"
          /\ UNCHANGED <<user_sem, beat, checks>>
     ELSE /\ thread' = "gone"
          /\ user_sem' = TRUE
          /\ beat' = [beat EXCEPT !["client"] = FALSE]
          /\ checks' = [checks EXCEPT !["client"] = 0]
  /\ UNCHANGED <<client, main, fresh, wd, semVars, sig, stop_flag, counter,
                 ahead, faults>>

\* SetHandshake of the client, first half: sem_wait(client_sem).
ThreadWait ==
  /\ client = "up" /\ thread = "wait"
  /\ SemWait("client")
  /\ thread' = "post"
  /\ UNCHANGED <<client, main, user_sem, fresh, wd, sig, ctxVars, faults>>

\* Mutant: the post that lets WDStart return is forgotten.
MutThreadPost ==
  /\ client = "up" /\ thread = "post"
  /\ SemPost("wd")
  /\ thread' = "sched"
  /\ UNCHANGED <<client, main, user_sem, fresh, wd, sig, ctxVars, faults>>

\* SetHandshake, second half, and the post that lets WDStart return.
ThreadPost ==
  /\ client = "up" /\ thread = "post"
  /\ SemPost("wd")
  /\ thread' = "sched"
  /\ user_sem' = TRUE
  /\ UNCHANGED <<client, main, fresh, wd, sig, ctxVars, faults>>

\* ReviveProcess of the client, the handshake with the new watchdog.
ReviveWait ==
  /\ client = "up" /\ thread = "reviveWait"
  /\ SemWait("client")
  /\ thread' = "revivePost"
  /\ UNCHANGED <<client, main, user_sem, fresh, wd, sig, ctxVars, faults>>

\* TaskCheckCounter after ReviveProcess returned: both tasks are scheduled
\* anew, and the check that did it returns its interval and stays as well.
RevivePost ==
  /\ client = "up" /\ thread = "revivePost"
  /\ SemPost("wd")
  /\ thread' = "sched"
  /\ beat' = [beat EXCEPT !["client"] = TRUE]
  /\ checks' = [checks EXCEPT !["client"] = @ + 2]
  /\ UNCHANGED <<client, main, user_sem, fresh, wd, sig, stop_flag, counter,
                 ahead, faults>>

\* SchedRun returned: no task is left.
ThreadExit ==
  /\ InSched("client")
  /\ ~beat["client"] /\ checks["client"] = 0
  /\ thread' = "gone"
  /\ UNCHANGED <<client, main, user_sem, fresh, wd, semVars, sig, ctxVars, faults>>

-----------------------------------------------------------------------------
(* The watchdog process, up to its schedule, and its end.                   *)

\* main of wd.c: handlers, context, tasks.
WDBoot ==
  /\ wd = "boot"
  /\ wd' = "create"
  /\ TasksInit("wd")
  /\ UNCHANGED <<client, main, thread, user_sem, fresh, semVars, sig, faults>>

WDCreate ==
  /\ wd = "create"
  /\ wd' = "post"
  /\ CreateSems
  /\ UNCHANGED <<client, main, thread, user_sem, fresh, sig, ctxVars, faults>>

WDPost ==
  /\ wd = "post"
  /\ wd' = "wait"
  /\ SemPost("client")
  /\ UNCHANGED <<client, main, thread, user_sem, fresh, sig, ctxVars, faults>>

WDWait ==
  /\ wd = "wait"
  /\ SemWait("wd")
  /\ wd' = "sched"
  /\ UNCHANGED <<client, main, thread, user_sem, fresh, sig, ctxVars, faults>>

WDExit ==
  /\ wd = "sched"
  /\ ~beat["wd"] /\ checks["wd"] = 0
  /\ wd' = "none"
  /\ UnlinkSems
  /\ sig' = [sig EXCEPT !["wd"] = {}]
  /\ UNCHANGED <<client, main, thread, user_sem, fresh, ctxVars, faults>>


-----------------------------------------------------------------------------
(* Signal handlers, run by either process when a signal is delivered.       *)

SigUsr1Handler(s) ==
  /\ Running(s) /\ "USR1" \in sig[s]
  /\ Handling(s)
  /\ sig' = [sig EXCEPT ![s] = @ \ {"USR1"}]
  /\ counter' = [counter EXCEPT ![s] = 0]
  /\ UNCHANGED <<procVars, semVars, stop_flag, beat, checks, ahead, faults>>

\* Mutants: the watchdog keeps SIGUSR2 to itself; it passes it on and goes on.
MutKeepUsr2(s) ==
  /\ Running(s) /\ "USR2" \in sig[s]
  /\ Handling(s)
  /\ stop_flag' = [stop_flag EXCEPT ![s] = 2]
  /\ sig' = [sig EXCEPT ![s] = @ \ {"USR2"}]
  /\ UNCHANGED <<procVars, semVars, counter, beat, checks, ahead, faults>>

MutPassUsr2(s) ==
  /\ Running(s) /\ "USR2" \in sig[s]
  /\ Handling(s)
  /\ stop_flag' = IF s = "client" THEN [stop_flag EXCEPT ![s] = 2] ELSE stop_flag
  /\ sig' = [sig EXCEPT
               ![s] = @ \ {"USR2"},
               !["client"] = IF s = "wd" /\ client = "up" THEN @ \union {"USR2"}
                             ELSE @ \ {"USR2"}]
  /\ UNCHANGED <<procVars, semVars, counter, beat, checks, ahead, faults>>

\* The watchdog passes SIGUSR2 on to the client.
SigUsr2Handler(s) ==
  /\ Running(s) /\ "USR2" \in sig[s]
  /\ Handling(s)
  /\ stop_flag' = [stop_flag EXCEPT ![s] = 2]
  /\ sig' = [sig EXCEPT
               ![s] = @ \ {"USR2"},
               !["client"] = IF s = "wd" /\ client = "up" THEN @ \union {"USR2"}
                             ELSE @ \ {"USR2"}]
  /\ UNCHANGED <<procVars, semVars, counter, beat, checks, ahead, faults>>

\* A signal reaches a process whose handler is not installed yet.  It ends the
\* client: a watchdog that found a permit of an earlier run beats before
\* WDStart has come to its handlers.  It ends the watchdog, or is ignored: by
\* the handler without a context, or by the copy of the client before execvp.
EarlySignal(s) ==
  /\ Running(s) /\ ~Handling(s) /\ sig[s] # {}
  /\ sig' = [sig EXCEPT ![s] = {}]
  /\ \/ s = "client" /\ client' = "dead" /\ UNCHANGED wd
     \/ s = "wd" /\ wd' \in {"none", "boot"} /\ UNCHANGED client
  /\ UNCHANGED <<main, thread, user_sem, fresh, semVars, ctxVars, faults>>

-----------------------------------------------------------------------------
(* The two tasks of wd_lib.c, in the schedule of either process.  Signals   *)
(* are delivered at once, tasks run seconds apart: no task runs while a     *)
(* signal is pending, but a statement of WDStop may come between a signal   *)
(* and its handler.                                                         *)

Quiet == \A s \in Sides : sig[s] = {}

\* A side beats, or is about to: nothing blocks it on the way to its schedule.
Beats(s) ==
  IF s = "wd"
  THEN \/ wd = "sched" /\ beat["wd"]
       \/ wd \in {"boot", "create", "post"}
       \/ wd = "wait" /\ sem["wd"] > 0
  ELSE /\ client = "up"
       /\ \/ thread = "sched" /\ beat["client"]
          \/ thread \in {"open", "post", "revivePost"}
          \/ thread \in {"wait", "reviveWait"} /\ sem["client"] > 0

\* The schedules of two processes that both beat stay together: they run
\* once in the same interval of seconds.
Paced(s) ==
  Beats(Peer(s)) => IF s = "client" THEN ahead < Skew ELSE ahead > -Skew

TaskSendHeartbeat(s) ==
  /\ InSched(s) /\ beat[s] /\ Quiet
  /\ IF stop_flag[s] = 2
     THEN /\ beat' = [beat EXCEPT ![s] = FALSE]
          /\ UNCHANGED <<sig, counter, ahead>>
     ELSE /\ Paced(s)
          /\ counter[s] <= Tolerance   \* the check comes between two beats
          /\ Kill(Peer(s), IF stop_flag[s] = 0 THEN "USR1" ELSE "USR2")
          /\ counter' = [counter EXCEPT ![s] = @ + 1]
          /\ ahead' = IF Beats(Peer(s))
                      THEN IF s = "client" THEN ahead + 1 ELSE ahead - 1
                      ELSE 0
          /\ UNCHANGED beat
  /\ UNCHANGED <<procVars, semVars, stop_flag, checks, faults>>

\* TaskCheckCounter of a side that is to stop: SchedClear.
CheckStops(s) ==
  /\ InSched(s) /\ checks[s] > 0 /\ Quiet
  /\ stop_flag[s] = 2
  /\ beat' = [beat EXCEPT ![s] = FALSE]
  /\ checks' = [checks EXCEPT ![s] = 0]
  /\ UNCHANGED <<procVars, semVars, sig, stop_flag, counter, ahead, faults>>

\* The peer missed too many heartbeats.
Suspects(s) ==
  /\ InSched(s) /\ checks[s] > 0 /\ Quiet
  /\ stop_flag[s] # 2
  /\ counter[s] > Tolerance

\* ReviveProcess of the client: SIGKILL, fork, and the wait for a handshake.
ReviveWatchdog ==
  /\ Suspects("client")
  /\ beat' = [beat EXCEPT !["client"] = FALSE]
  /\ checks' = [checks EXCEPT !["client"] = 0]
  /\ counter' = [counter EXCEPT !["client"] = 0]
  /\ wd' = "boot"
  /\ fresh' = FALSE
  /\ sig' = [sig EXCEPT !["wd"] = {}]
  /\ CreateSems
  /\ thread' = "reviveWait"
  /\ UNCHANGED <<client, main, user_sem, stop_flag, ahead, faults>>

\* fork failed: the tasks are gone, and the watchdog has been killed.
ReviveWatchdogFails ==
  /\ Suspects("client")
  /\ faults < MaxFaults
  /\ faults' = faults + 1
  /\ beat' = [beat EXCEPT !["client"] = FALSE]
  /\ checks' = [checks EXCEPT !["client"] = 0]
  /\ wd' = "none"
  /\ sig' = [sig EXCEPT !["wd"] = {}]
  /\ UNCHANGED <<client, main, thread, user_sem, fresh, semVars, stop_flag,
                 counter, ahead>>

\* ReviveProcess of the watchdog: SIGKILL the client and become it.
ReviveClient ==
  /\ Suspects("wd")
  /\ client' = "up" /\ main' = "idle" /\ thread' = "none"
  /\ wd' = "none"
  /\ sig' = [s \in Sides |-> {}]
  /\ UNCHANGED <<user_sem, fresh, semVars, ctxVars, faults>>

\* execvp failed: the client has been killed, the watchdog has no task left.
ReviveClientFails ==
  /\ Suspects("wd")
  /\ faults < MaxFaults
  /\ faults' = faults + 1
  /\ client' = "dead"
  /\ beat' = [beat EXCEPT !["wd"] = FALSE]
  /\ checks' = [checks EXCEPT !["wd"] = 0]
  /\ sig' = [sig EXCEPT !["client"] = {}]
  /\ UNCHANGED <<main, thread, user_sem, fresh, wd, semVars, stop_flag, counter,
                 ahead>>

-----------------------------------------------------------------------------
(* Crashes.                                                                 *)

CrashClient ==
  /\ client = "up" /\ main \notin {"failed", "stopped"}
  /\ faults < MaxFaults
  /\ faults' = faults + 1
  /\ client' = "dead"
  /\ sig' = [sig EXCEPT !["client"] = {}]
  /\ UNCHANGED <<main, thread, user_sem, fresh, wd, semVars, ctxVars>>

CrashWD ==
  /\ wd # "none"
  /\ faults < MaxFaults
  /\ faults' = faults + 1
  /\ wd' = "none"
  /\ sig' = [sig EXCEPT !["wd"] = {}]
  /\ UNCHANGED <<client, main, thread, user_sem, fresh, semVars, ctxVars>>

-----------------------------------------------------------------------------
MainStep == WDStart \/ WDStartThread \/ WDStartReturns \/ WDStopRequest \/ WDStopReturns

ThreadStep ==
  \/ ThreadOpen \/ ThreadWait \/ ThreadPost \/ ReviveWait \/ RevivePost
  \/ ThreadExit \/ CheckStops("client") \/ ReviveWatchdog

WDStep ==
  \/ WDBoot \/ WDCreate \/ WDPost \/ WDWait \/ WDExit
  \/ CheckStops("wd") \/ ReviveClient

SignalStep(s) == SigUsr1Handler(s) \/ SigUsr2Handler(s)

FaultStep ==
  \/ WDStartFails \/ ReviveWatchdogFails \/ ReviveClientFails
  \/ CrashClient \/ CrashWD

\* The semaphores may be left over from an earlier run that did not stop.
Init ==
  /\ client = "up" /\ main = "idle" /\ thread = "none" /\ wd = "none"
  /\ user_sem = FALSE /\ fresh = FALSE
  /\ exists \in {[s \in Sides |-> leftOver] : leftOver \in BOOLEAN}
  /\ sem = [s \in Sides |-> 0]
  /\ sig = [s \in Sides |-> {}]
  /\ stop_flag = [s \in Sides |-> 0]
  /\ counter = [s \in Sides |-> 0]
  /\ beat = [s \in Sides |-> FALSE]
  /\ checks = [s \in Sides |-> 0]
  /\ ahead = 0 /\ faults = 0

Next ==
  \/ MainStep
  \/ WDStop
  \/ ThreadStep
  \/ WDStep
  \/ \E s \in Sides : SignalStep(s) \/ EarlySignal(s) \/ TaskSendHeartbeat(s)
  \/ FaultStep

Spec == Init /\ [][Next]_vars

\* Every process and thread that can go on does; signals are delivered.
\* Nothing makes the client call WDStop, and nothing crashes by force.
FairSpec ==
  /\ Spec
  /\ WF_vars(MainStep)
  /\ WF_vars(ThreadStep)
  /\ WF_vars(WDStep)
  /\ \A s \in Sides : WF_vars(SignalStep(s)) /\ WF_vars(EarlySignal(s))
                       /\ WF_vars(TaskSendHeartbeat(s))

-----------------------------------------------------------------------------
(* Properties.                                                              *)

\* Nobody healthy is killed: when the schedules keep pace, the watchdog takes
\* the client's place only after the client died, and the client replaces the
\* watchdog only when it is gone, also while WDStop or a revival is under way.
\* (A client that has not installed its handlers may die of a heartbeat.)
\* This needs a Tolerance of at least twice the Skew: either side may send so
\* many beats between two of the other.
HealthyNotKilled ==
  [][/\ main # "idle" /\ main' = "idle" => client = "dead"
     /\ thread = "sched" /\ thread' = "reviveWait" => wd = "none"]_vars

\* wd_client.h:50 says of WDStop: "Stop the watchdog protection mechanism and
\* terminate the watchdog process and monitoring thread."  So the thread that
\* WDStop joins ends.
StopReturns ==
  (client = "up" /\ main \in {"stopping", "joining"})
     ~> (client = "dead" \/ main = "stopped")

\* Once no more faults happen, WDStop returns if its stop_flag = 1 is set while the heartbeat task is
\* still scheduled, in whatever order SIGUSR2, its echo and the flag come,
\* with a stale g_wd_pid, and even when the watchdog has already gone and has
\* to be revived to be stopped once more.
StopReturnsWhileBeating ==
  (client = "up" /\ main = "joining" /\ beat["client"] /\ faults = MaxFaults)
     ~> (main = "stopped")

\* A watchdog that is still monitoring when WDStop returns ends, and leaves
\* the client as it is.
StopEndsWatchdog ==
  (client = "up" /\ main = "stopped" /\ wd = "sched" /\ faults = MaxFaults)
     ~> (client = "up" /\ main = "stopped" /\ wd = "none")

\* A client that dies while the watchdog monitors it, and has not asked it
\* to stop, comes back protected if nothing else fails, whatever values
\* earlier crashes have left in the semaphores.
ClientRevived ==
  (/\ client = "dead" /\ wd = "sched" /\ beat["wd"] /\ faults = MaxFaults
   /\ stop_flag["wd"] = 0 /\ "USR2" \notin sig["wd"])
     ~> (client = "up" /\ main = "protected")

=============================================================================
