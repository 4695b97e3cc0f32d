--------------------------- MODULE WatchdogProofs ----------------------------
(***************************************************************************)
(* The watchdog kills nobody who is healthy, for every tolerance, skew of  *)
(* the two schedules and number of faults.                                 *)
(***************************************************************************)
EXTENDS Watchdog, TLAPS

WatchdogTypes ==
  /\ client \in {"up", "dead"}
  /\ main \in {"idle", "forked", "starting", "failed", "protected", "stopping", "joining", "stopped"}
  /\ thread \in {"none", "open", "wait", "post", "sched", "reviveWait", "revivePost", "gone"}
  /\ user_sem \in BOOLEAN /\ fresh \in BOOLEAN
  /\ wd \in {"none", "boot", "create", "post", "wait", "sched"}
  /\ exists \in [Sides -> BOOLEAN] /\ sem \in [Sides -> Nat]
  /\ sig \in [Sides -> SUBSET {"USR1", "USR2"}]
  /\ stop_flag \in [Sides -> {0, 1, 2}]
  /\ counter \in [Sides -> Nat] /\ beat \in [Sides -> BOOLEAN] /\ checks \in [Sides -> Nat]
  /\ ahead \in Int /\ faults \in Nat

\* The watchdog process on its way to its schedule.
Booting == {"boot", "create", "post", "wait"}

\* The client lives and has begun to monitor.
Guarded == client = "up" /\ thread # "none"

\* No watchdog is left that would not stop.
StopSeen == wd = "none" \/ (wd # "boot" /\ stop_flag["wd"] = 2)

\* A client that has not called WDStart, or whose call failed, has no watchdog; one
\* that has stopped cannot be killed any more.
ProcessesKnown ==
  /\ client = "up" => (thread = "none" <=> main \in {"idle", "forked", "failed"})
  /\ client = "up" /\ main \in {"idle", "failed"} => wd = "none"
  /\ client = "up" /\ main = "idle" => sig["client"] = {} /\ sig["wd"] = {}
  /\ main = "stopped" => client = "up" /\ thread = "gone"

\* The watchdog waits, or is going to wait, for a post that nobody has made; the
\* names that do not exist get new semaphores.
Unposted ==
  \/ wd \in Booting /\ sem["wd"] = 0
  \/ wd \in {"boot", "create"} /\ ~ exists["wd"]

\* A client that has forked its watchdog and not yet installed its handlers: the
\* watchdog may be as far as its schedule, where it can send one heartbeat.
ForkedKnown ==
  client = "up" /\ main = "forked" =>
    /\ sig["wd"] = {} /\ "USR2" \notin sig["client"]
    /\ wd \in {"wait", "sched"} => sem["client"] > 0
    /\ wd \notin {"none", "boot"} =>
         /\ stop_flag["wd"] = 0
         /\ counter["wd"] = 0 \/ (counter["wd"] = 1 /\ "USR1" \in sig["client"])
    /\ wd = "sched" => beat["wd"]

\* The two handshakes, with permits that earlier crashes may have left: a client that
\* waits for a watchdog that has posted finds a permit, a watchdog that waits for
\* a client in its schedule too, and one whose client is not going to post waits
\* for ever or has been told to stop.
HandshakeKnown ==
  /\ exists["wd"] = exists["client"]
  /\ wd \in {"post", "wait", "sched"} /\ main # "stopped" => exists["wd"]
  /\ Guarded /\ thread \notin {"open", "gone"} /\ wd \in Booting => exists["wd"]
  /\ Guarded /\ thread \in {"open", "wait", "reviveWait"} /\ wd \in {"wait", "sched"} => sem["client"] > 0
  /\ Guarded /\ thread = "sched" /\ wd \in Booting => sem["wd"] > 0
  /\ Guarded /\ thread = "gone" => StopSeen \/ Unposted

\* Who is told to stop: a client only by a watchdog that stops, and a watchdog that stops
\* has told its client, whose WDStop may have overwritten the flag since.  Who
\* does not beat in its schedule belongs to a pair that stops.
FlagsKnown ==
  /\ stop_flag["wd"] # 1
  /\ Guarded /\ stop_flag["client"] = 1 => main \in {"joining", "stopped"}
  /\ Guarded /\ main = "joining" => stop_flag["client"] # 0
  /\ Guarded /\ (stop_flag["client"] = 2 \/ "USR2" \in sig["client"]) => StopSeen
  /\ Guarded /\ wd \notin {"none", "boot"} /\ stop_flag["wd"] = 2
       => "USR2" \in sig["client"] \/ stop_flag["client"] = 2 \/ main \in {"joining", "stopped"}
  /\ wd \in {"create", "post", "wait"} => beat["wd"]
  /\ Guarded /\ wd = "sched" /\ ~ beat["wd"] => stop_flag["wd"] = 2
  /\ Guarded /\ thread \in {"open", "wait", "post"} => beat["client"]
  /\ Guarded /\ thread = "sched" /\ ~ beat["client"] => StopSeen

\* The counters: as long as no pending beat resets it and no stop is under way, the
\* counter of a side is at most the skew plus what this side is ahead.  A
\* watchdog that boots sets ahead to 0, so that the client's counter has to be
\* smaller until then; and a client that suspects its watchdog has ahead = 0.
CountersKnown ==
  Guarded =>
    /\ thread \in {"open", "wait", "post", "reviveWait", "revivePost"} => counter["client"] = 0
    /\ thread = "sched" => counter["client"] <= Tolerance \/ ahead = 0
    /\ wd = "boot" => counter["client"] <= ahead /\ ahead <= Skew
    /\ wd \notin {"none", "boot"} =>
         /\ -Skew <= ahead /\ ahead <= Skew
         /\ \/ "USR1" \in sig["wd"] \/ counter["wd"] <= Skew - ahead
            \/ stop_flag["wd"] = 2 \/ "USR2" \in sig["wd"]
         /\ \/ "USR1" \in sig["client"] \/ counter["client"] <= Skew + ahead
            \/ thread = "gone"
            \/ /\ main = "joining"
               /\ stop_flag["client"] = 2 \/ "USR2" \in sig["client"] \/ "USR2" \in sig["wd"]

\* The inductive invariant.
WatchdogInv ==
  WatchdogTypes /\ ProcessesKnown /\ ForkedKnown /\ HandshakeKnown /\ FlagsKnown /\ CountersKnown

\* It holds before the first WDStart, also with semaphores of an earlier run.
LEMMA WatchdogInvInit == Init => WatchdogInv
<1> SUFFICES ASSUME Init PROVE WatchdogInv
  OBVIOUS
<1>1. exists \in [Sides -> BOOLEAN] /\ exists["wd"] = exists["client"]
  BY DEF Init, Sides
<1>2. /\ sem \in [Sides -> Nat] /\ sig \in [Sides -> SUBSET {"USR1", "USR2"}]
      /\ stop_flag \in [Sides -> {0, 1, 2}] /\ counter \in [Sides -> Nat]
      /\ beat \in [Sides -> BOOLEAN] /\ checks \in [Sides -> Nat]
  BY DEF Init
<1>3. WatchdogTypes
  <2>1. user_sem \in BOOLEAN /\ fresh \in BOOLEAN
    BY Zenon DEF Init
  <2> QED
    BY <1>1, <1>2, <2>1 DEF Init, WatchdogTypes
<1> QED
  BY <1>1, <1>3 DEF Init, WatchdogInv, ProcessesKnown, ForkedKnown, HandshakeKnown, FlagsKnown,
                    CountersKnown,
                    Guarded, StopSeen, Unposted, Booting, Sides

-----------------------------------------------------------------------------
(* What the invariant says of two sides that monitor each other.            *)

\* A watchdog that monitors and is not told to stop has a client that beats.
LEMMA ClientBeats ==
  ASSUME WatchdogInv, Guarded, wd = "sched", stop_flag["wd"] # 2
  PROVE  Beats("client")
<1>1. thread \in {"open", "wait", "post", "sched", "reviveWait", "revivePost"}
  BY DEF WatchdogInv, WatchdogTypes, HandshakeKnown, Guarded, StopSeen, Unposted, Booting
<1>2. thread \in {"wait", "reviveWait"} => sem["client"] > 0
  BY DEF WatchdogInv, HandshakeKnown
<1>3. thread = "sched" => beat["client"]
  BY DEF WatchdogInv, FlagsKnown, StopSeen
<1> QED
  BY <1>1, <1>2, <1>3 DEF Beats, Guarded

\* A client that monitors, and is not told to stop, has a watchdog that beats,
\* or WDStop has overwritten what the watchdog told it.
LEMMA WatchdogBeats ==
  ASSUME WatchdogInv, Guarded, thread = "sched", wd # "none", Quiet, stop_flag["client"] # 2
  PROVE  Beats("wd") \/ (main = "joining" /\ wd = "sched" /\ stop_flag["wd"] = 2)
<1>1. CASE wd \in Booting
  BY <1>1 DEF WatchdogInv, HandshakeKnown, Beats, Booting
<1>2. CASE wd = "sched" /\ stop_flag["wd"] # 2
  BY <1>2 DEF WatchdogInv, FlagsKnown, Beats
<1>3. CASE wd = "sched" /\ stop_flag["wd"] = 2
  <2>1. "USR2" \notin sig["client"] /\ main # "stopped"
    BY DEF WatchdogInv, ProcessesKnown, Quiet, Sides
  <2> QED
    BY <1>3, <2>1 DEF WatchdogInv, FlagsKnown
<1> QED
  BY <1>1, <1>2, <1>3 DEF WatchdogInv, WatchdogTypes, Booting

\* The watchdog's counter when it is about to run a task.
LEMMA WatchdogCounts ==
  ASSUME WatchdogInv, Guarded, wd = "sched", Quiet, stop_flag["wd"] # 2
  PROVE  counter["wd"] <= Skew - ahead /\ -Skew <= ahead /\ ahead <= Skew
BY DEF WatchdogInv, CountersKnown, Quiet, Sides

\* The client's counter when it is about to run a task.
LEMMA ClientCounts ==
  ASSUME WatchdogInv, Guarded, thread = "sched", wd # "none", Quiet, stop_flag["client"] # 2
  PROVE  counter["client"] <= Skew + ahead /\ -Skew <= ahead /\ ahead <= Skew
<1>1. CASE wd = "boot"
  BY <1>1, WatchdogAssumption DEF WatchdogInv, WatchdogTypes, CountersKnown, Sides
<1>2. CASE wd # "boot"
  BY <1>2 DEF WatchdogInv, CountersKnown, Quiet, Sides
<1> QED
  BY <1>1, <1>2

-----------------------------------------------------------------------------
(* The client's main thread.                                                *)

\* WDStart and WDStop keep the invariant, also when WDStart fails.
LEMMA MainKeeps ==
  ASSUME WatchdogInv,
         \/ WDStart \/ WDStartThread \/ WDStartFails \/ WDStartReturns
         \/ WDStop \/ WDStopRequest \/ WDStopReturns
  PROVE  WatchdogInv'
<1>0. WatchdogTypes /\ ProcessesKnown /\ ForkedKnown /\ HandshakeKnown /\ FlagsKnown /\ CountersKnown
  BY DEF WatchdogInv
<1>1. CASE WDStart
  <2>1. WatchdogTypes'
    BY <1>0, <1>1 DEF WDStart, WatchdogTypes, SpawnWatchdog, semVars, ctxVars
  <2>2. ProcessesKnown'
    BY <1>0, <1>1 DEF WDStart, ProcessesKnown
  <2>3. HandshakeKnown'
    BY <1>0, <1>1 DEF WDStart, ProcessesKnown, HandshakeKnown, Guarded, SpawnWatchdog, semVars
  <2>4. FlagsKnown'
    BY <1>0, <1>1 DEF WDStart, ProcessesKnown, FlagsKnown, Guarded, SpawnWatchdog, ctxVars
  <2>5. CountersKnown'
    BY <1>0, <1>1 DEF WDStart, ProcessesKnown, CountersKnown, Guarded
  <2>6. ForkedKnown'
    BY <1>0, <1>1 DEF WDStart, ProcessesKnown, ForkedKnown, SpawnWatchdog
  <2> QED
    BY <2>1, <2>2, <2>3, <2>4, <2>5, <2>6 DEF WatchdogInv
<1>2. CASE WDStartFails
  <2>1. WatchdogTypes'
    BY <1>0, <1>2 DEF WDStartFails, WatchdogTypes, Sides, semVars, ctxVars
  <2>2. ProcessesKnown'
    BY <1>0, <1>2 DEF WDStartFails, ProcessesKnown
  <2>3. HandshakeKnown'
    BY <1>0, <1>2 DEF WDStartFails, HandshakeKnown, semVars, ctxVars, Guarded, StopSeen, Unposted, Booting
  <2>4. FlagsKnown'
    BY <1>0, <1>2 DEF WDStartFails, FlagsKnown, ctxVars, Guarded, StopSeen
  <2>5. CountersKnown'
    BY <1>0, <1>2 DEF WDStartFails, CountersKnown, ctxVars, Guarded
  <2>6. ForkedKnown'
    BY <1>0, <1>2 DEF WDStartFails, WatchdogTypes, semVars, ctxVars, ProcessesKnown, ForkedKnown, Sides
  <2> QED
    BY <2>1, <2>2, <2>3, <2>4, <2>5, <2>6 DEF WatchdogInv
<1>3. CASE WDStartReturns
  <2>1. WatchdogTypes'
    BY <1>0, <1>3 DEF WDStartReturns, WatchdogTypes, semVars, ctxVars
  <2>2. ProcessesKnown'
    BY <1>0, <1>3 DEF WDStartReturns, ProcessesKnown
  <2>3. HandshakeKnown'
    BY <1>0, <1>3 DEF WDStartReturns, HandshakeKnown, semVars, ctxVars, Guarded, StopSeen, Unposted, Booting
  <2>4. FlagsKnown'
    BY <1>0, <1>3 DEF WDStartReturns, FlagsKnown, ctxVars, Guarded, StopSeen
  <2>5. CountersKnown'
    BY <1>0, <1>3 DEF WDStartReturns, CountersKnown, ctxVars, Guarded
  <2>6. ForkedKnown'
    BY <1>0, <1>3 DEF WDStartReturns, WatchdogTypes, semVars, ctxVars, ProcessesKnown, ForkedKnown, Sides
  <2> QED
    BY <2>1, <2>2, <2>3, <2>4, <2>5, <2>6 DEF WatchdogInv
<1>4. CASE WDStop
  <2>1. WatchdogTypes'
    BY <1>0, <1>4 DEF WDStop, WatchdogTypes, Kill, semVars, ctxVars
  <2>2. ProcessesKnown'
    BY <1>0, <1>4 DEF WDStop, ProcessesKnown
  <2>3. HandshakeKnown'
    BY <1>0, <1>4 DEF WDStop, HandshakeKnown, semVars, ctxVars, Guarded, StopSeen, Unposted, Booting
  <2>4. FlagsKnown'
    BY <1>0, <1>4 DEF WDStop, WatchdogTypes, FlagsKnown, Sides, Kill, ctxVars, Guarded, StopSeen
  <2>5. CountersKnown'
    BY <1>0, <1>4 DEF WDStop, WatchdogTypes, CountersKnown, Sides, Kill, ctxVars, Guarded
  <2>6. ForkedKnown'
    BY <1>0, <1>4 DEF WDStop, WatchdogTypes, Kill, semVars, ctxVars, ProcessesKnown, Sides, ForkedKnown
  <2> QED
    BY <2>1, <2>2, <2>3, <2>4, <2>5, <2>6 DEF WatchdogInv
<1>5. CASE WDStopRequest
  <2>1. WatchdogTypes'
    BY <1>0, <1>5 DEF WDStopRequest, WatchdogTypes, semVars
  <2>2. ProcessesKnown'
    BY <1>0, <1>5 DEF WDStopRequest, ProcessesKnown
  <2>3. HandshakeKnown'
    BY <1>0, <1>5 DEF WDStopRequest, HandshakeKnown, semVars, Guarded, StopSeen, Unposted, Booting
  <2>4. FlagsKnown'
    BY <1>0, <1>5 DEF WDStopRequest, WatchdogTypes, Sides, FlagsKnown, Guarded, StopSeen
  <2>5. CountersKnown'
    BY <1>0, <1>5 DEF WDStopRequest, CountersKnown, Guarded
  <2>6. ForkedKnown'
    BY <1>0, <1>5 DEF WDStopRequest, WatchdogTypes, semVars, ProcessesKnown, Sides, ForkedKnown
  <2> QED
    BY <2>1, <2>2, <2>3, <2>4, <2>5, <2>6 DEF WatchdogInv
<1>6. CASE WDStopReturns
  <2>1. WatchdogTypes'
    BY <1>0, <1>6 DEF WDStopReturns, WatchdogTypes, UnlinkSems, ctxVars
  <2>2. ProcessesKnown'
    BY <1>0, <1>6 DEF WDStopReturns, ProcessesKnown
  <2>3. HandshakeKnown'
    BY <1>0, <1>6 DEF WDStopReturns, HandshakeKnown, Sides, UnlinkSems, ctxVars, Guarded, StopSeen,
                      Unposted, Booting
  <2>4. FlagsKnown'
    BY <1>0, <1>6 DEF WDStopReturns, FlagsKnown, ctxVars, Guarded, StopSeen
  <2>5. CountersKnown'
    BY <1>0, <1>6 DEF WDStopReturns, CountersKnown, ctxVars, Guarded
  <2>6. ForkedKnown'
    BY <1>0, <1>6 DEF WDStopReturns, WatchdogTypes, UnlinkSems, ctxVars, ProcessesKnown, Sides, ForkedKnown
  <2> QED
    BY <2>1, <2>2, <2>3, <2>4, <2>5, <2>6 DEF WatchdogInv
<1>7. CASE WDStartThread
  <2>0. client = "up" /\ main = "forked" /\ thread = "none" /\ thread' = "open" /\ wd' = wd /\ sig' = sig
    BY <1>0, <1>7 DEF WDStartThread, ProcessesKnown
  <2>1. WatchdogTypes'
    <3>1. /\ stop_flag' \in [Sides -> {0, 1, 2}] /\ counter' \in [Sides -> Nat]
          /\ beat' \in [Sides -> BOOLEAN] /\ checks' \in [Sides -> Nat] /\ ahead' \in Int
      BY <1>0, <1>7 DEF WDStartThread, WatchdogTypes, TasksInit, Sides
    <3> QED
      BY <1>0, <1>7, <3>1 DEF WDStartThread, WatchdogTypes, semVars
  <2>2. ProcessesKnown'
    BY <1>0, <1>7 DEF WDStartThread, ProcessesKnown
  <2>3. HandshakeKnown'
    BY <1>0, <1>7, <2>0 DEF WDStartThread, ForkedKnown, HandshakeKnown, Guarded, semVars
  <2>4. FlagsKnown'
    BY <1>0, <1>7, <2>0 DEF WDStartThread, WatchdogTypes, ForkedKnown, FlagsKnown, Guarded, StopSeen, Sides,
                            TasksInit
  <2>5. CountersKnown'
    BY <1>0, <1>7, <2>0, WatchdogAssumption DEF WDStartThread, WatchdogTypes, ForkedKnown, CountersKnown,
                                                Guarded, Sides, TasksInit
  <2>6. ForkedKnown'
    BY <1>0, <1>7 DEF WDStartThread, ForkedKnown
  <2> QED
    BY <2>1, <2>2, <2>3, <2>4, <2>5, <2>6 DEF WatchdogInv
<1> QED
  BY <1>1, <1>2, <1>3, <1>4, <1>5, <1>6, <1>7

-----------------------------------------------------------------------------
(* The client's monitor thread.                                             *)

\* The monitor thread keeps it: the handshakes, the end of its schedule, and the
\* revival of a watchdog.
LEMMA ThreadKeeps ==
  ASSUME WatchdogInv,
         \/ ThreadOpen \/ ThreadWait \/ ThreadPost \/ ReviveWait
         \/ RevivePost \/ ThreadExit \/ CheckStops("client") \/ ReviveWatchdog
  PROVE  WatchdogInv'
<1>0. WatchdogTypes /\ ProcessesKnown /\ ForkedKnown /\ HandshakeKnown /\ FlagsKnown /\ CountersKnown
  BY DEF WatchdogInv
<1>1. CASE ThreadOpen
  <2>1. WatchdogTypes'
    <3>1. CASE exists["wd"] /\ exists["client"]
      BY <1>0, <1>1, <3>1 DEF ThreadOpen, WatchdogTypes, semVars
    <3>2. CASE ~ (exists["wd"] /\ exists["client"])
      <4>1. beat' = [beat EXCEPT !["client"] = FALSE] /\ checks' = [checks EXCEPT !["client"] = 0]
        BY <1>1, <3>2 DEF ThreadOpen
      <4>2. beat' \in [Sides -> BOOLEAN]
        BY <1>0, <4>1 DEF WatchdogTypes
      <4>3. checks' \in [Sides -> Nat]
        BY <1>0, <4>1 DEF WatchdogTypes
      <4> QED
        BY <1>0, <1>1, <3>2, <4>2, <4>3 DEF ThreadOpen, WatchdogTypes, semVars
    <3> QED
      BY <3>1, <3>2
  <2>2. ProcessesKnown'
    BY <1>0, <1>1 DEF ThreadOpen, ProcessesKnown
  <2>3. HandshakeKnown'
    BY <1>0, <1>1 DEF ThreadOpen, WatchdogTypes, ProcessesKnown, HandshakeKnown, semVars, Guarded,
                      StopSeen, Booting, Unposted
  <2>4. FlagsKnown'
    BY <1>0, <1>1 DEF ThreadOpen, WatchdogTypes, FlagsKnown, Sides, Guarded, StopSeen
  <2>5. CountersKnown'
    BY <1>0, <1>1 DEF ThreadOpen, CountersKnown, Guarded
  <2>6. ForkedKnown'
    BY <1>0, <1>1 DEF ThreadOpen, WatchdogTypes, semVars, ProcessesKnown, Sides, ForkedKnown
  <2> QED
    BY <2>1, <2>2, <2>3, <2>4, <2>5, <2>6 DEF WatchdogInv
<1>2. CASE ThreadWait
  <2>1. WatchdogTypes'
    BY <1>0, <1>2 DEF ThreadWait, WatchdogTypes, Sides, SemWait, ctxVars
  <2>2. ProcessesKnown'
    BY <1>0, <1>2 DEF ThreadWait, ProcessesKnown
  <2>3. HandshakeKnown'
    BY <1>0, <1>2 DEF ThreadWait, HandshakeKnown, SemWait, Guarded, Unposted, Booting
  <2>4. FlagsKnown'
    BY <1>0, <1>2 DEF ThreadWait, FlagsKnown, ctxVars, Guarded, StopSeen
  <2>5. CountersKnown'
    BY <1>0, <1>2 DEF ThreadWait, CountersKnown, ctxVars, Guarded
  <2>6. ForkedKnown'
    BY <1>0, <1>2 DEF ThreadWait, WatchdogTypes, Sides, SemWait, ctxVars, ProcessesKnown, ForkedKnown
  <2> QED
    BY <2>1, <2>2, <2>3, <2>4, <2>5, <2>6 DEF WatchdogInv
<1>3. CASE ThreadPost
  <2>1. WatchdogTypes'
    BY <1>0, <1>3 DEF ThreadPost, WatchdogTypes, Sides, SemPost, ctxVars
  <2>2. ProcessesKnown'
    BY <1>0, <1>3 DEF ThreadPost, ProcessesKnown
  <2>3. HandshakeKnown'
    BY <1>0, <1>3 DEF ThreadPost, WatchdogTypes, HandshakeKnown, Sides, SemPost, Guarded, Unposted, Booting
  <2>4. FlagsKnown'
    BY <1>0, <1>3 DEF ThreadPost, FlagsKnown, ctxVars, Guarded, StopSeen
  <2>5. CountersKnown'
    BY <1>0, <1>3, WatchdogAssumption DEF ThreadPost, CountersKnown, ctxVars, Guarded
  <2>6. ForkedKnown'
    BY <1>0, <1>3 DEF ThreadPost, WatchdogTypes, Sides, SemPost, ctxVars, ProcessesKnown, ForkedKnown
  <2> QED
    BY <2>1, <2>2, <2>3, <2>4, <2>5, <2>6 DEF WatchdogInv
<1>4. CASE ReviveWait
  <2>1. WatchdogTypes'
    BY <1>0, <1>4 DEF ReviveWait, WatchdogTypes, Sides, SemWait, ctxVars
  <2>2. ProcessesKnown'
    BY <1>0, <1>4 DEF ReviveWait, ProcessesKnown
  <2>3. HandshakeKnown'
    BY <1>0, <1>4 DEF ReviveWait, HandshakeKnown, SemWait, Guarded, Unposted, Booting
  <2>4. FlagsKnown'
    BY <1>0, <1>4 DEF ReviveWait, FlagsKnown, ctxVars, Guarded, StopSeen
  <2>5. CountersKnown'
    BY <1>0, <1>4 DEF ReviveWait, CountersKnown, ctxVars, Guarded
  <2>6. ForkedKnown'
    BY <1>0, <1>4 DEF ReviveWait, WatchdogTypes, Sides, SemWait, ctxVars, ProcessesKnown, ForkedKnown
  <2> QED
    BY <2>1, <2>2, <2>3, <2>4, <2>5, <2>6 DEF WatchdogInv
<1>5. CASE RevivePost
  <2>1. WatchdogTypes'
    BY <1>0, <1>5 DEF RevivePost, WatchdogTypes, Sides, SemPost
  <2>2. ProcessesKnown'
    BY <1>0, <1>5 DEF RevivePost, ProcessesKnown
  <2>3. HandshakeKnown'
    BY <1>0, <1>5 DEF RevivePost, WatchdogTypes, HandshakeKnown, Sides, SemPost, Guarded, Unposted, Booting
  <2>4. FlagsKnown'
    BY <1>0, <1>5 DEF RevivePost, WatchdogTypes, FlagsKnown, Sides, Guarded, StopSeen
  <2>5. CountersKnown'
    BY <1>0, <1>5, WatchdogAssumption DEF RevivePost, CountersKnown, Guarded
  <2>6. ForkedKnown'
    BY <1>0, <1>5 DEF RevivePost, WatchdogTypes, Sides, SemPost, ProcessesKnown, ForkedKnown
  <2> QED
    BY <2>1, <2>2, <2>3, <2>4, <2>5, <2>6 DEF WatchdogInv
<1>6. CASE ThreadExit
  <2>1. WatchdogTypes'
    BY <1>0, <1>6 DEF ThreadExit, WatchdogTypes, semVars, ctxVars
  <2>2. ProcessesKnown'
    BY <1>0, <1>6 DEF ThreadExit, ProcessesKnown, InSched
  <2>3. HandshakeKnown'
    BY <1>0, <1>6 DEF ThreadExit, HandshakeKnown, FlagsKnown, InSched, semVars, ctxVars, Guarded,
                      StopSeen, Unposted, Booting
  <2>4. FlagsKnown'
    BY <1>0, <1>6 DEF ThreadExit, FlagsKnown, InSched, ctxVars, Guarded, StopSeen
  <2>5. CountersKnown'
    BY <1>0, <1>6 DEF ThreadExit, CountersKnown, InSched, ctxVars, Guarded
  <2>6. ForkedKnown'
    BY <1>0, <1>6 DEF ThreadExit, WatchdogTypes, semVars, ctxVars, ProcessesKnown, InSched, ForkedKnown,
                      Sides
  <2> QED
    BY <2>1, <2>2, <2>3, <2>4, <2>5, <2>6 DEF WatchdogInv
<1>7. CASE CheckStops("client")
  <2>1. WatchdogTypes'
    <3>1. beat' \in [Sides -> BOOLEAN]
      BY <1>0, <1>7 DEF CheckStops, WatchdogTypes, Sides
    <3>2. checks' \in [Sides -> Nat]
      BY <1>0, <1>7 DEF CheckStops, WatchdogTypes, Sides
    <3> QED
      BY <1>0, <1>7, <3>1, <3>2 DEF CheckStops, WatchdogTypes, procVars, semVars
  <2>2. ProcessesKnown'
    BY <1>0, <1>7 DEF CheckStops, ProcessesKnown, procVars
  <2>3. HandshakeKnown'
    BY <1>0, <1>7 DEF CheckStops, HandshakeKnown, semVars, procVars, Guarded, StopSeen, Unposted, Booting
  <2>4. FlagsKnown'
    BY <1>0, <1>7 DEF CheckStops, FlagsKnown, InSched, procVars, Guarded, StopSeen
  <2>5. CountersKnown'
    BY <1>0, <1>7 DEF CheckStops, CountersKnown, procVars, Guarded
  <2>6. ForkedKnown'
    BY <1>0, <1>7 DEF CheckStops, WatchdogTypes, Sides, procVars, semVars, ProcessesKnown, InSched,
                      ForkedKnown
  <2> QED
    BY <2>1, <2>2, <2>3, <2>4, <2>5, <2>6 DEF WatchdogInv
<1>8. CASE ReviveWatchdog
  <2>1. WatchdogTypes'
    BY <1>0, <1>8 DEF ReviveWatchdog, WatchdogTypes, CreateSems
  <2>2. ProcessesKnown'
    BY <1>0, <1>8 DEF ReviveWatchdog, ProcessesKnown, InSched, Suspects
  <2>3. HandshakeKnown'
    BY <1>0, <1>8 DEF ReviveWatchdog, HandshakeKnown, Sides, CreateSems, Unposted, Booting
  <2>4. FlagsKnown'
    BY <1>0, <1>8 DEF ReviveWatchdog, FlagsKnown, Sides, InSched, Quiet, Suspects, Guarded
  <2>5. CountersKnown'
    BY <1>0, <1>8, WatchdogAssumption DEF ReviveWatchdog, WatchdogTypes, CountersKnown, Sides, InSched,
                                          Suspects, Guarded
  <2>6. ForkedKnown'
    BY <1>0, <1>8 DEF ReviveWatchdog, WatchdogTypes, CreateSems, ProcessesKnown, InSched, Suspects, Sides,
                      Quiet, ForkedKnown
  <2> QED
    BY <2>1, <2>2, <2>3, <2>4, <2>5, <2>6 DEF WatchdogInv
<1> QED
  BY <1>1, <1>2, <1>3, <1>4, <1>5, <1>6, <1>7, <1>8

-----------------------------------------------------------------------------
(* The watchdog process.                                                    *)

\* The watchdog process keeps it, also when a signal reaches it before its handler.
LEMMA ProcessKeeps ==
  ASSUME WatchdogInv,
         \/ WDBoot \/ WDCreate \/ WDPost \/ WDWait
         \/ WDExit \/ CheckStops("wd") \/ ReviveClient
         \/ EarlySignal("wd") \/ EarlySignal("client")
  PROVE  WatchdogInv'
<1>0. WatchdogTypes /\ ProcessesKnown /\ ForkedKnown /\ HandshakeKnown /\ FlagsKnown /\ CountersKnown
  BY DEF WatchdogInv
<1>1. CASE WDBoot
  <2>1. WatchdogTypes'
    BY <1>0, <1>1 DEF WDBoot, WatchdogTypes, Sides, TasksInit, semVars
  <2>2. ProcessesKnown'
    BY <1>0, <1>1 DEF WDBoot, ProcessesKnown
  <2>3. HandshakeKnown'
    BY <1>0, <1>1 DEF WDBoot, HandshakeKnown, semVars, Guarded, StopSeen, Booting, Unposted
  <2>4. FlagsKnown'
    BY <1>0, <1>1 DEF WDBoot, WatchdogTypes, FlagsKnown, Sides, TasksInit, Guarded, StopSeen
  <2>5. CountersKnown'
    BY <1>0, <1>1, WatchdogAssumption DEF WDBoot, WatchdogTypes, CountersKnown, Sides, TasksInit,
                                          Guarded
  <2>6. ForkedKnown'
    BY <1>0, <1>1 DEF WDBoot, WatchdogTypes, Sides, TasksInit, semVars, ProcessesKnown, ForkedKnown
  <2> QED
    BY <2>1, <2>2, <2>3, <2>4, <2>5, <2>6 DEF WatchdogInv
<1>2. CASE WDCreate
  <2>1. WatchdogTypes'
    BY <1>0, <1>2 DEF WDCreate, WatchdogTypes, CreateSems, ctxVars
  <2>2. ProcessesKnown'
    BY <1>0, <1>2 DEF WDCreate, ProcessesKnown
  <2>3. HandshakeKnown'
    BY <1>0, <1>2 DEF WDCreate, HandshakeKnown, Sides, CreateSems, ctxVars, Guarded, StopSeen, Booting,
                      Unposted
  <2>4. FlagsKnown'
    BY <1>0, <1>2 DEF WDCreate, FlagsKnown, ctxVars, Guarded, StopSeen
  <2>5. CountersKnown'
    BY <1>0, <1>2 DEF WDCreate, CountersKnown, ctxVars, Guarded
  <2>6. ForkedKnown'
    BY <1>0, <1>2 DEF WDCreate, WatchdogTypes, CreateSems, ctxVars, ProcessesKnown, Sides, ForkedKnown
  <2> QED
    BY <2>1, <2>2, <2>3, <2>4, <2>5, <2>6 DEF WatchdogInv
<1>3. CASE WDPost
  <2>1. WatchdogTypes'
    BY <1>0, <1>3 DEF WDPost, WatchdogTypes, Sides, SemPost, ctxVars
  <2>2. ProcessesKnown'
    BY <1>0, <1>3 DEF WDPost, ProcessesKnown
  <2>3. HandshakeKnown'
    BY <1>0, <1>3 DEF WDPost, WatchdogTypes, HandshakeKnown, Sides, SemPost, ctxVars, Guarded, StopSeen,
                      Booting, Unposted
  <2>4. FlagsKnown'
    BY <1>0, <1>3 DEF WDPost, FlagsKnown, ctxVars, Guarded, StopSeen
  <2>5. CountersKnown'
    BY <1>0, <1>3 DEF WDPost, CountersKnown, ctxVars, Guarded
  <2>6. ForkedKnown'
    BY <1>0, <1>3 DEF WDPost, WatchdogTypes, Sides, SemPost, ctxVars, ProcessesKnown, ForkedKnown
  <2> QED
    BY <2>1, <2>2, <2>3, <2>4, <2>5, <2>6 DEF WatchdogInv
<1>4. CASE WDWait
  <2>1. WatchdogTypes'
    BY <1>0, <1>4 DEF WDWait, WatchdogTypes, Sides, SemWait, ctxVars
  <2>2. ProcessesKnown'
    BY <1>0, <1>4 DEF WDWait, ProcessesKnown
  <2>3. HandshakeKnown'
    BY <1>0, <1>4 DEF WDWait, HandshakeKnown, SemWait, ctxVars, Guarded, StopSeen, Booting, Unposted
  <2>4. FlagsKnown'
    BY <1>0, <1>4 DEF WDWait, FlagsKnown, ctxVars, Guarded, StopSeen
  <2>5. CountersKnown'
    BY <1>0, <1>4 DEF WDWait, CountersKnown, ctxVars, Guarded
  <2>6. ForkedKnown'
    BY <1>0, <1>4 DEF WDWait, WatchdogTypes, Sides, SemWait, ctxVars, FlagsKnown, ForkedKnown
  <2> QED
    BY <2>1, <2>2, <2>3, <2>4, <2>5, <2>6 DEF WatchdogInv
<1>5. CASE WDExit
  <2>1. WatchdogTypes'
    BY <1>0, <1>5 DEF WDExit, WatchdogTypes, UnlinkSems, ctxVars
  <2>2. ProcessesKnown'
    BY <1>0, <1>5 DEF WDExit, ProcessesKnown
  <2>3. HandshakeKnown'
    BY <1>0, <1>5 DEF WDExit, HandshakeKnown, Sides, UnlinkSems, StopSeen, Booting, Unposted
  <2>4. FlagsKnown'
    BY <1>0, <1>5 DEF WDExit, FlagsKnown, ctxVars, Guarded, StopSeen
  <2>5. CountersKnown'
    BY <1>0, <1>5 DEF WDExit, CountersKnown, ctxVars, Guarded
  <2>6. ForkedKnown'
    BY <1>0, <1>5 DEF WDExit, WatchdogTypes, UnlinkSems, ctxVars, ProcessesKnown, Sides, ForkedKnown
  <2> QED
    BY <2>1, <2>2, <2>3, <2>4, <2>5, <2>6 DEF WatchdogInv
<1>6. CASE CheckStops("wd")
  <2>1. WatchdogTypes'
    <3>1. beat' \in [Sides -> BOOLEAN]
      BY <1>0, <1>6 DEF CheckStops, WatchdogTypes, Sides
    <3>2. checks' \in [Sides -> Nat]
      BY <1>0, <1>6 DEF CheckStops, WatchdogTypes, Sides
    <3> QED
      BY <1>0, <1>6, <3>1, <3>2 DEF CheckStops, WatchdogTypes, procVars, semVars
  <2>2. ProcessesKnown'
    BY <1>0, <1>6 DEF CheckStops, ProcessesKnown, procVars
  <2>3. HandshakeKnown'
    BY <1>0, <1>6 DEF CheckStops, HandshakeKnown, semVars, procVars, Guarded, StopSeen, Unposted, Booting
  <2>4. FlagsKnown'
    BY <1>0, <1>6 DEF CheckStops, FlagsKnown, InSched, procVars, Guarded, StopSeen
  <2>5. CountersKnown'
    BY <1>0, <1>6 DEF CheckStops, CountersKnown, procVars, Guarded
  <2>6. ForkedKnown'
    BY <1>0, <1>6 DEF CheckStops, WatchdogTypes, Sides, procVars, semVars, ProcessesKnown, InSched,
                      ForkedKnown
  <2> QED
    BY <2>1, <2>2, <2>3, <2>4, <2>5, <2>6 DEF WatchdogInv
<1>7. CASE ReviveClient
  <2>1. WatchdogTypes'
    BY <1>0, <1>7 DEF ReviveClient, WatchdogTypes, semVars, ctxVars
  <2>2. ProcessesKnown'
    BY <1>0, <1>7 DEF ReviveClient, ProcessesKnown, Sides
  <2>3. HandshakeKnown'
    BY <1>0, <1>7 DEF ReviveClient, ProcessesKnown, HandshakeKnown, InSched, Suspects, semVars, Guarded,
                      StopSeen, Unposted, Booting
  <2>4. FlagsKnown'
    BY <1>0, <1>7 DEF ReviveClient, FlagsKnown, ctxVars, Guarded
  <2>5. CountersKnown'
    BY <1>0, <1>7 DEF ReviveClient, CountersKnown
  <2>6. ForkedKnown'
    BY <1>0, <1>7 DEF ReviveClient, WatchdogTypes, semVars, ctxVars, ProcessesKnown, Sides, InSched,
                      Suspects, ForkedKnown
  <2> QED
    BY <2>1, <2>2, <2>3, <2>4, <2>5, <2>6 DEF WatchdogInv
<1>8. CASE EarlySignal("wd")
  <2>1. WatchdogTypes'
    <3>1. sig' \in [Sides -> SUBSET {"USR1", "USR2"}]
      BY <1>0, <1>8 DEF EarlySignal, Running, Handling, WatchdogTypes, Sides
    <3> QED
      BY <1>0, <1>8, <3>1 DEF EarlySignal, Running, Handling, WatchdogTypes, semVars, ctxVars
  <2>2. ProcessesKnown'
    BY <1>0, <1>8 DEF EarlySignal, Running, Handling, ProcessesKnown
  <2>3. HandshakeKnown'
    BY <1>0, <1>8 DEF EarlySignal, Running, Handling, HandshakeKnown, semVars, Guarded, StopSeen, Booting,
                      Unposted
  <2>4. FlagsKnown'
    BY <1>0, <1>8 DEF EarlySignal, Running, Handling, FlagsKnown, ctxVars, Guarded, StopSeen
  <2>5. CountersKnown'
    BY <1>0, <1>8 DEF EarlySignal, Running, Handling, CountersKnown, ctxVars, Guarded
  <2>6. ForkedKnown'
    BY <1>0, <1>8 DEF EarlySignal, Running, Handling, WatchdogTypes, Sides, semVars, ctxVars,
                      ProcessesKnown, ForkedKnown
  <2> QED
    BY <2>1, <2>2, <2>3, <2>4, <2>5, <2>6 DEF WatchdogInv
<1>9. CASE EarlySignal("client")
  <2>1. WatchdogTypes'
    <3>1. sig' \in [Sides -> SUBSET {"USR1", "USR2"}]
      BY <1>0, <1>9 DEF EarlySignal, Running, Handling, WatchdogTypes, Sides
    <3> QED
      BY <1>0, <1>9, <3>1 DEF EarlySignal, Running, Handling, WatchdogTypes, semVars, ctxVars
  <2>2. ProcessesKnown'
    BY <1>0, <1>9 DEF EarlySignal, Running, Handling, ProcessesKnown
  <2>3. HandshakeKnown'
    BY <1>0, <1>9 DEF EarlySignal, Running, Handling, HandshakeKnown, semVars, Guarded, StopSeen, Booting,
                      Unposted
  <2>4. FlagsKnown'
    BY <1>0, <1>9 DEF EarlySignal, Running, Handling, FlagsKnown, ctxVars, Guarded, StopSeen
  <2>5. CountersKnown'
    BY <1>0, <1>9 DEF EarlySignal, Running, Handling, CountersKnown, ctxVars, Guarded
  <2>6. ForkedKnown'
    BY <1>0, <1>9 DEF EarlySignal, Running, Handling, WatchdogTypes, Sides, semVars, ctxVars,
                      ProcessesKnown, ForkedKnown
  <2> QED
    BY <2>1, <2>2, <2>3, <2>4, <2>5, <2>6 DEF WatchdogInv
<1> QED
  BY <1>1, <1>2, <1>3, <1>4, <1>5, <1>6, <1>7, <1>8, <1>9

-----------------------------------------------------------------------------
(* Signals, beats and faults.                                               *)

\* The signal handlers of both sides keep it.
LEMMA SignalsKeep ==
  ASSUME WatchdogInv,
         \/ SigUsr1Handler("client") \/ SigUsr1Handler("wd")
         \/ SigUsr2Handler("client") \/ SigUsr2Handler("wd")
  PROVE  WatchdogInv'
<1>0. WatchdogTypes /\ ProcessesKnown /\ ForkedKnown /\ HandshakeKnown /\ FlagsKnown /\ CountersKnown
  BY DEF WatchdogInv
<1>1. CASE SigUsr1Handler("client")
  <2>1. WatchdogTypes'
    <3>1. sig' \in [Sides -> SUBSET {"USR1", "USR2"}]
      BY <1>0, <1>1 DEF SigUsr1Handler, Running, Handling, WatchdogTypes, Sides
    <3>2. counter' \in [Sides -> Nat]
      BY <1>0, <1>1 DEF SigUsr1Handler, Running, Handling, WatchdogTypes, Sides
    <3> QED
      BY <1>0, <1>1, <3>1, <3>2 DEF SigUsr1Handler, Running, Handling, WatchdogTypes, procVars, semVars
  <2>2. ProcessesKnown'
    BY <1>0, <1>1 DEF SigUsr1Handler, Running, Handling, ProcessesKnown, procVars
  <2>3. HandshakeKnown'
    BY <1>0, <1>1 DEF SigUsr1Handler, Running, Handling, HandshakeKnown, semVars, procVars, Guarded,
                      StopSeen, Unposted, Booting
  <2>4. FlagsKnown'
    BY <1>0, <1>1 DEF SigUsr1Handler, Running, Handling, FlagsKnown, procVars, Guarded, StopSeen
  <2>5. CountersKnown'
    BY <1>0, <1>1, WatchdogAssumption DEF SigUsr1Handler, Running, Handling, WatchdogTypes, CountersKnown,
                                          procVars,
                                          Guarded
  <2>6. ForkedKnown'
    BY <1>0, <1>1 DEF SigUsr1Handler, Running, Handling, WatchdogTypes, Sides, procVars, semVars,
                      ProcessesKnown, ForkedKnown
  <2> QED
    BY <2>1, <2>2, <2>3, <2>4, <2>5, <2>6 DEF WatchdogInv
<1>2. CASE SigUsr1Handler("wd")
  <2>1. WatchdogTypes'
    <3>1. sig' \in [Sides -> SUBSET {"USR1", "USR2"}]
      BY <1>0, <1>2 DEF SigUsr1Handler, Running, Handling, WatchdogTypes, Sides
    <3>2. counter' \in [Sides -> Nat]
      BY <1>0, <1>2 DEF SigUsr1Handler, Running, Handling, WatchdogTypes, Sides
    <3> QED
      BY <1>0, <1>2, <3>1, <3>2 DEF SigUsr1Handler, Running, Handling, WatchdogTypes, procVars, semVars
  <2>2. ProcessesKnown'
    BY <1>0, <1>2 DEF SigUsr1Handler, Running, Handling, ProcessesKnown, procVars
  <2>3. HandshakeKnown'
    BY <1>0, <1>2 DEF SigUsr1Handler, Running, Handling, HandshakeKnown, semVars, procVars, Guarded,
                      StopSeen, Unposted, Booting
  <2>4. FlagsKnown'
    BY <1>0, <1>2 DEF SigUsr1Handler, Running, Handling, FlagsKnown, procVars, Guarded, StopSeen
  <2>5. CountersKnown'
    BY <1>0, <1>2, WatchdogAssumption DEF SigUsr1Handler, Running, Handling, WatchdogTypes, CountersKnown,
                                          procVars,
                                          Guarded
  <2>6. ForkedKnown'
    BY <1>0, <1>2 DEF SigUsr1Handler, Running, Handling, WatchdogTypes, Sides, procVars, semVars,
                      ProcessesKnown, ForkedKnown
  <2> QED
    BY <2>1, <2>2, <2>3, <2>4, <2>5, <2>6 DEF WatchdogInv
<1>3. CASE SigUsr2Handler("client")
  <2>1. WatchdogTypes'
    <3>1. sig' \in [Sides -> SUBSET {"USR1", "USR2"}]
      BY <1>0, <1>3 DEF SigUsr2Handler, Running, Handling, WatchdogTypes, Sides
    <3>2. stop_flag' \in [Sides -> {0, 1, 2}]
      BY <1>0, <1>3 DEF SigUsr2Handler, Running, Handling, WatchdogTypes, Sides
    <3> QED
      BY <1>0, <1>3, <3>1, <3>2 DEF SigUsr2Handler, Running, Handling, WatchdogTypes, procVars, semVars
  <2>2. ProcessesKnown'
    BY <1>0, <1>3 DEF SigUsr2Handler, Running, Handling, ProcessesKnown, procVars
  <2>3. HandshakeKnown'
    BY <1>0, <1>3 DEF SigUsr2Handler, Running, Handling, HandshakeKnown, semVars, procVars, Guarded,
                      StopSeen, Unposted, Booting
  <2>4. FlagsKnown'
    BY <1>0, <1>3 DEF SigUsr2Handler, Running, Handling, WatchdogTypes, FlagsKnown, Sides, procVars,
                      Guarded, StopSeen
  <2>5. CountersKnown'
    BY <1>0, <1>3 DEF SigUsr2Handler, Running, Handling, WatchdogTypes, CountersKnown, Sides, procVars,
                      Guarded
  <2>6. ForkedKnown'
    BY <1>0, <1>3 DEF SigUsr2Handler, Running, Handling, WatchdogTypes, Sides, procVars, semVars,
                      ProcessesKnown, ForkedKnown
  <2> QED
    BY <2>1, <2>2, <2>3, <2>4, <2>5, <2>6 DEF WatchdogInv
<1>4. CASE SigUsr2Handler("wd")
  <2>1. WatchdogTypes'
    <3>1. sig' \in [Sides -> SUBSET {"USR1", "USR2"}]
      BY <1>0, <1>4 DEF SigUsr2Handler, Running, Handling, WatchdogTypes, Sides
    <3>2. stop_flag' \in [Sides -> {0, 1, 2}]
      BY <1>0, <1>4 DEF SigUsr2Handler, Running, Handling, WatchdogTypes, Sides
    <3> QED
      BY <1>0, <1>4, <3>1, <3>2 DEF SigUsr2Handler, Running, Handling, WatchdogTypes, procVars, semVars
  <2>2. ProcessesKnown'
    BY <1>0, <1>4 DEF SigUsr2Handler, Running, Handling, ProcessesKnown, procVars
  <2>3. HandshakeKnown'
    BY <1>0, <1>4 DEF SigUsr2Handler, Running, Handling, HandshakeKnown, semVars, procVars, Guarded,
                      StopSeen, Unposted, Booting
  <2>4. FlagsKnown'
    BY <1>0, <1>4 DEF SigUsr2Handler, Running, Handling, WatchdogTypes, FlagsKnown, Sides, procVars,
                      Guarded, StopSeen
  <2>5. CountersKnown'
    BY <1>0, <1>4 DEF SigUsr2Handler, Running, Handling, WatchdogTypes, CountersKnown, Sides, procVars,
                      Guarded
  <2>6. ForkedKnown'
    BY <1>0, <1>4 DEF SigUsr2Handler, Running, Handling, WatchdogTypes, Sides, procVars, semVars,
                      ProcessesKnown, Running, ForkedKnown
  <2> QED
    BY <2>1, <2>2, <2>3, <2>4, <2>5, <2>6 DEF WatchdogInv
<1> QED
  BY <1>1, <1>2, <1>3, <1>4

\* A heartbeat keeps it: it moves one counter and ahead together, and its signal is
\* what resets the other counter.
LEMMA BeatsKeep ==
  ASSUME Tolerance >= 2 * Skew, WatchdogInv, TaskSendHeartbeat("client") \/ TaskSendHeartbeat("wd")
  PROVE  WatchdogInv'
<1>0. WatchdogTypes /\ ProcessesKnown /\ ForkedKnown /\ HandshakeKnown /\ FlagsKnown /\ CountersKnown
  BY DEF WatchdogInv
<1>1. CASE TaskSendHeartbeat("client")
  <2>1. WatchdogTypes'
    <3>1. sig' \in [Sides -> SUBSET {"USR1", "USR2"}]
      BY <1>0, <1>1 DEF TaskSendHeartbeat, WatchdogTypes, Kill, Peer, Sides
    <3>2. beat' \in [Sides -> BOOLEAN]
      BY <1>0, <1>1 DEF TaskSendHeartbeat, WatchdogTypes
    <3>3. counter' \in [Sides -> Nat]
      BY <1>0, <1>1 DEF TaskSendHeartbeat, WatchdogTypes, Sides
    <3>4. ahead' \in Int
      BY <1>0, <1>1 DEF TaskSendHeartbeat, WatchdogTypes
    <3> QED
      BY <1>0, <1>1, <3>1, <3>2, <3>3, <3>4 DEF TaskSendHeartbeat, WatchdogTypes, procVars, semVars
  <2>2. ProcessesKnown'
    BY <1>0, <1>1 DEF TaskSendHeartbeat, ProcessesKnown, InSched, procVars
  <2>3. HandshakeKnown'
    BY <1>0, <1>1 DEF TaskSendHeartbeat, HandshakeKnown, semVars, procVars, Guarded, StopSeen, Unposted,
                      Booting
  <2>4. FlagsKnown'
    BY <1>0, <1>1 DEF TaskSendHeartbeat, WatchdogTypes, FlagsKnown, Sides, Peer, InSched, Kill,
                      procVars, Guarded, StopSeen
  <2>5. CountersKnown'
    <3>1. client = "up" /\ thread = "sched" /\ Guarded /\ Quiet
      BY <1>1 DEF TaskSendHeartbeat, InSched, Guarded
    <3>2. CASE stop_flag["client"] = 2
      BY <1>0, <1>1, <3>2 DEF TaskSendHeartbeat, CountersKnown, Guarded, procVars
    <3>3. CASE stop_flag["client"] # 2 /\ Beats("wd")
      <4>1. /\ counter' = [counter EXCEPT !["client"] = @ + 1] /\ ahead' = ahead + 1 /\ ahead < Skew
            /\ sig' = [sig EXCEPT !["wd"] = @ \union {IF stop_flag["client"] = 0 THEN "USR1" ELSE "USR2"}]
            /\ UNCHANGED <<procVars, stop_flag>>
        BY <1>1, <3>3 DEF TaskSendHeartbeat, Paced, Peer, Kill, Running, Beats
      <4>2. wd # "none" /\ counter["client"] <= Skew + ahead /\ -Skew <= ahead
        BY <1>0, <3>1, <3>3, ClientCounts DEF Beats, WatchdogInv
      <4>3. counter'["client"] = counter["client"] + 1 /\ counter'["wd"] = counter["wd"]
        BY <1>0, <4>1 DEF WatchdogTypes, Sides
      <4>4. "USR1" \in sig'["wd"] \/ "USR2" \in sig'["wd"]
        BY <1>0, <4>1 DEF WatchdogTypes, Sides
      <4> QED
        BY <1>0, <3>1, <4>1, <4>2, <4>3, <4>4, WatchdogAssumption
           DEF WatchdogTypes, CountersKnown, Guarded, procVars, Sides
    <3>4. CASE stop_flag["client"] # 2 /\ ~ Beats("wd")
      <4>1. /\ ahead' = 0 /\ UNCHANGED <<procVars, stop_flag>>
            /\ wd # "none" =>
                 sig' = [sig EXCEPT !["wd"] = @ \union {IF stop_flag["client"] = 0 THEN "USR1" ELSE "USR2"}]
        BY <1>1, <3>4 DEF TaskSendHeartbeat, Peer, Kill, Running
      <4>2. wd # "none" => main = "joining" /\ wd = "sched" /\ stop_flag["wd"] = 2
        BY <1>0, <3>1, <3>4, WatchdogBeats DEF WatchdogInv
      <4>3. wd # "none" => "USR2" \in sig'["wd"]
        <5>1. wd # "none" => stop_flag["client"] = 1
          BY <1>0, <3>1, <3>4, <4>2 DEF WatchdogTypes, FlagsKnown, Quiet, Sides
        <5> QED
          BY <1>0, <4>1, <5>1 DEF WatchdogTypes, Sides
      <4> QED
        BY <3>1, <4>1, <4>2, <4>3, WatchdogAssumption DEF CountersKnown, Guarded, procVars
    <3> QED
      BY <3>2, <3>3, <3>4
  <2>6. ForkedKnown'
    BY <1>0, <1>1 DEF TaskSendHeartbeat, WatchdogTypes, Kill, Peer, Sides, procVars, semVars,
                      ProcessesKnown, InSched, Paced, Running, Beats, WatchdogInv, Quiet, ForkedKnown
  <2> QED
    BY <2>1, <2>2, <2>3, <2>4, <2>5, <2>6 DEF WatchdogInv
<1>2. CASE TaskSendHeartbeat("wd")
  <2>1. WatchdogTypes'
    <3>1. sig' \in [Sides -> SUBSET {"USR1", "USR2"}]
      BY <1>0, <1>2 DEF TaskSendHeartbeat, WatchdogTypes, Kill, Peer, Sides
    <3>2. beat' \in [Sides -> BOOLEAN]
      BY <1>0, <1>2 DEF TaskSendHeartbeat, WatchdogTypes
    <3>3. counter' \in [Sides -> Nat]
      BY <1>0, <1>2 DEF TaskSendHeartbeat, WatchdogTypes, Sides
    <3>4. ahead' \in Int
      BY <1>0, <1>2 DEF TaskSendHeartbeat, WatchdogTypes
    <3> QED
      BY <1>0, <1>2, <3>1, <3>2, <3>3, <3>4 DEF TaskSendHeartbeat, WatchdogTypes, procVars, semVars
  <2>2. ProcessesKnown'
    BY <1>0, <1>2 DEF TaskSendHeartbeat, ProcessesKnown, InSched, procVars
  <2>3. HandshakeKnown'
    BY <1>0, <1>2 DEF TaskSendHeartbeat, HandshakeKnown, semVars, procVars, Guarded, StopSeen, Unposted,
                      Booting
  <2>4. FlagsKnown'
    BY <1>0, <1>2 DEF TaskSendHeartbeat, WatchdogTypes, FlagsKnown, Sides, InSched, Kill, procVars,
                      Guarded, StopSeen
  <2>5. CountersKnown'
    <3> SUFFICES ASSUME Guarded PROVE CountersKnown'
      BY <1>2 DEF TaskSendHeartbeat, CountersKnown, Guarded, procVars
    <3>1. wd = "sched" /\ Quiet
      BY <1>2 DEF TaskSendHeartbeat, InSched
    <3>2. CASE stop_flag["wd"] = 2
      BY <1>0, <1>2, <3>2 DEF TaskSendHeartbeat, CountersKnown, Guarded, procVars
    <3>3. CASE stop_flag["wd"] # 2
      <4>1. Beats("client")
        BY <1>0, <3>1, <3>3, ClientBeats DEF WatchdogInv
      <4>2. /\ counter' = [counter EXCEPT !["wd"] = @ + 1] /\ ahead' = ahead - 1 /\ ahead > -Skew
            /\ sig' = [sig EXCEPT !["client"] = @ \union {"USR1"}]
            /\ UNCHANGED <<procVars, stop_flag>>
        <5>1. stop_flag["wd"] = 0
          BY <1>0, <3>3 DEF WatchdogTypes, FlagsKnown, Sides
        <5> QED
          BY <1>2, <4>1, <5>1 DEF TaskSendHeartbeat, Paced, Peer, Kill, Running, Guarded
      <4>3. counter["wd"] <= Skew - ahead /\ ahead <= Skew
        BY <1>0, <3>1, <3>3, WatchdogCounts DEF WatchdogInv
      <4>4. counter'["wd"] = counter["wd"] + 1 /\ counter'["client"] = counter["client"]
        BY <1>0, <4>2 DEF WatchdogTypes, Sides
      <4>5. "USR1" \in sig'["client"]
        BY <1>0, <4>2 DEF WatchdogTypes, Sides
      <4>6. thread = "sched" => counter["client"] <= Tolerance
        <5>1. thread = "sched" => stop_flag["client"] # 2
          BY <1>0, <3>1, <3>3 DEF FlagsKnown, StopSeen
        <5>2. thread = "sched" => counter["client"] <= Skew + ahead
          BY <1>0, <3>1, <5>1, ClientCounts DEF WatchdogInv
        <5> QED
          BY <1>0, <4>3, <5>2, WatchdogAssumption DEF WatchdogTypes, Sides
      <4> QED
        BY <1>0, <3>1, <4>2, <4>3, <4>4, <4>5, <4>6, WatchdogAssumption
           DEF WatchdogTypes, CountersKnown, Guarded, procVars, Sides
    <3> QED
      BY <3>2, <3>3
  <2>6. ForkedKnown'
    <3> SUFFICES ASSUME client = "up", main = "forked" PROVE ForkedKnown'
      BY <1>2 DEF TaskSendHeartbeat, ForkedKnown, procVars
    <3>1. wd = "sched" /\ stop_flag["wd"] = 0 /\ counter["wd"] = 0 /\ sig["wd"] = {}
      BY <1>0, <1>2 DEF TaskSendHeartbeat, InSched, ForkedKnown, Quiet, Sides
    <3>2. /\ sig' = [sig EXCEPT !["client"] = @ \union {"USR1"}] /\ counter' = [counter EXCEPT !["wd"] = @ + 1]
          /\ UNCHANGED <<procVars, semVars, stop_flag, beat>>
      BY <1>2, <3>1 DEF TaskSendHeartbeat, Kill, Peer, Running
    <3>3. "USR1" \in sig'["client"] /\ "USR2" \notin sig'["client"] /\ counter'["wd"] = 1 /\ sig'["wd"] = {}
      BY <1>0, <3>1, <3>2 DEF WatchdogTypes, ForkedKnown, Sides
    <3> QED
      BY <1>0, <3>1, <3>2, <3>3 DEF ForkedKnown, procVars, semVars
  <2> QED
    BY <2>1, <2>2, <2>3, <2>4, <2>5, <2>6 DEF WatchdogInv
<1> QED
  BY <1>1, <1>2

\* Crashes and failing calls keep it, whatever they leave behind.
LEMMA FaultsKeep ==
  ASSUME WatchdogInv, ReviveWatchdogFails \/ ReviveClientFails \/ CrashClient \/ CrashWD
  PROVE  WatchdogInv'
<1>0. WatchdogTypes /\ ProcessesKnown /\ ForkedKnown /\ HandshakeKnown /\ FlagsKnown /\ CountersKnown
  BY DEF WatchdogInv
<1>1. CASE ReviveWatchdogFails
  <2>1. WatchdogTypes'
    BY <1>0, <1>1 DEF ReviveWatchdogFails, WatchdogTypes, Sides, semVars
  <2>2. ProcessesKnown'
    BY <1>0, <1>1 DEF ReviveWatchdogFails, ProcessesKnown
  <2>3. HandshakeKnown'
    BY <1>0, <1>1 DEF ReviveWatchdogFails, HandshakeKnown, semVars, StopSeen, Booting, Unposted
  <2>4. FlagsKnown'
    BY <1>0, <1>1 DEF ReviveWatchdogFails, FlagsKnown, InSched, Suspects, Guarded, StopSeen
  <2>5. CountersKnown'
    BY <1>0, <1>1 DEF ReviveWatchdogFails, CountersKnown, Guarded
  <2>6. ForkedKnown'
    BY <1>0, <1>1 DEF ReviveWatchdogFails, WatchdogTypes, Sides, semVars, ProcessesKnown, InSched,
                      Suspects, ForkedKnown
  <2> QED
    BY <2>1, <2>2, <2>3, <2>4, <2>5, <2>6 DEF WatchdogInv
<1>2. CASE ReviveClientFails
  <2>1. WatchdogTypes'
    BY <1>0, <1>2 DEF ReviveClientFails, WatchdogTypes, Sides, semVars
  <2>2. ProcessesKnown'
    BY <1>0, <1>2 DEF ReviveClientFails, ProcessesKnown, HandshakeKnown, InSched, Suspects, Guarded,
                      StopSeen, Unposted, Booting
  <2>3. HandshakeKnown'
    BY <1>0, <1>2 DEF ReviveClientFails, HandshakeKnown, semVars, Guarded, Unposted, Booting
  <2>4. FlagsKnown'
    BY <1>0, <1>2 DEF ReviveClientFails, FlagsKnown, InSched, Suspects, Guarded
  <2>5. CountersKnown'
    BY <1>0, <1>2 DEF ReviveClientFails, CountersKnown, Guarded
  <2>6. ForkedKnown'
    BY <1>0, <1>2 DEF ReviveClientFails, WatchdogTypes, Sides, semVars, ProcessesKnown, InSched, Suspects,
                      ForkedKnown
  <2> QED
    BY <2>1, <2>2, <2>3, <2>4, <2>5, <2>6 DEF WatchdogInv
<1>3. CASE CrashClient
  <2>1. WatchdogTypes'
    BY <1>0, <1>3 DEF CrashClient, WatchdogTypes, Sides, semVars, ctxVars
  <2>2. ProcessesKnown'
    BY <1>0, <1>3 DEF CrashClient, ProcessesKnown
  <2>3. HandshakeKnown'
    BY <1>0, <1>3 DEF CrashClient, HandshakeKnown, semVars, Guarded, Unposted, Booting
  <2>4. FlagsKnown'
    BY <1>0, <1>3 DEF CrashClient, FlagsKnown, ctxVars, Guarded
  <2>5. CountersKnown'
    BY <1>0, <1>3 DEF CrashClient, CountersKnown, Guarded
  <2>6. ForkedKnown'
    BY <1>0, <1>3 DEF CrashClient, WatchdogTypes, Sides, semVars, ctxVars, ProcessesKnown, ForkedKnown
  <2> QED
    BY <2>1, <2>2, <2>3, <2>4, <2>5, <2>6 DEF WatchdogInv
<1>4. CASE CrashWD
  <2>1. WatchdogTypes'
    BY <1>0, <1>4 DEF CrashWD, WatchdogTypes, Sides, semVars, ctxVars
  <2>2. ProcessesKnown'
    BY <1>0, <1>4 DEF CrashWD, ProcessesKnown
  <2>3. HandshakeKnown'
    BY <1>0, <1>4 DEF CrashWD, HandshakeKnown, semVars, StopSeen, Booting, Unposted
  <2>4. FlagsKnown'
    BY <1>0, <1>4 DEF CrashWD, FlagsKnown, ctxVars, Guarded, StopSeen
  <2>5. CountersKnown'
    BY <1>0, <1>4 DEF CrashWD, CountersKnown, ctxVars, Guarded
  <2>6. ForkedKnown'
    BY <1>0, <1>4 DEF CrashWD, WatchdogTypes, Sides, semVars, ctxVars, ProcessesKnown, ForkedKnown
  <2> QED
    BY <2>1, <2>2, <2>3, <2>4, <2>5, <2>6 DEF WatchdogInv
<1> QED
  BY <1>1, <1>2, <1>3, <1>4

-----------------------------------------------------------------------------
\* Every step of either process keeps it.
LEMMA WatchdogInvNext ==
  ASSUME Tolerance >= 2 * Skew, WatchdogInv, [Next]_vars
  PROVE  WatchdogInv'
<1>1. CASE MainStep \/ WDStop
  BY <1>1, MainKeeps DEF MainStep
<1>2. CASE ThreadStep
  BY <1>2, ThreadKeeps DEF ThreadStep
<1>3. CASE WDStep \/ \E s \in Sides : EarlySignal(s)
  BY <1>3, ProcessKeeps DEF WDStep, Sides
<1>4. CASE \E s \in Sides : SignalStep(s)
  BY <1>4, SignalsKeep DEF SignalStep, Sides
<1>5. CASE \E s \in Sides : TaskSendHeartbeat(s)
  BY <1>5, BeatsKeep DEF Sides
<1>6. CASE FaultStep
  BY <1>6, MainKeeps, FaultsKeep DEF FaultStep
<1>7. CASE UNCHANGED vars
  BY <1>7 DEF vars, WatchdogInv, WatchdogTypes, ProcessesKnown, ForkedKnown, HandshakeKnown, FlagsKnown,
              CountersKnown, Guarded, StopSeen, Unposted
<1> QED
  BY <1>1, <1>2, <1>3, <1>4, <1>5, <1>6, <1>7 DEF Next

\* Only the dead are suspected: a counter passes the tolerance only when the
\* other process is gone.
LEMMA OnlyTheDead ==
  ASSUME Tolerance >= 2 * Skew, WatchdogInv
  PROVE  /\ Suspects("wd") => client = "dead"
         /\ Suspects("client") => wd = "none"
<1>1. ASSUME Suspects("wd"), client # "dead" PROVE FALSE
  <2>1. wd = "sched" /\ Quiet /\ stop_flag["wd"] # 2 /\ counter["wd"] > Tolerance
    BY <1>1 DEF Suspects, InSched
  <2>2. Guarded
    BY <1>1, <2>1, WatchdogAssumption DEF WatchdogInv, WatchdogTypes, ProcessesKnown, ForkedKnown, Guarded,
                                          Quiet, Sides
  <2>3. counter["wd"] <= Skew - ahead /\ -Skew <= ahead
    BY <2>1, <2>2, WatchdogCounts
  <2> QED
    BY <2>1, <2>3, WatchdogAssumption DEF WatchdogInv, WatchdogTypes, Sides
<1>2. ASSUME Suspects("client"), wd # "none" PROVE FALSE
  <2>1. Guarded /\ thread = "sched" /\ Quiet /\ stop_flag["client"] # 2 /\ counter["client"] > Tolerance
    BY <1>2 DEF Suspects, InSched, Guarded
  <2>2. counter["client"] <= Skew + ahead /\ ahead <= Skew
    BY <1>2, <2>1, ClientCounts
  <2> QED
    BY <2>1, <2>2, WatchdogAssumption DEF WatchdogInv, WatchdogTypes, Sides
<1> QED
  BY <1>1, <1>2

\* Nobody healthy is killed, however the two processes crash, revive each other and are
\* stopped, if the tolerance is at least twice the skew of the two schedules:
\* ReviveProcess is only called for a process that is gone.
THEOREM HealthySurvive ==
  ASSUME Tolerance >= 2 * Skew
  PROVE  Spec => HealthyNotKilled
<1>1. WatchdogInv /\ [Next]_vars
        => /\ main # "idle" /\ main' = "idle" => client = "dead"
           /\ thread = "sched" /\ thread' = "reviveWait" => wd = "none"
  <2> SUFFICES ASSUME WatchdogInv, [Next]_vars
               PROVE  /\ main # "idle" /\ main' = "idle" => client = "dead"
                      /\ thread = "sched" /\ thread' = "reviveWait" => wd = "none"
    OBVIOUS
  <2>1. main # "idle" /\ main' = "idle" => ReviveClient
    BY DEF Next, MainStep, WDStop, ThreadStep, WDStep, EarlySignal, SignalStep, FaultStep, WDStart,
           WDStartThread, WDStartReturns,
         WDStopRequest, WDStopReturns, ThreadOpen, ThreadWait, ThreadPost, ReviveWait, RevivePost, ThreadExit,
         CheckStops, ReviveWatchdog, WDBoot, WDCreate, WDPost, WDWait, WDExit, ReviveClient, SigUsr1Handler,
         SigUsr2Handler, TaskSendHeartbeat, WDStartFails, ReviveWatchdogFails, ReviveClientFails, CrashClient,
         CrashWD, vars, procVars
  <2>2. thread = "sched" /\ thread' = "reviveWait" => ReviveWatchdog
    BY DEF Next, MainStep, WDStop, ThreadStep, WDStep, EarlySignal, SignalStep, FaultStep, WDStart,
           WDStartThread, WDStartReturns,
         WDStopRequest, WDStopReturns, ThreadOpen, ThreadWait, ThreadPost, ReviveWait, RevivePost, ThreadExit,
         CheckStops, ReviveWatchdog, WDBoot, WDCreate, WDPost, WDWait, WDExit, ReviveClient, SigUsr1Handler,
         SigUsr2Handler, TaskSendHeartbeat, WDStartFails, ReviveWatchdogFails, ReviveClientFails, CrashClient,
         CrashWD, vars, procVars
  <2> QED
    BY <2>1, <2>2, OnlyTheDead DEF ReviveClient, ReviveWatchdog
<1>2. WatchdogInv /\ [Next]_vars => WatchdogInv'
  BY WatchdogInvNext
<1> QED
  BY <1>1, <1>2, WatchdogInvInit, PTL DEF Spec, HealthyNotKilled

=============================================================================
