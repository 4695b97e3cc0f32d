----------------------------- MODULE RateLimiter -----------------------------
(***************************************************************************)
(* The fixed-window rate limiter of the chat (class RateLimiter in         *)
(* socket.handler.js).  allow(key) is one synchronous call; the clock      *)
(* moves between calls.                                                    *)
(***************************************************************************)
EXTENDS Integers, Sequences, FiniteSets

CONSTANTS
  Keys,       \* users
  windowMs,   \* RATE_LIMIT_WINDOW_MS
  max,        \* RATE_LIMIT_MAX
  MaxNow      \* bound on the clock

ASSUME RateLimiterAssumption ==
  /\ windowMs \in Nat \ {0}
  /\ max \in Nat \ {0}
  /\ MaxNow \in Nat

VARIABLES
  now,       \* Date.now()
  counts,    \* the entry of each key, resetAt -1 if there is none
  accepted,  \* the times of the messages let through, for each key
  refused    \* the times of those turned away

limiterVars == <<now, counts, accepted, refused>>

NoEntry == [count |-> 0, resetAt |-> -1]

\* Mutant: the window is renewed by every message.
MutCount(key) ==
  counts' = [counts EXCEPT ![key] = [count |-> @.count + 1, resetAt |-> now + windowMs]]

\* entry.count++
Count(key) == counts' = [counts EXCEPT ![key].count = @ + 1]

Full(key) == counts[key].count >= max

\* !entry || now > entry.resetAt
Over(key) == now > counts[key].resetAt

\* allow returns true and a new window begins.
AllowFirst(key) ==
  /\ Over(key)
  /\ counts' = [counts EXCEPT ![key] = [count |-> 1, resetAt |-> now + windowMs]]
  /\ accepted' = [accepted EXCEPT ![key] = Append(@, now)]
  /\ UNCHANGED <<now, refused>>

\* allow returns true within the window.
AllowNext(key) ==
  /\ ~Over(key) /\ ~Full(key)
  /\ Count(key)
  /\ accepted' = [accepted EXCEPT ![key] = Append(@, now)]
  /\ UNCHANGED <<now, refused>>

\* allow returns false.
Refuse(key) ==
  /\ ~Over(key) /\ Full(key)
  /\ refused' = [refused EXCEPT ![key] = @ \union {now}]
  /\ UNCHANGED <<now, counts, accepted>>

Tick ==
  /\ now < MaxNow
  /\ now' = now + 1
  /\ UNCHANGED <<counts, accepted, refused>>

LimiterInit ==
  /\ now = 0
  /\ counts = [key \in Keys |-> NoEntry]
  /\ accepted = [key \in Keys |-> << >>]
  /\ refused = [key \in Keys |-> {}]

LimiterNext ==
  \/ Tick
  \/ \E key \in Keys : AllowFirst(key) \/ AllowNext(key) \/ Refuse(key)

LimiterSpec == LimiterInit /\ [][LimiterNext]_limiterVars

-----------------------------------------------------------------------------
(* Properties.                                                              *)

\* The messages let through in [from, to].
Between(key, from, to) ==
  {i \in 1 .. Len(accepted[key]) : from <= accepted[key][i] /\ accepted[key][i] <= to}

\* However the messages lie across the borders of windows, no span of the
\* window's length sees more than twice the maximum; and nobody is turned away
\* for nothing: whoever is refused has had the maximum within the window's
\* length.
LimitHolds ==
  \A key \in Keys :
    /\ \A t \in 0 .. MaxNow : Cardinality(Between(key, t, t + windowMs)) <= 2 * max
    /\ \A t \in refused[key] : Cardinality(Between(key, t - windowMs, t)) >= max

=============================================================================
