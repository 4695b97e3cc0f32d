------------------------------- MODULE MCBank --------------------------------
(* Small instances of the server's parts beside the transfer: Auth, Chat and  *)
(* the RateLimiter its handler asks.  They share no state, so a behaviour here *)
(* is one of the login, one of the chat, in which a message may be refused at *)
(* any time, or one of the limiter.                                           *)
EXTENDS Auth, Chat, RateLimiter

VARIABLE focus   \* the part that moves

mcVars == <<authVars, vars, limiterVars, focus>>

MCInit ==
  /\ AuthInit /\ Init /\ LimiterInit
  /\ focus \in {"auth", "chat", "limiter"}

MCNext ==
  /\ UNCHANGED focus
  /\ \/ focus = "auth" /\ AuthNext /\ UNCHANGED <<vars, limiterVars>>
     \/ focus = "chat" /\ Next /\ UNCHANGED <<authVars, limiterVars>>
     \/ focus = "limiter" /\ LimiterNext /\ UNCHANGED <<authVars, vars>>

MCSpec == MCInit /\ [][MCNext]_mcVars /\ (focus = "chat" => Fairness)

=============================================================================
