-------------------------------- MODULE Chat ---------------------------------
(***************************************************************************)
(* The chat of the bank server for one user: the sockets and the registry  *)
(* that logout closes them through (socket.handler.js), and the handler of *)
(* user-message with the loop of model calls and tool calls behind it      *)
(* (chatbot.service.js, openaiFunctionCall.service.js).                    *)
(*                                                                         *)
(* Node switches handlers at an await only.  Those are: authenticate() in  *)
(* the handshake, callOpenAI, and the tool calls of a round, which run     *)
(* side by side.  The language model is external: it answers, asks for any *)
(* tools, or fails.  A tool is transfer (transfer_money) or query (the     *)
(* others, which change nothing); bad is a call whose arguments are not    *)
(* JSON.  A refusal of the rate limiter (module RateLimiter) may come at   *)
(* any message.                                                            *)
(***************************************************************************)
EXTENDS Integers, Sequences, SequencesExt, FiniteSets

CONSTANTS
  Sockets,
  Messages,             \* messages that will be sent
  MAX_TOOL_CALL_ROUNDS

ASSUME ChatAssumption ==
  /\ Sockets # {}
  /\ MAX_TOOL_CALL_ROUNDS \in Nat \ {0}

VARIABLES
  conn,       \* new, auth (in authenticateSocket), open or closed
  registry,   \* the set of the user in the SocketRegistry
  tokenValid, \* would verifyTokenOrThrow accept the socket's token?
  history,    \* socket.data.chatHistory, as the messages it is made of
  answered,   \* the messages processed on the socket, in order of the answers
  overlap,    \* have two messages of the socket been in flight together?
  pc,         \* of a message: new, llm, tools, done (answered) or failed
  sock,       \* its socket
  seen,       \* the history it was started with
  rounds,     \* toolCallRounds
  calls,      \* its tool calls that are running
  called,     \* calledFunctionNames.includes('transfer_money')
  moved,      \* have its tool calls executed a transfer?
  announced   \* was transfer-completed emitted for it?

socketVars == <<conn, registry, tokenValid>>
historyVars == <<history, answered, overlap>>
messageVars == <<pc, sock, seen, rounds, calls, called, moved, announced>>
vars == <<socketVars, historyVars, messageVars>>

Tools == {"transfer", "query", "bad"}
InFlight == {m \in Messages : pc[m] \in {"llm", "tools"}}

-----------------------------------------------------------------------------
(* Sockets.                                                                 *)

\* A client connects and authenticateSocket awaits the user.
Handshake(s) ==
  /\ conn[s] = "new"
  /\ conn' = [conn EXCEPT ![s] = "auth"]
  /\ UNCHANGED <<registry, tokenValid, historyVars, messageVars>>

\* The user was found: next() and the connection handler.
Connection(s) ==
  /\ conn[s] = "auth"
  /\ conn' = [conn EXCEPT ![s] = "open"]
  /\ registry' = registry \union {s}
  /\ UNCHANGED <<tokenValid, historyVars, messageVars>>

\* No token, no active user, or the client has gone meanwhile.
AuthenticationFails(s) ==
  /\ conn[s] = "auth"
  /\ conn' = [conn EXCEPT ![s] = "closed"]
  /\ UNCHANGED <<registry, tokenValid, historyVars, messageVars>>

\* Mutant: nothing is registered for the disconnect event.
MutDisconnect(s) ==
  /\ conn[s] = "open"
  /\ conn' = [conn EXCEPT ![s] = "closed"]
  /\ UNCHANGED <<registry, tokenValid, historyVars, messageVars>>

\* The client leaves; the handler of disconnect calls registry.remove.
Disconnect(s) ==
  /\ conn[s] = "open"
  /\ conn' = [conn EXCEPT ![s] = "closed"]
  /\ registry' = registry \ {s}
  /\ UNCHANGED <<tokenValid, historyVars, messageVars>>

\* logout: disconnectUser closes every socket of the registry's set.  Closing
\* one runs its disconnect handler, which takes it out of the set under the
\* loop; in the end the user's entry is gone.
DisconnectUser ==
  /\ conn' = [s \in Sockets |-> IF s \in registry THEN "closed" ELSE conn[s]]
  /\ registry' = {}
  /\ UNCHANGED <<tokenValid, historyVars, messageVars>>

\* The token of a socket expires.
ExpireToken(s) ==
  /\ tokenValid[s]
  /\ tokenValid' = [tokenValid EXCEPT ![s] = FALSE]
  /\ UNCHANGED <<conn, registry, historyVars, messageVars>>

-----------------------------------------------------------------------------
(* user-message.                                                            *)

\* The token is not valid any more: the socket is closed.
SessionExpired(m, s) ==
  /\ pc[m] = "new" /\ conn[s] = "open"
  /\ ~tokenValid[s]
  /\ pc' = [pc EXCEPT ![m] = "done"]
  /\ sock' = [sock EXCEPT ![m] = s]
  /\ conn' = [conn EXCEPT ![s] = "closed"]
  /\ registry' = registry \ {s}
  /\ UNCHANGED <<tokenValid, historyVars, seen, rounds, calls, called, moved, announced>>

\* The limiter refuses the message, or nothing is left of it after
\* sanitizeInput: it is answered and the history stays.
Refused(m, s) ==
  /\ pc[m] = "new" /\ conn[s] = "open"
  /\ tokenValid[s]
  /\ pc' = [pc EXCEPT ![m] = "done"]
  /\ sock' = [sock EXCEPT ![m] = s]
  /\ UNCHANGED <<socketVars, historyVars, seen, rounds, calls, called, moved, announced>>

\* processMessage is called with the history as it is now; callOpenAI awaits.
UserMessage(m, s) ==
  /\ pc[m] = "new" /\ conn[s] = "open"
  /\ tokenValid[s]
  /\ pc' = [pc EXCEPT ![m] = "llm"]
  /\ sock' = [sock EXCEPT ![m] = s]
  /\ seen' = [seen EXCEPT ![m] = history[s]]
  /\ overlap' = [overlap EXCEPT ![s] = @ \/ \E o \in InFlight : sock[o] = s]
  /\ UNCHANGED <<socketVars, history, answered, rounds, calls, called, moved, announced>>

\* Mutant: the message of a failed call is not remembered.
MutRemember(m) ==
  LET s == sock[m] IN
  /\ history' = [history EXCEPT ![s] = IF pc'[m] = "done" THEN Append(seen[m], m) ELSE seen[m]]
  /\ answered' = [answered EXCEPT ![s] = Append(@, m)]
  /\ UNCHANGED overlap

\* The handler goes on after processMessage: chatHistory is replaced by the
\* history that was read at the start with the message appended.
Remember(m) ==
  LET s == sock[m] IN
  /\ history' = [history EXCEPT ![s] = Append(seen[m], m)]
  /\ answered' = [answered EXCEPT ![s] = Append(@, m)]
  /\ UNCHANGED overlap

\* The condition of the loop, but for the tool calls asked for.
GoesOn(m) == rounds[m] < MAX_TOOL_CALL_ROUNDS

\* buildResponse sets transferCompleted if transfer_money was called.
Announce(m) == announced' = [announced EXCEPT ![m] = called[m]]

\* The model's message ends the loop: it asks for no tool, or the cap is
\* reached.  buildResponse, and the handler emits the answer and perhaps
\* transfer-completed.
Answer(m) ==
  /\ pc[m] = "llm"
  /\ pc' = [pc EXCEPT ![m] = "done"]
  /\ Announce(m)
  /\ Remember(m)
  /\ UNCHANGED <<socketVars, sock, seen, rounds, calls, called, moved>>

\* callOpenAI throws: buildErrorResponse, which has no transferCompleted.
OpenAIFails(m) ==
  /\ pc[m] = "llm"
  /\ pc' = [pc EXCEPT ![m] = "failed"]
  /\ Remember(m)
  /\ UNCHANGED <<socketVars, sock, seen, rounds, calls, called, moved, announced>>

\* Mutant: the rounds are not counted.
MutNextRound(m) == UNCHANGED rounds

NextRound(m) == rounds' = [rounds EXCEPT ![m] = @ + 1]

\* A round of tool calls begins.
ToolCalls(m, tools) ==
  /\ pc[m] = "llm"
  /\ GoesOn(m)
  /\ "bad" \notin tools
  /\ pc' = [pc EXCEPT ![m] = "tools"]
  /\ NextRound(m)
  /\ calls' = [calls EXCEPT ![m] = tools]
  /\ called' = [called EXCEPT ![m] = @ \/ "transfer" \in tools]
  /\ UNCHANGED <<socketVars, historyVars, sock, seen, moved, announced>>

\* JSON.parse throws outside of the try block of processToolCall: Promise.all
\* rejects and the error response goes out, while the other calls of the
\* round run on.
BadArguments(m, tools) ==
  /\ pc[m] = "llm"
  /\ GoesOn(m)
  /\ "bad" \in tools
  /\ pc' = [pc EXCEPT ![m] = "failed"]
  /\ NextRound(m)
  /\ calls' = [calls EXCEPT ![m] = tools \ {"bad"}]
  /\ called' = [called EXCEPT ![m] = @ \/ "transfer" \in tools]
  /\ Remember(m)
  /\ UNCHANGED <<socketVars, sock, seen, moved, announced>>

\* Mutant: the first call that returns ends the round (Promise.race).
MutRoundOver(m, t) == TRUE

\* Promise.all resolves when the last call has returned.
RoundOver(m, t) == calls[m] = {t}

\* A tool call returns; a transfer was executed or refused.
ToolReturns(m, t, ok) ==
  /\ t \in calls[m]
  /\ calls' = [calls EXCEPT ![m] = @ \ {t}]
  /\ moved' = [moved EXCEPT ![m] = @ \/ (t = "transfer" /\ ok)]
  /\ pc' = IF pc[m] = "tools" /\ RoundOver(m, t) THEN [pc EXCEPT ![m] = "llm"] ELSE pc
  /\ UNCHANGED <<socketVars, historyVars, sock, seen, rounds, called, announced>>

-----------------------------------------------------------------------------
SomeSocket == CHOOSE s \in Sockets : TRUE

Init ==
  /\ conn = [s \in Sockets |-> "new"]
  /\ registry = {}
  /\ tokenValid = [s \in Sockets |-> TRUE]
  /\ history = [s \in Sockets |-> << >>]
  /\ answered = [s \in Sockets |-> << >>]
  /\ overlap = [s \in Sockets |-> FALSE]
  /\ pc = [m \in Messages |-> "new"]
  /\ sock = [m \in Messages |-> SomeSocket]
  /\ seen = [m \in Messages |-> << >>]
  /\ rounds = [m \in Messages |-> 0]
  /\ calls = [m \in Messages |-> {}]
  /\ called = [m \in Messages |-> FALSE]
  /\ moved = [m \in Messages |-> FALSE]
  /\ announced = [m \in Messages |-> FALSE]

SocketStep ==
  \/ DisconnectUser
  \/ \E s \in Sockets : Handshake(s) \/ Connection(s) \/ AuthenticationFails(s)
                          \/ Disconnect(s) \/ ExpireToken(s)

\* What the model and the tools do to a message that is being processed.
Process(m) ==
  \/ Answer(m)
  \/ OpenAIFails(m)
  \/ \E tools \in SUBSET Tools \ {{}} : ToolCalls(m, tools) \/ BadArguments(m, tools)
  \/ \E t \in Tools, ok \in BOOLEAN : ToolReturns(m, t, ok)

Next ==
  \/ SocketStep
  \/ \E m \in Messages :
       \/ \E s \in Sockets : SessionExpired(m, s) \/ Refused(m, s) \/ UserMessage(m, s)
       \/ Process(m)

Spec == Init /\ [][Next]_vars

\* Calls of the OpenAI client (which has a timeout) and of the tools come back.
Fairness == \A m \in Messages : WF_vars(Process(m))

-----------------------------------------------------------------------------
(* Properties.                                                              *)

\* The registry holds the open sockets, no more (a leak that would grow for
\* ever) and no fewer (a socket that logout would miss).
RegistryExact == registry = {s \in Sockets : conn[s] = "open"}

\* The bot remembers: while messages of a socket never overlapped, its
\* history is all messages answered there, in order.  Once they did, messages
\* may be missing, but the last one answered is there and none is twice.  When a
\* message is answered, none of its tool calls is still running, and if one of
\* them moved money the client is told to refresh.
AnswersComplete ==
  /\ \A s \in Sockets :
       /\ ~overlap[s] => history[s] = answered[s]
       /\ answered[s] # << >> => Last(history[s]) = Last(answered[s])
       /\ IsInjective(history[s])
  /\ \A m \in Messages :
       pc[m] = "done" => calls[m] = {} /\ (moved[m] => announced[m])

\* Every message taken up is answered in the end, also when the model asks
\* for tools for ever (openaiFunctionCall.service.js:162-164).
EveryMessageAnswered ==
  \A m \in Messages : pc[m] = "llm" ~> pc[m] \in {"done", "failed"}

=============================================================================
