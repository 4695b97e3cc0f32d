----------------------------- MODULE BankProofs ------------------------------
(***************************************************************************)
(* The server's parts beside the transfer, for any number of requests,     *)
(* codes, sockets, messages and users: the login's codes, the registry of  *)
(* sockets and the chat's answers, and the rate limiter.                   *)
(***************************************************************************)
EXTENDS Auth, Chat, RateLimiter, FiniteSetTheorems, SequenceTheorems, TLAPS

-----------------------------------------------------------------------------
(* Login.                                                                   *)

AuthTypeOK ==
  /\ status \in {"none", "PENDING", "ACTIVE"}
  /\ codes \in 0 .. MaxCodes
  /\ otpHash \in 0 .. codes
  /\ otpAttempts \in Nat
  /\ misses \in Nat
  /\ reqAt \in [Requests -> {"none", "saveToken", "saveOtp", "miss", "accept"}]
  /\ user \in [Requests -> [otpHash : 0 .. MaxCodes, otpAttempts : Nat]]
  /\ logins \in [1 .. MaxCodes -> Nat]

\* A request that has compared codes has compared one that was generated.
ComparedCodes ==
  \A r \in Requests : reqAt[r] \in {"miss", "accept"} => user[r].otpHash \in 1 .. codes

\* Requests about to count a miss against the stored code, and about to accept c.
Missing == {r \in Requests : reqAt[r] = "miss" /\ user[r].otpHash = otpHash}
Accepting(c) == {r \in Requests : reqAt[r] = "accept" /\ user[r].otpHash = c}

\* A request may begin to miss only while the counter is below its limit, so
\* misses that are counted and misses under way are bounded together.
MissesBounded ==
  /\ misses <= otpAttempts
  /\ misses + Cardinality(Missing) < MAX_OTP_ATTEMPTS + Cardinality(Requests)

\* Logins with a code and logins under way are bounded together, a code that
\* has been used is not stored, and no code is used before it is generated.
LoginsBounded ==
  \A c \in 1 .. MaxCodes :
    /\ logins[c] + Cardinality(Accepting(c)) <= Cardinality(Requests)
    /\ logins[c] > 0 => otpHash # c /\ c <= codes

AuthInv == AuthTypeOK /\ ComparedCodes /\ MissesBounded /\ LoginsBounded

\* A set of requests is no larger than all of them.
LEMMA SomeRequests ==
  ASSUME NEW S \in SUBSET Requests
  PROVE  /\ IsFiniteSet(S) /\ Cardinality(S) \in Nat
         /\ Cardinality(S) <= Cardinality(Requests) /\ Cardinality(Requests) \in Nat
         /\ \A r \in S : Cardinality(S \ {r}) = Cardinality(S) - 1
<1>1. IsFiniteSet(Requests)
  BY AuthAssumption
<1>2. IsFiniteSet(S) /\ Cardinality(S) <= Cardinality(Requests)
  BY <1>1, FS_Subset
<1>3. Cardinality(S) \in Nat /\ Cardinality(Requests) \in Nat
  BY <1>1, <1>2, FS_CardinalityType
<1>4. \A r \in S : Cardinality(S \ {r}) = Cardinality(S) - 1
  BY <1>2, FS_RemoveElement
<1> QED
  BY <1>2, <1>3, <1>4

\* Nothing is stored and nobody is under way at the start.
LEMMA AuthInitInv == AuthInit => AuthInv
<1> SUFFICES ASSUME AuthInit PROVE AuthInv
  OBVIOUS
<1>1. AuthTypeOK
  BY AuthAssumption DEF AuthInit, AuthTypeOK, NoUser
<1>2. ComparedCodes
  BY DEF AuthInit, ComparedCodes
<1>3. Missing = {} /\ \A c \in 1 .. MaxCodes : Accepting(c) = {}
  BY DEF AuthInit, Missing, Accepting
<1>4. Cardinality({}) = 0 /\ Cardinality(Requests) \in Nat
  BY SomeRequests, FS_EmptySet
<1>5. Cardinality(Requests) # 0
  BY AuthAssumption, FS_EmptySet
<1>6. MissesBounded
  BY <1>3, <1>4, AuthAssumption DEF AuthInit, MissesBounded
<1>7. LoginsBounded
  <2>1. \A c \in 1 .. MaxCodes : Cardinality(Accepting(c)) = 0
    BY <1>3, <1>4, Zenon
  <2> QED
    BY <1>4, <2>1, AuthAssumption DEF AuthInit, LoginsBounded
<1> QED
  BY <1>1, <1>2, <1>6, <1>7 DEF AuthInv

\* Steps that touch neither codes nor comparisons.
LEMMA AuthOther ==
  ASSUME AuthInv, status' \in {"none", "PENDING", "ACTIVE"},
         UNCHANGED <<otpHash, otpAttempts, codes, misses, logins, user>>,
         reqAt' \in [Requests -> {"none", "saveToken", "saveOtp", "miss", "accept"}],
         \A r \in Requests : reqAt'[r] \in {"miss", "accept"} \/ reqAt[r] \in {"miss", "accept"}
                               => reqAt'[r] = reqAt[r]
  PROVE  AuthInv'
<1>1. AuthTypeOK'
  BY DEF AuthInv, AuthTypeOK
<1>2. ComparedCodes'
  BY DEF AuthInv, ComparedCodes
<1>3. Missing' = Missing /\ \A c \in 1 .. MaxCodes : Accepting(c)' = Accepting(c)
  BY DEF Missing, Accepting
<1>4. MissesBounded' /\ LoginsBounded'
  BY <1>3 DEF AuthInv, MissesBounded, LoginsBounded
<1> QED
  BY <1>1, <1>2, <1>4 DEF AuthInv

\* A new code: no miss is counted against it and nobody can have used it.
LEMMA AuthSaveOtp ==
  ASSUME AuthInv, NEW r \in Requests, SaveOtp(r)
  PROVE  AuthInv'
<1> USE DEF AuthInv
<1>1. AuthTypeOK'
  BY AuthAssumption DEF AuthTypeOK, SaveOtp, Goto, signupVars
<1>2. ComparedCodes'
  BY DEF ComparedCodes, SaveOtp, Goto, AuthTypeOK
<1>3. Cardinality(Missing') \in Nat /\ Cardinality(Missing') <= Cardinality(Requests)
      /\ Cardinality(Requests) \in Nat
  BY SomeRequests DEF Missing
<1>4. MissesBounded'
  BY <1>3, AuthAssumption DEF MissesBounded, SaveOtp
<1>5. \A c \in 1 .. MaxCodes : Accepting(c)' = Accepting(c)
  BY DEF Accepting, SaveOtp, Goto, AuthTypeOK
<1>6. \A c \in 1 .. MaxCodes : logins[c] > 0 => otpHash' # c /\ c <= codes'
  BY DEF SaveOtp, LoginsBounded, AuthTypeOK
<1>7. LoginsBounded'
  BY <1>5, <1>6 DEF LoginsBounded, SaveOtp
<1> QED
  BY <1>1, <1>2, <1>4, <1>7

\* A comparison begins: the counter was below its limit and the code unused.
LEMMA AuthFind ==
  ASSUME AuthInv, NEW r \in Requests, NEW otp, VerifyOtpFind(r, otp)
  PROVE  AuthInv'
<1> USE DEF AuthInv
<1>1. AuthTypeOK'
  BY AuthAssumption DEF AuthTypeOK, VerifyOtpFind, Goto, signupVars, otpVars
<1>2. ComparedCodes'
  BY DEF ComparedCodes, VerifyOtpFind, Goto, AuthTypeOK, otpVars
<1>3. Cardinality(Missing') \in Nat /\ Cardinality(Missing') <= Cardinality(Requests)
      /\ Cardinality(Requests) \in Nat
  BY SomeRequests DEF Missing
<1>4. MissesBounded'
  BY <1>3, AuthAssumption DEF MissesBounded, VerifyOtpFind, otpVars, AuthTypeOK
<1>5. ASSUME NEW c \in 1 .. MaxCodes
      PROVE  logins[c] + Cardinality(Accepting(c)') <= Cardinality(Requests)
  <2>1. CASE c = otpHash
    <3>1. logins[c] = 0
      BY <2>1 DEF LoginsBounded, AuthTypeOK
    <3>2. Accepting(c)' \in SUBSET Requests
      BY DEF Accepting
    <3> QED
      BY <3>1, <3>2, SomeRequests
  <2>2. CASE c # otpHash
    <3>1. Accepting(c)' \subseteq Accepting(c)
      BY <2>2 DEF Accepting, VerifyOtpFind, Goto, AuthTypeOK
    <3>2. Accepting(c) \in SUBSET Requests
      BY DEF Accepting
    <3>3. Cardinality(Accepting(c)') <= Cardinality(Accepting(c))
      BY <3>1, <3>2, SomeRequests, FS_Subset
    <3>4. Cardinality(Accepting(c)') \in Nat /\ Cardinality(Accepting(c)) \in Nat
      BY <3>1, <3>2, SomeRequests
    <3>5. logins[c] \in Nat /\ Cardinality(Requests) \in Nat
      BY SomeRequests DEF AuthTypeOK
    <3>6. logins[c] + Cardinality(Accepting(c)) <= Cardinality(Requests)
      BY DEF LoginsBounded
    <3> QED
      BY <3>3, <3>4, <3>5, <3>6
  <2> QED
    BY <2>1, <2>2
<1>6. LoginsBounded'
  BY <1>5 DEF LoginsBounded, VerifyOtpFind, otpVars
<1> QED
  BY <1>1, <1>2, <1>4, <1>6

\* A miss is counted: it leaves those under way.
LEMMA AuthMiss ==
  ASSUME AuthInv, NEW r \in Requests, VerifyOtpMiss(r)
  PROVE  AuthInv'
<1> USE DEF AuthInv
<1>1. AuthTypeOK'
  BY AuthAssumption DEF AuthTypeOK, VerifyOtpMiss, Goto, signupVars, NoUser
<1>2. ComparedCodes'
  BY DEF ComparedCodes, VerifyOtpMiss, Goto, AuthTypeOK
<1>3. Missing' = Missing \ {r}
  BY DEF Missing, VerifyOtpMiss, Goto, AuthTypeOK
<1>4. /\ r \in Missing => misses' = misses + 1
      /\ r \notin Missing => misses' = misses /\ Missing' = Missing
      /\ otpAttempts' = otpAttempts + 1
  BY <1>3 DEF Missing, VerifyOtpMiss
<1>5. Missing \in SUBSET Requests
  BY DEF Missing
<1>6. /\ Cardinality(Missing) \in Nat /\ Cardinality(Requests) \in Nat
      /\ r \in Missing => Cardinality(Missing') = Cardinality(Missing) - 1
  BY <1>3, <1>5, SomeRequests
<1>7. MissesBounded'
  <2>1. misses' <= otpAttempts'
    BY <1>4 DEF MissesBounded, AuthTypeOK
  <2>2. CASE r \in Missing
    BY <1>4, <1>6, <2>1, <2>2, AuthAssumption DEF MissesBounded, AuthTypeOK
  <2>3. CASE r \notin Missing
    BY <1>4, <1>6, <2>1, <2>3, AuthAssumption DEF MissesBounded, AuthTypeOK
  <2> QED
    BY <2>2, <2>3
<1>8. \A c \in 1 .. MaxCodes : Accepting(c)' = Accepting(c)
  BY DEF Accepting, VerifyOtpMiss, Goto, AuthTypeOK
<1>9. LoginsBounded'
  BY <1>8 DEF LoginsBounded, VerifyOtpMiss
<1> QED
  BY <1>1, <1>2, <1>7, <1>9

\* A login: its code, and any that is stored by now, is gone.
LEMMA AuthAccept ==
  ASSUME AuthInv, NEW r \in Requests, VerifyOtpAccept(r)
  PROVE  AuthInv'
<1> USE DEF AuthInv
<1>1. PICK mine \in 1 .. MaxCodes : mine = user[r].otpHash /\ mine \in 1 .. codes
  BY AuthAssumption DEF VerifyOtpAccept, ComparedCodes, AuthTypeOK
<1>2. AuthTypeOK'
  BY <1>1, AuthAssumption DEF AuthTypeOK, VerifyOtpAccept, Goto, signupVars, NoUser
<1>3. ComparedCodes'
  BY DEF ComparedCodes, VerifyOtpAccept, Goto, AuthTypeOK
<1>4. Missing' = {}
  BY <1>1 DEF Missing, VerifyOtpAccept, Goto, AuthTypeOK, ComparedCodes
<1>5. MissesBounded'
  <2>1. Cardinality({}) = 0 /\ Cardinality(Requests) \in Nat
    BY FS_EmptySet, SomeRequests
  <2> QED
    BY <1>4, <2>1, AuthAssumption DEF MissesBounded, VerifyOtpAccept
<1>6. r \in Accepting(mine) /\ Accepting(mine) \in SUBSET Requests
  BY <1>1 DEF Accepting, VerifyOtpAccept
<1>7. /\ Accepting(mine)' = Accepting(mine) \ {r}
      /\ \A c \in (1 .. MaxCodes) \ {mine} : Accepting(c)' = Accepting(c)
  <2>1. /\ reqAt'[r] = "none" /\ reqAt[r] = "accept"
        /\ \A q \in Requests \ {r} : reqAt'[q] = reqAt[q] /\ user'[q] = user[q]
    BY DEF VerifyOtpAccept, Goto, AuthTypeOK
  <2>2. ASSUME NEW c PROVE Accepting(c)' = Accepting(c) \ {r}
    BY <2>1 DEF Accepting
  <2>3. ASSUME NEW c \in (1 .. MaxCodes) \ {mine} PROVE r \notin Accepting(c)
    BY <1>1, <2>3 DEF Accepting
  <2> QED
    BY <2>2, <2>3
<1>8. /\ logins'[mine] = logins[mine] + 1 /\ otpHash' = 0 /\ codes' = codes
      /\ \A c \in (1 .. MaxCodes) \ {mine} : logins'[c] = logins[c]
  BY <1>1 DEF VerifyOtpAccept, AuthTypeOK
<1>9. /\ Cardinality(Accepting(mine)') = Cardinality(Accepting(mine)) - 1
      /\ Cardinality(Accepting(mine)) \in Nat
  BY <1>6, <1>7, SomeRequests
<1>10. LoginsBounded'
  <2> SUFFICES ASSUME NEW c \in 1 .. MaxCodes PROVE LoginsBounded!(c)'
    BY DEF LoginsBounded
  <2>1. LoginsBounded!(c)
    BY DEF LoginsBounded
  <2>2. CASE c = mine
    <3>1. logins[mine] \in Nat /\ Cardinality(Requests) \in Nat
      BY <1>1, SomeRequests DEF AuthTypeOK
    <3>2. logins'[mine] + Cardinality(Accepting(mine)') <= Cardinality(Requests)
      BY <1>8, <1>9, <2>1, <2>2, <3>1
    <3>3. otpHash' # c /\ c <= codes'
      BY <1>1, <1>8, <2>2 DEF AuthTypeOK
    <3> QED
      BY <2>2, <3>2, <3>3
  <2>3. CASE c # mine
    BY <1>7, <1>8, <2>1, <2>3
  <2> QED
    BY <2>2, <2>3
<1> QED
  BY <1>2, <1>3, <1>5, <1>10

\* Every step of the login keeps the invariant.
LEMMA AuthNextInv == AuthInv /\ [AuthNext]_authVars => AuthInv'
<1> SUFFICES ASSUME AuthInv, [AuthNext]_authVars PROVE AuthInv'
  OBVIOUS
<1>1. AuthTypeOK
  BY DEF AuthInv
<1>2. ASSUME NEW t, FindAndVerifyUserByToken(t) PROVE AuthInv'
  BY <1>1, <1>2, AuthOther DEF FindAndVerifyUserByToken, otpVars, AuthTypeOK
<1>3. CASE Expire
  BY <1>1, <1>3, AuthOther DEF Expire, signupVars, AuthTypeOK
<1>4. ASSUME NEW r \in Requests, CreateUser(r) PROVE AuthInv'
  BY <1>1, <1>4, AuthOther DEF CreateUser, otpVars, AuthTypeOK
<1>5. ASSUME NEW r \in Requests, RegenerateFind(r) \/ RegenerateSave(r) \/ IssueOtp(r)
      PROVE  AuthInv'
  BY <1>1, <1>5, AuthOther
     DEF RegenerateFind, RegenerateSave, IssueOtp, Goto, signupVars, otpVars, AuthTypeOK
<1>6. CASE UNCHANGED authVars
  BY <1>1, <1>6, AuthOther DEF authVars, AuthTypeOK
<1> QED
  BY <1>2, <1>3, <1>4, <1>5, <1>6, AuthSaveOtp, AuthFind, AuthMiss, AuthAccept DEF AuthNext

\* The login's invariant holds in every reachable state.
THEOREM AuthInvariant == AuthSpec => []AuthInv
BY AuthInitInv, AuthNextInv, PTL DEF AuthSpec

\* No miss against the stored code goes uncounted, and a code is locked after
\* MAX_OTP_ATTEMPTS misses and those under way ($inc of otpAttempts in
\* verifyOtp), for any number of requests.
THEOREM AttemptsCounted == AuthSpec => []MissesCounted
<1>1. AuthInv => MissesCounted
  <2> SUFFICES ASSUME AuthInv PROVE MissesCounted
    OBVIOUS
  <2>1. Cardinality(Missing) \in Nat /\ Cardinality(Requests) \in Nat
    BY SomeRequests DEF Missing
  <2> QED
    BY <2>1, AuthAssumption DEF AuthInv, AuthTypeOK, MissesBounded, MissesCounted
<1> QED
  BY <1>1, AuthInvariant, PTL

\* A code that has logged somebody in is not stored any more, and only the
\* requests that had compared it before can still log in with it (the $unset
\* of verifyOtp).
THEOREM UsedCodesDie == AuthSpec => []CodeDies
<1>1. AuthInv => CodeDies
  <2> SUFFICES ASSUME AuthInv, NEW c \in 1 .. codes, logins[c] > 0
               PROVE  /\ otpHash # c
                      /\ logins[c] + Cardinality(Accepting(c)) <= Cardinality(Requests)
    BY DEF CodeDies, Accepting
  <2>1. c \in 1 .. MaxCodes
    BY AuthAssumption DEF AuthInv, AuthTypeOK
  <2> QED
    BY <2>1 DEF AuthInv, LoginsBounded
<1> QED
  BY <1>1, AuthInvariant, PTL

\* No step takes a verified account back to pending, whatever it had read
\* (regenerateVerificationToken saves the token only).
THEOREM VerifiedStays == AuthSpec => StaysActive
<1>1. [AuthNext]_authVars => [status = "ACTIVE" => status' = "ACTIVE"]_authVars
  BY DEF AuthNext, authVars, signupVars, FindAndVerifyUserByToken, Expire, CreateUser,
     RegenerateFind, RegenerateSave, IssueOtp, SaveOtp, VerifyOtpFind, VerifyOtpMiss,
     VerifyOtpAccept
<1> QED
  BY <1>1, PTL DEF AuthSpec, StaysActive

-----------------------------------------------------------------------------
(* The registry of sockets.                                                 *)

RegistryInv ==
  /\ conn \in [Sockets -> {"new", "auth", "open", "closed"}]
  /\ RegistryExact

\* The registry is the set of open sockets in every reachable state, so that
\* logout closes all of them and nothing leaks, for any number of sockets
\* (SocketRegistry and the handler of disconnect).
THEOREM RegistryIsExact == Spec => []RegistryExact
<1>1. Init => RegistryInv
  BY DEF Init, RegistryInv, RegistryExact
<1>2. RegistryInv /\ [Next]_vars => RegistryInv'
  <2> SUFFICES ASSUME RegistryInv, [Next]_vars PROVE RegistryInv'
    OBVIOUS
  <2> USE DEF RegistryInv, RegistryExact
  <2>1. CASE UNCHANGED <<conn, registry>>
    BY <2>1
  <2>2. CASE DisconnectUser
    BY <2>2 DEF DisconnectUser
  <2>3. ASSUME NEW s \in Sockets,
               Handshake(s) \/ Connection(s) \/ AuthenticationFails(s) \/ Disconnect(s)
        PROVE  RegistryInv'
    BY <2>3 DEF Handshake, Connection, AuthenticationFails, Disconnect
  <2>4. ASSUME NEW m \in Messages, NEW s \in Sockets, SessionExpired(m, s)
        PROVE  RegistryInv'
    BY <2>4 DEF SessionExpired
  <2>5. ASSUME NEW m \in Messages, Process(m) PROVE UNCHANGED <<conn, registry>>
    BY <2>5 DEF Process, Answer, OpenAIFails, ToolCalls, BadArguments, ToolReturns, socketVars
  <2> QED
    BY <2>5, <2>4, <2>3, <2>2, <2>1
       DEF Next, SocketStep, ExpireToken, Refused, UserMessage, vars, socketVars
<1>3. RegistryInv => RegistryExact
  BY DEF RegistryInv
<1> QED
  BY <1>1, <1>2, <1>3, PTL DEF Spec

-----------------------------------------------------------------------------
(* The answers of the chat.                                                 *)

ChatTypeOK ==
  /\ history \in [Sockets -> Seq(Messages)]
  /\ answered \in [Sockets -> Seq(Messages)]
  /\ overlap \in [Sockets -> BOOLEAN]
  /\ pc \in [Messages -> {"new", "llm", "tools", "done", "failed"}]
  /\ sock \in [Messages -> Sockets]
  /\ seen \in [Messages -> Seq(Messages)]
  /\ calls \in [Messages -> SUBSET Tools]
  /\ called \in [Messages -> BOOLEAN]
  /\ moved \in [Messages -> BOOLEAN]
  /\ announced \in [Messages -> BOOLEAN]

\* A history holds messages that are over, none twice.
Settled(h) ==
  /\ \A i \in 1 .. Len(h) : pc[h[i]] \in {"done", "failed"}
  /\ \A i, j \in 1 .. Len(h) : h[i] = h[j] => i = j

\* Histories, and what the messages in flight have seen of them, are settled;
\* the last answer is the last of the history.
HistoriesSettled ==
  /\ \A s \in Sockets :
       /\ Settled(history[s])
       /\ answered[s] # << >> =>
            /\ history[s] # << >>
            /\ history[s][Len(history[s])] = answered[s][Len(answered[s])]
  /\ \A m \in InFlight : Settled(seen[m])

\* Without an overlap the one message in flight has seen the whole history.
NothingForgotten ==
  \A s \in Sockets :
    ~overlap[s] =>
      /\ history[s] = answered[s]
      /\ \A m \in InFlight : sock[m] = s => seen[m] = history[s]
      /\ \A m, o \in InFlight : sock[m] = s /\ sock[o] = s => m = o

\* Tool calls run during a round or behind a failed message; money is moved
\* only by a call the message remembers, and an answer tells of it.
CallsKnown ==
  \A m \in Messages :
    /\ pc[m] \in {"new", "llm", "done"} => calls[m] = {}
    /\ pc[m] = "new" => ~moved[m]
    /\ "transfer" \in calls[m] => called[m]
    /\ moved[m] => called[m]
    /\ pc[m] = "done" /\ moved[m] => announced[m]

ChatInv == ChatTypeOK /\ HistoriesSettled /\ NothingForgotten /\ CallsKnown

\* The handler goes on after processMessage: the message is appended to a
\* settled history that does not hold it.
LEMMA ChatRemember ==
  ASSUME ChatInv, NEW m \in Messages, pc[m] = "llm", NEW x \in {"done", "failed"},
         pc' = [pc EXCEPT ![m] = x], Remember(m), UNCHANGED <<sock, seen>>
  PROVE  /\ history' \in [Sockets -> Seq(Messages)]
         /\ answered' \in [Sockets -> Seq(Messages)]
         /\ overlap' = overlap
         /\ HistoriesSettled' /\ NothingForgotten'
<1> USE DEF ChatInv
<1>1. PICK s \in Sockets : s = sock[m]
  BY DEF ChatTypeOK
<1> DEFINE h == Append(seen[m], m)
<1>2. seen[m] \in Seq(Messages) /\ Len(seen[m]) \in Nat /\ answered[s] \in Seq(Messages)
  BY <1>1 DEF ChatTypeOK
<1>3. /\ h \in Seq(Messages) /\ h # << >>
      /\ Len(h) = Len(seen[m]) + 1 /\ h[Len(h)] = m
      /\ \A i \in 1 .. Len(seen[m]) : h[i] = seen[m][i]
  BY <1>2
<1>4. /\ history' = [history EXCEPT ![s] = h]
      /\ answered' = [answered EXCEPT ![s] = Append(@, m)]
      /\ overlap' = overlap
  BY <1>1 DEF Remember
<1>5. /\ history' \in [Sockets -> Seq(Messages)] /\ answered' \in [Sockets -> Seq(Messages)]
      /\ history'[s] = h /\ answered'[s] = Append(answered[s], m)
      /\ \A q \in Sockets \ {s} : history'[q] = history[q] /\ answered'[q] = answered[q]
  BY <1>2, <1>3, <1>4 DEF ChatTypeOK
<1>6. m \in InFlight /\ InFlight' = InFlight \ {m}
  BY DEF InFlight, ChatTypeOK
<1>7. ASSUME NEW g \in Seq(Messages), Settled(g) PROVE Settled(g)'
  <2>1. \A i \in 1 .. Len(g) : g[i] \in Messages
    OBVIOUS
  <2> QED
    BY <1>7, <2>1 DEF Settled, ChatTypeOK
<1>8. Settled(seen[m])
  BY <1>6 DEF HistoriesSettled
<1>9. /\ \A i \in 1 .. Len(h) : pc'[h[i]] \in {"done", "failed"}
      /\ \A i, j \in 1 .. Len(h) : h[i] = h[j] => i = j
  <2>1. \A i \in 1 .. Len(seen[m]) : seen[m][i] # m /\ seen[m][i] \in Messages
    BY <1>2, <1>8 DEF Settled
  <2>2. pc'[m] \in {"done", "failed"}
    BY DEF ChatTypeOK
  <2>3. \A i \in 1 .. Len(seen[m]) : pc'[seen[m][i]] \in {"done", "failed"}
    BY <1>8, <2>1 DEF Settled, ChatTypeOK
  <2>4. \A i \in 1 .. Len(h) : i \in 1 .. Len(seen[m]) \/ i = Len(h)
    BY <1>2, <1>3
  <2> HIDE DEF h
  <2>5. \A i \in 1 .. Len(h) : pc'[h[i]] \in {"done", "failed"}
    BY <1>3, <2>2, <2>3, <2>4
  <2>6. \A i, j \in 1 .. Len(h) : h[i] = h[j] => i = j
    BY <1>3, <1>8, <2>1, <2>4 DEF Settled
  <2> QED
    BY <2>5, <2>6
<1>10. HistoriesSettled'
  <2>1. ASSUME NEW q \in Sockets
        PROVE  HistoriesSettled!1!(q)'
    <3>1. CASE q = s
      <4>3. PICK g, z : g = h /\ z = Append(answered[s], m)
        OBVIOUS
      <4>4. history'[q] = g /\ answered'[q] = z
        BY <1>5, <3>1, <4>3
      <4>1. Settled(history[q])'
        BY <1>9, <4>3, <4>4, Zenon DEF Settled
      <4>2. /\ history'[q] # << >>
            /\ history'[q][Len(history'[q])] = answered'[q][Len(answered'[q])]
        <5>1. z[Len(z)] = m
          BY <1>2, <4>3
        <5> QED
          BY <1>3, <4>3, <4>4, <5>1, Zenon
      <4> QED
        BY <4>1, <4>2
    <3>2. CASE q # s
      <4>1. Settled(history[q]) /\ history[q] \in Seq(Messages)
        BY DEF HistoriesSettled, ChatTypeOK
      <4>2. Settled(history[q])'
        BY <1>5, <1>7, <3>2, <4>1 DEF Settled
      <4> QED
        BY <1>5, <3>2, <4>2 DEF HistoriesSettled
    <3> QED
      BY <3>1, <3>2
  <2>2. ASSUME NEW o \in InFlight' PROVE Settled(seen[o])'
    <3>1. Settled(seen[o]) /\ seen[o] \in Seq(Messages)
      BY <1>6 DEF HistoriesSettled, ChatTypeOK, InFlight
    <3> QED
      BY <1>7, <3>1 DEF Settled
  <2> QED
    BY <2>1, <2>2 DEF HistoriesSettled
<1>11. NothingForgotten'
  <2> SUFFICES ASSUME NEW q \in Sockets, ~overlap[q]
               PROVE  /\ history'[q] = answered'[q]
                      /\ \A o \in InFlight' : sock[o] = q => seen[o] = history'[q]
                      /\ \A o, p \in InFlight' : sock[o] = q /\ sock[p] = q => o = p
    BY <1>4 DEF NothingForgotten
  <2>1. /\ history[q] = answered[q]
        /\ \A o \in InFlight : sock[o] = q => seen[o] = history[q]
        /\ \A o, p \in InFlight : sock[o] = q /\ sock[p] = q => o = p
    BY DEF NothingForgotten
  <2>2. CASE q = s
    <3>1. seen[m] = answered[q]
      BY <1>1, <1>6, <2>1, <2>2
    <3>2. \A o \in InFlight' : sock[o] # q
      BY <1>1, <1>6, <2>1, <2>2
    <3> QED
      BY <1>5, <2>2, <3>1, <3>2
  <2>3. CASE q # s
    BY <1>5, <1>6, <2>1, <2>3
  <2> QED
    BY <2>2, <2>3
<1> QED
  BY <1>4, <1>5, <1>10, <1>11

\* A step that moves no message out of flight or into it keeps the histories.
LEMMA ChatQuiet ==
  ASSUME ChatInv, UNCHANGED <<historyVars, sock, seen>>,
         \A m \in Messages : pc[m] # pc'[m] => \/ {pc[m], pc'[m]} \subseteq {"llm", "tools"}
                                               \/ pc[m] = "new" /\ pc'[m] = "done"
  PROVE  HistoriesSettled' /\ NothingForgotten'
<1> USE DEF ChatInv
<1>1. InFlight' = InFlight
  BY DEF InFlight, ChatTypeOK
<1>2. ASSUME NEW g \in Seq(Messages), Settled(g) PROVE Settled(g)'
  <2>1. \A i \in 1 .. Len(g) : g[i] \in Messages
    OBVIOUS
  <2> QED
    BY <1>2, <2>1 DEF Settled
<1>3. HistoriesSettled'
  <2>1. ASSUME NEW q \in Sockets PROVE Settled(history[q])'
    <3>1. Settled(history[q]) /\ history[q] \in Seq(Messages) /\ history' = history
      BY DEF HistoriesSettled, ChatTypeOK, historyVars
    <3> QED
      BY <1>2, <3>1 DEF Settled
  <2>2. ASSUME NEW o \in InFlight' PROVE Settled(seen[o])'
    <3>1. Settled(seen[o]) /\ seen[o] \in Seq(Messages)
      BY <1>1 DEF HistoriesSettled, ChatTypeOK, InFlight
    <3> QED
      BY <1>2, <3>1 DEF Settled
  <2> QED
    BY <2>1, <2>2 DEF HistoriesSettled, historyVars
<1>4. NothingForgotten'
  BY <1>1 DEF NothingForgotten, historyVars
<1> QED
  BY <1>3, <1>4

\* A message is taken up: it has seen the whole history, or it overlaps.
LEMMA ChatUserMessage ==
  ASSUME ChatInv, NEW m \in Messages, NEW s \in Sockets, UserMessage(m, s)
  PROVE  ChatInv'
<1> USE DEF ChatInv
<1>1. /\ pc[m] = "new" /\ pc' = [pc EXCEPT ![m] = "llm"] /\ sock' = [sock EXCEPT ![m] = s]
      /\ seen' = [seen EXCEPT ![m] = history[s]]
      /\ overlap' = [overlap EXCEPT ![s] = @ \/ \E o \in InFlight : sock[o] = s]
      /\ UNCHANGED <<history, answered, calls, called, moved, announced>>
  BY DEF UserMessage
<1>2. ChatTypeOK'
  <2>1. overlap' \in [Sockets -> BOOLEAN]
    BY <1>1 DEF ChatTypeOK
  <2> QED
    BY <1>1, <2>1 DEF ChatTypeOK
<1>3. InFlight' = InFlight \union {m} /\ m \notin InFlight
  BY <1>1 DEF InFlight, ChatTypeOK
<1>4. ASSUME NEW g \in Seq(Messages), Settled(g) PROVE Settled(g)'
  <2>1. \A i \in 1 .. Len(g) : g[i] \in Messages
    OBVIOUS
  <2> QED
    BY <1>1, <1>4, <2>1 DEF Settled, ChatTypeOK
<1>5. ASSUME NEW q \in Sockets PROVE Settled(history[q])'
  <2>1. Settled(history[q]) /\ history[q] \in Seq(Messages)
    BY DEF HistoriesSettled, ChatTypeOK
  <2> QED
    BY <1>1, <1>4, <2>1 DEF Settled
<1>6. ASSUME NEW o \in InFlight' PROVE Settled(seen[o])'
  <2>1. CASE o = m
    <3>1. seen'[o] = history'[s]
      BY <1>1, <2>1 DEF ChatTypeOK
    <3> QED
      BY <1>5, <3>1 DEF Settled
  <2>2. CASE o # m
    <3>1. Settled(seen[o]) /\ seen[o] \in Seq(Messages) /\ seen'[o] = seen[o]
      BY <1>1, <1>3, <2>2 DEF HistoriesSettled, ChatTypeOK, InFlight
    <3> QED
      BY <1>4, <3>1 DEF Settled
  <2> QED
    BY <2>1, <2>2
<1>7. HistoriesSettled'
  BY <1>1, <1>5, <1>6 DEF HistoriesSettled
<1>8. NothingForgotten'
  <2> SUFFICES ASSUME NEW q \in Sockets, ~overlap'[q]
               PROVE  /\ history[q] = answered[q]
                      /\ \A o \in InFlight' : sock'[o] = q => seen'[o] = history[q]
                      /\ \A o, p \in InFlight' : sock'[o] = q /\ sock'[p] = q => o = p
    BY <1>1 DEF NothingForgotten
  <2>1. ~overlap[q] /\ (q = s => \A o \in InFlight : sock[o] # s)
    BY <1>1 DEF ChatTypeOK
  <2>2. /\ history[q] = answered[q]
        /\ \A o \in InFlight : sock[o] = q => seen[o] = history[q]
        /\ \A o, p \in InFlight : sock[o] = q /\ sock[p] = q => o = p
    BY <2>1 DEF NothingForgotten
  <2>3. /\ sock'[m] = s /\ seen'[m] = history[s]
        /\ \A o \in InFlight : sock'[o] = sock[o] /\ seen'[o] = seen[o]
    BY <1>1, <1>3 DEF ChatTypeOK, InFlight
  <2> QED
    BY <1>3, <2>1, <2>2, <2>3
<1>9. CallsKnown'
  BY <1>1 DEF CallsKnown, ChatTypeOK
<1> QED
  BY <1>2, <1>7, <1>8, <1>9

\* Every step of the chat keeps the invariant.
LEMMA ChatNextInv == ChatInv /\ [Next]_vars => ChatInv'
<1> SUFFICES ASSUME ChatInv, [Next]_vars PROVE ChatInv'
  OBVIOUS
<1> USE DEF ChatInv
<1>1. CASE UNCHANGED <<historyVars, messageVars>>
  <2>1. ChatTypeOK' /\ CallsKnown'
    BY <1>1 DEF ChatTypeOK, CallsKnown, historyVars, messageVars
  <2>2. HistoriesSettled' /\ NothingForgotten'
    BY <1>1, ChatQuiet DEF messageVars
  <2> QED
    BY <2>1, <2>2
<1>2. ASSUME NEW m \in Messages, NEW s \in Sockets, SessionExpired(m, s) \/ Refused(m, s)
      PROVE  ChatInv'
  <2>1. /\ pc[m] = "new" /\ pc' = [pc EXCEPT ![m] = "done"] /\ sock' = [sock EXCEPT ![m] = s]
        /\ UNCHANGED <<historyVars, seen, calls, called, moved, announced>>
    BY <1>2 DEF SessionExpired, Refused
  <2>2. ChatTypeOK' /\ CallsKnown'
    BY <2>1 DEF ChatTypeOK, CallsKnown, historyVars
  <2>3. InFlight' = InFlight /\ \A o \in InFlight : sock'[o] = sock[o]
    BY <2>1 DEF InFlight, ChatTypeOK
  <2>4. ASSUME NEW g \in Seq(Messages), Settled(g) PROVE Settled(g)'
    <3>1. \A i \in 1 .. Len(g) : g[i] \in Messages
      OBVIOUS
    <3> QED
      BY <2>1, <2>4, <3>1 DEF Settled, ChatTypeOK
  <2>5. ASSUME NEW q \in Sockets PROVE Settled(history[q])'
    <3>1. Settled(history[q]) /\ history[q] \in Seq(Messages)
      BY DEF HistoriesSettled, ChatTypeOK
    <3> QED
      BY <2>1, <2>4, <3>1 DEF Settled, historyVars
  <2>6. ASSUME NEW o \in InFlight PROVE Settled(seen[o])'
    <3>1. Settled(seen[o]) /\ seen[o] \in Seq(Messages)
      BY DEF HistoriesSettled, ChatTypeOK, InFlight
    <3> QED
      BY <2>1, <2>4, <3>1 DEF Settled
  <2>7. HistoriesSettled'
    BY <2>1, <2>3, <2>5, <2>6 DEF HistoriesSettled, historyVars
  <2>8. NothingForgotten'
    BY <2>1, <2>3 DEF NothingForgotten, historyVars
  <2> QED
    BY <2>2, <2>7, <2>8
<1>3. ASSUME NEW m \in Messages, Answer(m) PROVE ChatInv'
  <2>1. /\ pc[m] = "llm" /\ pc' = [pc EXCEPT ![m] = "done"]
        /\ announced' = [announced EXCEPT ![m] = called[m]]
        /\ Remember(m) /\ UNCHANGED <<sock, seen, calls, called, moved>>
    BY <1>3 DEF Answer, Announce
  <2>2. /\ history' \in [Sockets -> Seq(Messages)] /\ answered' \in [Sockets -> Seq(Messages)]
        /\ overlap' = overlap /\ HistoriesSettled' /\ NothingForgotten'
    BY <2>1, ChatRemember
  <2>3. ChatTypeOK' /\ CallsKnown'
    BY <2>1, <2>2 DEF ChatTypeOK, CallsKnown
  <2> QED
    BY <2>2, <2>3
<1>4. ASSUME NEW m \in Messages, OpenAIFails(m) PROVE ChatInv'
  <2>1. /\ pc[m] = "llm" /\ pc' = [pc EXCEPT ![m] = "failed"]
        /\ Remember(m) /\ UNCHANGED <<sock, seen, calls, called, moved, announced>>
    BY <1>4 DEF OpenAIFails
  <2>2. /\ history' \in [Sockets -> Seq(Messages)] /\ answered' \in [Sockets -> Seq(Messages)]
        /\ overlap' = overlap /\ HistoriesSettled' /\ NothingForgotten'
    BY <2>1, ChatRemember
  <2>3. ChatTypeOK' /\ CallsKnown'
    BY <2>1, <2>2 DEF ChatTypeOK, CallsKnown
  <2> QED
    BY <2>2, <2>3
<1>5. ASSUME NEW m \in Messages, NEW tools \in SUBSET Tools, BadArguments(m, tools)
      PROVE  ChatInv'
  <2>1. /\ pc[m] = "llm" /\ pc' = [pc EXCEPT ![m] = "failed"]
        /\ calls' = [calls EXCEPT ![m] = tools \ {"bad"}]
        /\ called' = [called EXCEPT ![m] = @ \/ "transfer" \in tools]
        /\ Remember(m) /\ UNCHANGED <<sock, seen, moved, announced>>
    BY <1>5 DEF BadArguments
  <2>2. /\ history' \in [Sockets -> Seq(Messages)] /\ answered' \in [Sockets -> Seq(Messages)]
        /\ overlap' = overlap /\ HistoriesSettled' /\ NothingForgotten'
    BY <2>1, ChatRemember
  <2>3. called' \in [Messages -> BOOLEAN]
    BY <2>1 DEF ChatTypeOK
  <2>4. ChatTypeOK'
    BY <2>1, <2>2, <2>3 DEF ChatTypeOK
  <2>5. CallsKnown'
    BY <2>1 DEF ChatTypeOK, CallsKnown
  <2> QED
    BY <2>2, <2>4, <2>5
<1>6. ASSUME NEW m \in Messages, NEW tools \in SUBSET Tools, ToolCalls(m, tools)
      PROVE  ChatInv'
  <2>1. /\ pc[m] = "llm" /\ pc' = [pc EXCEPT ![m] = "tools"]
        /\ calls' = [calls EXCEPT ![m] = tools]
        /\ called' = [called EXCEPT ![m] = @ \/ "transfer" \in tools]
        /\ UNCHANGED <<historyVars, sock, seen, moved, announced>>
    BY <1>6 DEF ToolCalls
  <2>2. HistoriesSettled' /\ NothingForgotten'
    BY <2>1, ChatQuiet DEF ChatTypeOK
  <2>3. called' \in [Messages -> BOOLEAN]
    BY <2>1 DEF ChatTypeOK
  <2>4. ChatTypeOK'
    BY <2>1, <2>3 DEF ChatTypeOK, historyVars
  <2>5. CallsKnown'
    BY <2>1 DEF ChatTypeOK, CallsKnown
  <2> QED
    BY <2>2, <2>4, <2>5
<1>7. ASSUME NEW m \in Messages, NEW t \in Tools, NEW ok \in BOOLEAN, ToolReturns(m, t, ok)
      PROVE  ChatInv'
  <2>1. /\ t \in calls[m] /\ calls' = [calls EXCEPT ![m] = @ \ {t}]
        /\ moved' = [moved EXCEPT ![m] = @ \/ (t = "transfer" /\ ok)]
        /\ UNCHANGED <<historyVars, sock, seen, called, announced>>
        /\ \/ pc' = pc
           \/ pc[m] = "tools" /\ calls[m] = {t} /\ pc' = [pc EXCEPT ![m] = "llm"]
    BY <1>7 DEF ToolReturns, RoundOver
  <2>2. HistoriesSettled' /\ NothingForgotten'
    BY <2>1, ChatQuiet DEF ChatTypeOK
  <2>3. moved' \in [Messages -> BOOLEAN]
    BY <2>1 DEF ChatTypeOK
  <2>4. ChatTypeOK'
    BY <2>1, <2>3 DEF ChatTypeOK, historyVars
  <2>5. CallsKnown'
    BY <2>1 DEF ChatTypeOK, CallsKnown
  <2> QED
    BY <2>2, <2>4, <2>5
<1>8. ASSUME SocketStep \/ UNCHANGED vars PROVE UNCHANGED <<historyVars, messageVars>>
  BY <1>8 DEF SocketStep, DisconnectUser, Handshake, Connection, AuthenticationFails, Disconnect,
     ExpireToken, vars
<1> QED
  BY <1>1, <1>2, <1>3, <1>4, <1>5, <1>6, <1>7, <1>8, ChatUserMessage DEF Next, Process

\* While messages do not overlap the bot remembers all of them, it never
\* remembers one twice, and an answered message has no tool call left and
\* tells of the money it moved, for any number of sockets and messages (the
\* handler of user-message, processMessage and buildResponse).
THEOREM ChatAnswers == Spec => []AnswersComplete
<1>1. Init => ChatInv
  <2> SUFFICES ASSUME Init PROVE ChatInv
    OBVIOUS
  <2>1. SomeSocket \in Sockets
    BY ChatAssumption DEF SomeSocket
  <2>2. ChatTypeOK
    BY <2>1 DEF Init, ChatTypeOK
  <2>3. HistoriesSettled /\ NothingForgotten
    BY DEF Init, HistoriesSettled, Settled, NothingForgotten, InFlight
  <2>4. CallsKnown
    BY DEF Init, CallsKnown
  <2> QED
    BY <2>2, <2>3, <2>4 DEF ChatInv
<1>2. ChatInv => AnswersComplete
  <2> SUFFICES ASSUME ChatInv PROVE AnswersComplete
    OBVIOUS
  <2>1. ASSUME NEW s \in Sockets
        PROVE  /\ ~overlap[s] => history[s] = answered[s]
               /\ answered[s] # << >> => Last(history[s]) = Last(answered[s])
               /\ IsInjective(history[s])
    <3>1. history[s] \in Seq(Messages) /\ DOMAIN history[s] = 1 .. Len(history[s])
      BY DEF ChatInv, ChatTypeOK
    <3> QED
      BY <3>1 DEF ChatInv, HistoriesSettled, Settled, NothingForgotten, Last, IsInjective
  <2> QED
    BY <2>1 DEF ChatInv, CallsKnown, AnswersComplete
<1> QED
  BY <1>1, <1>2, ChatNextInv, PTL DEF Spec

-----------------------------------------------------------------------------
(* The rate limiter.                                                        *)

LimiterTypeOK ==
  /\ now \in Nat
  /\ counts \in [Keys -> [count : Nat, resetAt : Int]]
  /\ accepted \in [Keys -> Seq(Nat)]
  /\ refused \in [Keys -> SUBSET Nat]

\* Messages are let through in the order of the clock.
InOrder(a) ==
  /\ \A i \in 1 .. Len(a) : a[i] <= now
  /\ \A i, j \in 1 .. Len(a) : i <= j => a[i] <= a[j]

\* The last count messages are the ones of the current window, which began
\* with the first of them.  Those that came before the window in front of it,
\* more than max earlier, were over a window's length before it began.
Windowed(a, e) ==
  \/ Len(a) = 0 /\ e = NoEntry
  \/ /\ e.count \in 1 .. max /\ e.count <= Len(a)
     /\ e.resetAt = a[Len(a) - e.count + 1] + windowMs
     /\ \A i \in 1 .. Len(a) : i <= Len(a) - e.count - max =>
          a[i] + windowMs < a[Len(a) - e.count + 1]

\* A message and the one 2 * max later are more than a window apart.
Spread(a) ==
  \A i, j \in 1 .. Len(a) : j = i + 2 * max => a[i] + windowMs < a[j]

\* Before t, max messages in a row went through within a window's length.
HadMaximum(a, t) ==
  \E i, j \in 1 .. Len(a) : j = i + max - 1 /\ t - windowMs <= a[i] /\ a[j] <= t

LimiterInv ==
  /\ LimiterTypeOK
  /\ \A key \in Keys :
       /\ InOrder(accepted[key])
       /\ Windowed(accepted[key], counts[key])
       /\ Spread(accepted[key])
       /\ \A t \in refused[key] : HadMaximum(accepted[key], t)

\* A set of numbers that is not empty has a least one.
LEMMA LeastNat ==
  ASSUME NEW S \in SUBSET Nat, S # {}
  PROVE  \E m \in S : \A k \in S : m <= k
<1>1. \E m \in S : \A k \in S : ~(<<k, m>> \in OpToRel(<, Nat))
  BY WFMin, NatLessThanWellFounded, Zenon
<1>2. PICK m \in S : \A k \in S : ~(<<k, m>> \in OpToRel(<, Nat))
  BY <1>1
<1>3. \A k \in S : ~(k < m)
  BY <1>2 DEF OpToRel
<1> QED
  BY <1>3

\* A message is let through: what is said of the messages before it stays,
\* and the window it belongs to makes it far from the one 2 * max before.
LEMMA LimiterAppend ==
  ASSUME NEW a \in Seq(Nat), NEW e \in [count : Nat, resetAt : Int], now \in Nat,
         InOrder(a), Windowed(a, e), Spread(a),
         NEW f, NEW b, b = Append(a, now),
         \/ now > e.resetAt /\ f = [count |-> 1, resetAt |-> now + windowMs]
         \/ ~(now > e.resetAt) /\ ~(e.count >= max) /\ f = [e EXCEPT !.count = @ + 1]
  PROVE  /\ b \in Seq(Nat) /\ f \in [count : Nat, resetAt : Int]
         /\ InOrder(b) /\ Windowed(b, f) /\ Spread(b)
         /\ \A t : HadMaximum(a, t) => HadMaximum(b, t)
<1> DEFINE n == Len(a)
<1>a. /\ n \in Nat /\ b \in Seq(Nat) /\ Len(b) = n + 1 /\ b[n + 1] = now
      /\ \A i \in 1 .. n : b[i] = a[i] /\ a[i] \in Nat
  OBVIOUS
<1> HIDE DEF n
<1>0. n \in Nat /\ max \in Nat /\ max >= 1 /\ windowMs \in Nat /\ now \in Nat
  BY <1>a, RateLimiterAssumption
<1>1. /\ b \in Seq(Nat) /\ Len(b) = n + 1 /\ b[n + 1] = now
      /\ \A i \in 1 .. n : b[i] = a[i] /\ a[i] \in Nat
  BY <1>a
<1>2. \A i \in 1 .. n + 1 : i \in 1 .. n \/ i = n + 1
  BY <1>0
<1>3. \A i, j \in 1 .. n : i <= j => a[i] <= a[j]
  BY DEF InOrder, n
<1>4. \A i \in 1 .. n : a[i] <= now
  BY DEF InOrder, n
<1>5. InOrder(b)
  <2>1. \A i \in 1 .. n + 1 : b[i] <= now
    BY <1>0, <1>1, <1>2, <1>4
  <2>2. ASSUME NEW i \in 1 .. n + 1, NEW j \in 1 .. n + 1, i <= j PROVE b[i] <= b[j]
    <3>1. CASE j = n + 1
      BY <1>1, <2>1, <3>1
    <3>2. CASE j # n + 1
      <4>1. i \in 1 .. n /\ j \in 1 .. n
        BY <1>0, <2>2, <3>2
      <4> QED
        BY <1>1, <1>3, <2>2, <4>1
    <3> QED
      BY <3>1, <3>2
  <2> QED
    BY <1>1, <2>1, <2>2 DEF InOrder
<1>6. \A t : HadMaximum(a, t) => HadMaximum(b, t)
  BY <1>0, <1>1 DEF HadMaximum, n
<1>7. \A i, j \in 1 .. n : j = i + 2 * max => a[i] + windowMs < a[j]
  BY DEF Spread, n
<1>s. ASSUME \A i \in 1 .. n : i <= n + 1 - 2 * max => a[i] + windowMs < now
      PROVE  Spread(b)
  <2> SUFFICES ASSUME NEW i \in 1 .. n + 1, NEW j \in 1 .. n + 1, j = i + 2 * max
               PROVE  b[i] + windowMs < b[j]
    BY <1>1 DEF Spread
  <2>0. i \in 1 .. n /\ (j = n + 1 => i <= n + 1 - 2 * max)
    BY <1>0, SMTT(30)
  <2>1. CASE j \in 1 .. n
    BY <1>1, <1>7, <2>0, <2>1
  <2>2. CASE j = n + 1
    BY <1>1, <1>s, <2>0, <2>2
  <2> QED
    BY <1>2, <2>1, <2>2
<1>c. PICK c \in Nat, reset \in Int : c = e.count /\ reset = e.resetAt
  OBVIOUS
<1>w. ASSUME e # NoEntry
      PROVE  /\ 1 <= c /\ c <= max /\ c <= n /\ n - c + 1 \in 1 .. n
             /\ reset = a[n - c + 1] + windowMs
             /\ \A i \in 1 .. n : i <= n - c - max => a[i] + windowMs < a[n - c + 1]
  <2>1. /\ c \in 1 .. max /\ c <= n
        /\ reset = a[n - c + 1] + windowMs
        /\ \A i \in 1 .. n : i <= n - c - max => a[i] + windowMs < a[n - c + 1]
    BY <1>c, <1>w DEF Windowed, n
  <2>2. c \in Int /\ n \in Int /\ 1 <= c /\ c <= max
    BY <1>0, <2>1
  <2>3. \A x, y \in Int : 1 <= x /\ x <= y => y - x + 1 \in 1 .. y
    OBVIOUS
  <2>4. n - c + 1 \in 1 .. n
    BY <2>1, <2>2, <2>3, Zenon
  <2> QED
    BY <2>1, <2>2, <2>4, Zenon
<1>8. CASE now > e.resetAt /\ f = [count |-> 1, resetAt |-> now + windowMs]
  <2>1. ASSUME NEW i \in 1 .. n, i <= n - max PROVE a[i] + windowMs < now
    <3>1. e # NoEntry
      BY <1>0, <2>1 DEF Windowed, NoEntry, n
    <3>2. i <= n - c + 1
      BY <1>0, <1>w, <2>1, <3>1, SMTT(30)
    <3>3. a[i] <= a[n - c + 1] /\ a[i] \in Nat /\ a[n - c + 1] \in Nat
      BY <1>1, <1>3, <1>w, <3>1, <3>2
    <3>4. reset = a[n - c + 1] + windowMs /\ now > reset
      BY <1>8, <1>c, <1>w, <3>1
    <3>5. \A x, y \in Nat : x <= y /\ now > y + windowMs => x + windowMs < now
      BY <1>0, SMTT(30)
    <3>6. now > a[n - c + 1] + windowMs
      BY <3>4
    <3> QED
      BY <3>3, <3>5, <3>6, Zenon
  <2>2. f.count = 1 /\ f.resetAt = now + windowMs /\ f \in [count : Nat, resetAt : Int]
    BY <1>0, <1>8
  <2>3. Windowed(b, f)
    <3>1. Len(b) - f.count + 1 = n + 1 /\ f.count \in 1 .. max /\ f.count <= Len(b)
      BY <1>0, <1>1, <2>2, SMTT(30)
    <3>2. ASSUME NEW i \in 1 .. Len(b), i <= Len(b) - f.count - max
          PROVE  b[i] + windowMs < b[n + 1]
      <4>1. Len(b) = n + 1 /\ Len(b) - f.count - max = n - max
        BY <1>0, <1>1, <2>2, SMTT(30)
      <4>2. i \in 1 .. n /\ i <= n - max
        <5>1. i \in 1 .. n + 1
          BY <4>1
        <5>2. i <= n - max
          BY <3>2, <4>1
        <5> QED
          BY <1>0, <5>1, <5>2
      <4> QED
        BY <1>1, <2>1, <4>2
    <3>3. f.resetAt = b[n + 1] + windowMs
      BY <1>1, <2>2
    <3> QED
      BY <3>1, <3>2, <3>3 DEF Windowed
  <2>4. \A i \in 1 .. n : i <= n + 1 - 2 * max => i <= n - max
    BY <1>0, SMTT(30)
  <2>5. Spread(b)
    BY <1>s, <2>1, <2>4
  <2> QED
    BY <1>1, <1>5, <1>6, <2>2, <2>3, <2>5
<1>9. CASE ~(now > e.resetAt) /\ ~(e.count >= max) /\ f = [e EXCEPT !.count = @ + 1]
  <2>1. f.count = c + 1 /\ f.resetAt = reset /\ f \in [count : Nat, resetAt : Int]
    BY <1>9, <1>c
  <2>2. e # NoEntry
    BY <1>0, <1>9 DEF NoEntry
  <2>3. c < max /\ Len(b) - f.count + 1 = n - c + 1 /\ b[n - c + 1] = a[n - c + 1]
    <3>1. c < max
      BY <1>0, <1>9, <1>c
    <3>2. Len(b) - f.count + 1 = n - c + 1
      BY <1>0, <1>1, <2>1
    <3> QED
      BY <1>1, <1>w, <2>2, <3>1, <3>2
  <2>4. Windowed(b, f)
    <3>1. ASSUME NEW i \in 1 .. Len(b), i <= Len(b) - f.count - max
          PROVE  b[i] + windowMs < b[n - c + 1]
      <4>1. Len(b) = n + 1 /\ Len(b) - f.count - max = n - c - max
        BY <1>0, <1>1, <2>1
      <4>2. i \in 1 .. n /\ i <= n - c - max
        <5>1. i \in 1 .. n + 1
          BY <4>1
        <5>2. i <= n - c - max
          BY <3>1, <4>1
        <5> QED
          BY <1>0, <5>1, <5>2
      <4> QED
        BY <1>1, <1>w, <2>2, <2>3, <4>2
    <3>2. f.count \in 1 .. max /\ f.count <= Len(b)
      <4>1. c <= n /\ c < max
        BY <1>w, <2>2, <2>3
      <4>2. c + 1 \in 1 .. max /\ c + 1 <= n + 1
        BY <1>0, <4>1
      <4> QED
        BY <1>1, <2>1, <4>2
    <3>3. f.resetAt = b[n - c + 1] + windowMs
      BY <1>w, <2>1, <2>2, <2>3
    <3> QED
      BY <2>3, <3>1, <3>2, <3>3 DEF Windowed
  <2>5. ASSUME NEW i \in 1 .. n, i <= n + 1 - 2 * max PROVE a[i] + windowMs < now
    <3>1. i <= n - c - max
      <4>1. \A x, y, z, w \in Int : w < z /\ x <= y + 1 - 2 * z => x <= y - w - z
        BY SMTT(30)
      <4>2. i \in Int /\ n \in Int /\ max \in Int /\ c \in Int
        BY <1>0
      <4> QED
        BY <2>3, <2>5, <4>1, <4>2, Zenon
    <3>2. a[i] + windowMs < a[n - c + 1] /\ a[n - c + 1] <= now
      BY <1>4, <1>w, <2>2, <3>1
    <3>3. a[i] \in Nat /\ a[n - c + 1] \in Nat
      BY <1>1, <1>w, <2>2
    <3>4. \A x, y \in Nat : x + windowMs < y /\ y <= now => x + windowMs < now
      BY <1>0
    <3> QED
      BY <3>2, <3>3, <3>4, Zenon
  <2>6. Spread(b)
    BY <1>s, <2>5
  <2> QED
    BY <1>1, <1>5, <1>6, <2>1, <2>4, <2>6
<1> QED
  BY <1>8, <1>9

\* Every step of the limiter keeps the invariant.
LEMMA LimiterNextInv == LimiterInv /\ [LimiterNext]_limiterVars => LimiterInv'
<1> SUFFICES ASSUME LimiterInv, [LimiterNext]_limiterVars PROVE LimiterInv'
  OBVIOUS
<1> USE RateLimiterAssumption DEF LimiterInv
<1>1. CASE Tick
  <2>1. LimiterTypeOK' /\ UNCHANGED <<counts, accepted, refused>>
    BY <1>1 DEF Tick, LimiterTypeOK
  <2>2. ASSUME NEW key \in Keys PROVE InOrder(accepted[key])'
    <3>1. \A i \in 1 .. Len(accepted[key]) : accepted[key][i] \in Nat
      BY DEF LimiterTypeOK
    <3> QED
      BY <1>1, <2>1, <3>1 DEF InOrder, Tick, LimiterTypeOK
  <2>3. ASSUME NEW key \in Keys
        PROVE  /\ Windowed(accepted[key], counts[key])' /\ Spread(accepted[key])'
               /\ \A t \in refused'[key] : HadMaximum(accepted[key]', t)
    BY <2>1 DEF Windowed, Spread, HadMaximum
  <2> QED
    BY <2>1, <2>2, <2>3 DEF HadMaximum
<1>2. ASSUME NEW key \in Keys, AllowFirst(key) \/ AllowNext(key) PROVE LimiterInv'
  <2> DEFINE a == accepted[key]
             e == counts[key]
             b == accepted'[key]
             f == counts'[key]
  <2>1. a \in Seq(Nat) /\ e \in [count : Nat, resetAt : Int] /\ now \in Nat
    BY DEF LimiterTypeOK
  <2>2. /\ accepted' = [accepted EXCEPT ![key] = Append(@, now)] /\ UNCHANGED <<now, refused>>
        /\ b = Append(a, now)
        /\ \A k \in Keys \ {key} : accepted'[k] = accepted[k] /\ counts'[k] = counts[k]
        /\ counts' = [counts EXCEPT ![key] = f]
    BY <1>2 DEF AllowFirst, AllowNext, Count, LimiterTypeOK
  <2>3. \/ now > e.resetAt /\ f = [count |-> 1, resetAt |-> now + windowMs]
        \/ ~(now > e.resetAt) /\ ~(e.count >= max) /\ f = [e EXCEPT !.count = @ + 1]
    BY <1>2 DEF AllowFirst, AllowNext, Count, Over, Full, LimiterTypeOK
  <2>4. InOrder(a) /\ Windowed(a, e) /\ Spread(a)
    OBVIOUS
  <2>5. \A t \in refused[key] : HadMaximum(a, t)
    OBVIOUS
  <2> HIDE DEF a, b, e, f
  <2>6. /\ b \in Seq(Nat) /\ f \in [count : Nat, resetAt : Int]
        /\ InOrder(b) /\ Windowed(b, f) /\ Spread(b)
        /\ \A t : HadMaximum(a, t) => HadMaximum(b, t)
    BY <2>1, <2>2, <2>3, <2>4, LimiterAppend
  <2>7. LimiterTypeOK'
    BY <2>1, <2>2, <2>6 DEF LimiterTypeOK, b
  <2>8. ASSUME NEW k \in Keys
        PROVE  /\ InOrder(accepted[k])' /\ Windowed(accepted[k], counts[k])' /\ Spread(accepted[k])'
               /\ \A t \in refused'[k] : HadMaximum(accepted'[k], t)
    <3>1. CASE k = key
      <4>1. accepted'[k] = b /\ counts'[k] = f /\ now' = now /\ refused'[k] = refused[key]
        BY <2>2, <3>1 DEF b, f
      <4>2. InOrder(accepted[k])'
        BY <2>6, <4>1 DEF InOrder
      <4>3. Windowed(accepted[k], counts[k])'
        BY <2>6, <4>1 DEF Windowed
      <4>4. Spread(accepted[k])'
        BY <2>6, <4>1 DEF Spread
      <4>5. \A t \in refused'[k] : HadMaximum(accepted'[k], t)
        BY <2>5, <2>6, <4>1
      <4> QED
        BY <4>2, <4>3, <4>4, <4>5
    <3>2. CASE k # key
      BY <2>2, <3>2 DEF InOrder, Windowed, Spread
    <3> QED
      BY <3>1, <3>2
  <2> QED
    BY <2>7, <2>8 DEF HadMaximum
<1>3. ASSUME NEW key \in Keys, Refuse(key) PROVE LimiterInv'
  <2>1. UNCHANGED <<now, counts, accepted>>
    BY <1>3 DEF Refuse
  <2>2. LimiterTypeOK'
    BY <1>3 DEF Refuse, LimiterTypeOK
  <2>3. HadMaximum(accepted[key], now)
    <3> DEFINE a == accepted[key]
               e == counts[key]
    <3>1. a \in Seq(Nat) /\ e.count \in Nat /\ e.resetAt \in Int /\ now \in Nat
      BY DEF LimiterTypeOK
    <3>2. now <= e.resetAt /\ e.count >= max
      BY <1>3, <3>1 DEF Refuse, Over, Full
    <3>3. e # NoEntry
      BY <3>1, <3>2 DEF NoEntry
    <3> HIDE DEF a, e
    <3>w. Windowed(a, e) /\ InOrder(a)
      BY DEF a, e
    <3>4. /\ e.count = max /\ max <= Len(a) /\ e.resetAt = a[Len(a) - max + 1] + windowMs
      <4>1. e.count \in 1 .. max /\ e.count <= Len(a)
            /\ e.resetAt = a[Len(a) - e.count + 1] + windowMs
        BY <3>3, <3>w DEF Windowed
      <4>2. e.count = max
        BY <3>1, <3>2, <4>1
      <4> QED
        BY <4>1, <4>2
    <3>5. Len(a) - max + 1 \in 1 .. Len(a) /\ Len(a) \in 1 .. Len(a)
      BY <3>1, <3>4
    <3>6. a[Len(a)] <= now /\ a[Len(a) - max + 1] \in Nat
      BY <3>1, <3>5, <3>w DEF InOrder
    <3>7. Len(a) = (Len(a) - max + 1) + max - 1 /\ now - windowMs <= a[Len(a) - max + 1]
      <4>1. \A x, y \in Int : x = (x - y + 1) + y - 1
        OBVIOUS
      <4>2. \A x, y, z, u \in Int : x <= y /\ y = z + u => x - u <= z
        OBVIOUS
      <4>3. /\ Len(a) \in Int /\ max \in Int /\ now \in Int /\ windowMs \in Int /\ e.resetAt \in Int
            /\ a[Len(a) - max + 1] \in Int
        BY <3>1, <3>6
      <4> QED
        BY <3>2, <3>4, <4>1, <4>2, <4>3, Zenon
    <3>8. HadMaximum(a, now)
      BY <3>5, <3>6, <3>7 DEF HadMaximum
    <3> QED
      BY <3>8 DEF a
  <2>4. ASSUME NEW k \in Keys, NEW t \in refused'[k] PROVE HadMaximum(accepted[k], t)
    BY <1>3, <2>3, <2>4 DEF Refuse, LimiterTypeOK
  <2> QED
    BY <2>1, <2>2, <2>4 DEF InOrder, Windowed, Spread, HadMaximum
<1>4. CASE UNCHANGED limiterVars
  BY <1>4 DEF limiterVars, LimiterTypeOK, InOrder, Windowed, Spread, HadMaximum
<1> QED
  BY <1>1, <1>2, <1>3, <1>4 DEF LimiterNext

\* The invariant bounds what any span of time lets through: the messages in it
\* lie among 2 * max in a row.
LEMMA LimiterBounds == LimiterInv => LimitHolds
<1> SUFFICES ASSUME LimiterInv, NEW key \in Keys
             PROVE  /\ \A t \in 0 .. MaxNow : Cardinality(Between(key, t, t + windowMs)) <= 2 * max
                    /\ \A t \in refused[key] : Cardinality(Between(key, t - windowMs, t)) >= max
  BY DEF LimitHolds
<1> USE RateLimiterAssumption
<1> DEFINE a == accepted[key]
<1>1. a \in Seq(Nat) /\ Len(a) \in Nat /\ \A i \in 1 .. Len(a) : a[i] \in Nat
  BY DEF LimiterInv, LimiterTypeOK
<1>2. InOrder(a) /\ Spread(a) /\ \A t \in refused[key] : HadMaximum(a, t)
  BY DEF LimiterInv
<1>3. \A t \in refused[key] : t \in Nat
  BY DEF LimiterInv, LimiterTypeOK
<1>4. ASSUME NEW from \in Int, NEW to \in Int
      PROVE  /\ Between(key, from, to) = {i \in 1 .. Len(a) : from <= a[i] /\ a[i] <= to}
             /\ IsFiniteSet(Between(key, from, to))
             /\ Cardinality(Between(key, from, to)) \in Nat
  <2>1. Between(key, from, to) = {i \in 1 .. Len(a) : from <= a[i] /\ a[i] <= to}
    BY DEF Between
  <2>2. IsFiniteSet(1 .. Len(a))
    <3>1. ASSUME NEW k \in Nat PROVE IsFiniteSet(1 .. k)
      BY FS_Interval
    <3> QED
      BY <1>1, <3>1
  <2>3. IsFiniteSet(Between(key, from, to))
    BY <2>1, <2>2, FS_Subset
  <2> QED
    BY <2>1, <2>3, FS_CardinalityType
<1> HIDE DEF a
<1>5. ASSUME NEW t \in 0 .. MaxNow
      PROVE  Cardinality(Between(key, t, t + windowMs)) <= 2 * max
  <2> DEFINE S == Between(key, t, t + windowMs)
  <2>1. S = {i \in 1 .. Len(a) : t <= a[i] /\ a[i] <= t + windowMs} /\ IsFiniteSet(S)
    <3>1. t \in Int /\ t + windowMs \in Int
      OBVIOUS
    <3> QED
      BY <1>4, <3>1
  <2> HIDE DEF S
  <2>2. CASE S = {}
    <3>1. Cardinality(S) = 0
      BY <2>2, FS_EmptySet, Zenon
    <3> QED
      BY <3>1 DEF S
  <2>3. CASE S # {}
    <3>1. PICK m \in S : \A k \in S : m <= k
      <4>1. S \in SUBSET Nat
        BY <1>1, <2>1
      <4> QED
        BY <2>3, <4>1, LeastNat
    <3>2. ASSUME NEW k \in S PROVE k \in m .. m + 2 * max - 1
      <4>1. m \in 1 .. Len(a) /\ k \in 1 .. Len(a) /\ m <= k
        BY <2>1, <3>1
      <4>2. t <= a[m] /\ a[k] <= t + windowMs
        BY <2>1, <3>1
      <4>3. ASSUME k >= m + 2 * max PROVE FALSE
        <5>1. m + 2 * max \in 1 .. Len(a)
          BY <1>1, <4>1, <4>3
        <5>2. a[m] + windowMs < a[m + 2 * max]
          BY <1>2, <4>1, <5>1 DEF Spread
        <5>3. a[m + 2 * max] <= a[k]
          BY <1>2, <4>1, <4>3, <5>1 DEF InOrder
        <5>4. \A x, y, z, u, w \in Int : ~(x + w < y /\ y <= z /\ u <= x /\ z <= u + w)
          OBVIOUS
        <5>5. a[m] \in Int /\ a[m + 2 * max] \in Int /\ a[k] \in Int /\ t \in Int /\ windowMs \in Int
          BY <1>1, <4>1, <5>1
        <5> QED
          BY <4>2, <5>2, <5>3, <5>4, <5>5, Zenon
      <4> QED
        BY <1>1, <4>1, <4>3
    <3>3. m \in Int /\ m + 2 * max - 1 \in Int
      BY <1>1, <2>1, <3>1
    <3>4. IsFiniteSet(m .. m + 2 * max - 1) /\ Cardinality(m .. m + 2 * max - 1) = 2 * max
      <4>1. ASSUME NEW p \in Int, NEW q \in Int, p <= q
            PROVE  IsFiniteSet(p .. q) /\ Cardinality(p .. q) = q - p + 1
        BY <4>1, FS_Interval
      <4>2. m <= m + 2 * max - 1 /\ (m + 2 * max - 1) - m + 1 = 2 * max
        BY <3>3
      <4> QED
        BY <3>3, <4>1, <4>2
    <3>5. S \in SUBSET (m .. m + 2 * max - 1)
      BY <3>2
    <3>6. Cardinality(S) <= Cardinality(m .. m + 2 * max - 1)
      BY <3>4, <3>5, FS_Subset
    <3> QED
      BY <3>4, <3>6 DEF S
  <2> QED
    BY <2>2, <2>3
<1>6. ASSUME NEW t \in refused[key]
      PROVE  Cardinality(Between(key, t - windowMs, t)) >= max
  <2> DEFINE S == Between(key, t - windowMs, t)
  <2>1. t \in Int /\ t - windowMs \in Int
    BY <1>3
  <2>2. /\ S = {i \in 1 .. Len(a) : t - windowMs <= a[i] /\ a[i] <= t}
        /\ IsFiniteSet(S) /\ Cardinality(S) \in Nat
    BY <1>4, <2>1
  <2> HIDE DEF S
  <2>3. PICK i, j \in 1 .. Len(a) : j = i + max - 1 /\ t - windowMs <= a[i] /\ a[j] <= t
    BY <1>2 DEF HadMaximum
  <2>4. ASSUME NEW k \in i .. j PROVE k \in S
    <3>1. k \in 1 .. Len(a)
      BY <1>1
    <3>2. a[i] <= a[k] /\ a[k] <= a[j]
      BY <1>2, <3>1 DEF InOrder
    <3>3. \A x, y, z, u \in Int : u <= x /\ x <= y => u <= y
      OBVIOUS
    <3>4. a[i] \in Int /\ a[j] \in Int /\ a[k] \in Int
      BY <1>1, <3>1
    <3>5. t - windowMs <= a[k] /\ a[k] <= t
      BY <2>1, <2>3, <3>2, <3>3, <3>4, Zenon
    <3> QED
      BY <2>2, <3>1, <3>5
  <2>5. Cardinality(i .. j) = max
    <3>1. ASSUME NEW p \in Int, NEW q \in Int, p <= q
          PROVE  Cardinality(p .. q) = q - p + 1
      BY <3>1, FS_Interval
    <3>2. i \in Int /\ j \in Int /\ i <= j /\ j - i + 1 = max
      BY <2>3
    <3> QED
      BY <3>1, <3>2
  <2>6. i .. j \in SUBSET S
    BY <2>4
  <2>7. Cardinality(i .. j) <= Cardinality(S)
    BY <2>2, <2>6, FS_Subset
  <2> QED
    BY <2>2, <2>5, <2>7 DEF S
<1> QED
  BY <1>5, <1>6

\* No span of the window's length lets more than twice the maximum through,
\* and whoever is refused has had the maximum, for any users, window and
\* maximum and however the calls fall (allow of class RateLimiter).
THEOREM LimitAlways == LimiterSpec => []LimitHolds
<1>1. LimiterInit => LimiterInv
  BY RateLimiterAssumption DEF LimiterInit, LimiterInv, LimiterTypeOK, InOrder, Windowed, Spread,
     HadMaximum, NoEntry
<1> QED
  BY <1>1, LimiterNextInv, LimiterBounds, PTL DEF LimiterSpec

=============================================================================
