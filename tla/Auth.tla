-------------------------------- MODULE Auth ---------------------------------
(***************************************************************************)
(* Signup, e-mail verification and the two-step login of the bank server   *)
(* (auth.controller.js, user.service.js), for one e-mail address.          *)
(*                                                                         *)
(* Node runs one handler at a time and switches at every await, so a step  *)
(* is what happens between two awaits: one operation on the user's         *)
(* document, with what the handler had read before.  A request reads the   *)
(* document, waits for bcrypt, and writes; other requests for the same     *)
(* user come in between.  Codes and tokens are numbered in the order in    *)
(* which they are generated; a hash stands for the value it is made from.  *)
(***************************************************************************)
EXTENDS Integers, FiniteSets

CONSTANTS
  Requests,          \* requests in flight at once
  MAX_OTP_ATTEMPTS,
  MaxCodes,          \* bound on the codes generated
  MaxTokens          \* bound on the verification tokens generated

ASSUME AuthAssumption ==
  /\ IsFiniteSet(Requests) /\ Requests # {}
  /\ MAX_OTP_ATTEMPTS \in Nat \ {0}
  /\ MaxCodes \in Nat /\ MaxTokens \in Nat

VARIABLES
  status,             \* none, PENDING or ACTIVE
  verificationToken,  \* 0 if unset
  otpHash,            \* the code that is stored, 0 if unset
  expired,            \* has otpExpiry passed?
  otpAttempts,
  codes, tokens,      \* how many have been generated
  reqAt,              \* the next write of each request: none, saveToken, saveOtp, miss
                      \* or accept
  user,               \* what its findOne returned: code and attempts
  misses,             \* misses counted against the code that is stored
  logins              \* how often each code has logged somebody in

authVars == <<status, verificationToken, otpHash, expired, otpAttempts, codes,
              tokens, reqAt, user, misses, logins>>
otpVars == <<otpHash, expired, otpAttempts, codes, misses, logins>>
signupVars == <<status, verificationToken, tokens>>

NoUser == [otpHash |-> 0, otpAttempts |-> 0]

Goto(r, next) == reqAt' = [reqAt EXCEPT ![r] = next]

-----------------------------------------------------------------------------
(* Signup and verification.                                                 *)

\* signup: the unique index on email lets one insert succeed; a duplicate is
\* answered in the same way and changes nothing.
CreateUser(r) ==
  /\ reqAt[r] = "none"
  /\ status = "none" /\ tokens < MaxTokens
  /\ status' = "PENDING"
  /\ tokens' = tokens + 1
  /\ verificationToken' = tokens + 1
  /\ UNCHANGED <<otpVars, reqAt, user>>

\* verifyEmail: the token and the status are checked by the update itself.
FindAndVerifyUserByToken(t) ==
  /\ status = "PENDING" /\ verificationToken = t
  /\ status' = "ACTIVE"
  /\ verificationToken' = 0
  /\ UNCHANGED <<tokens, otpVars, reqAt, user>>

\* resendVerification finds the pending user ...
RegenerateFind(r) ==
  /\ reqAt[r] = "none"
  /\ status = "PENDING" /\ tokens < MaxTokens
  /\ Goto(r, "saveToken")
  /\ UNCHANGED <<signupVars, otpVars, user>>

\* Mutant: the whole document that was read is written back.
MutRegenerateSave(r) ==
  /\ reqAt[r] = "saveToken" /\ tokens < MaxTokens
  /\ tokens' = tokens + 1
  /\ verificationToken' = tokens + 1
  /\ status' = "PENDING"
  /\ Goto(r, "none")
  /\ UNCHANGED <<otpVars, user>>

\* ... and saves it: save() writes the path that was changed, the token.
RegenerateSave(r) ==
  /\ reqAt[r] = "saveToken" /\ tokens < MaxTokens
  /\ tokens' = tokens + 1
  /\ verificationToken' = tokens + 1
  /\ Goto(r, "none")
  /\ UNCHANGED <<status, otpVars, user>>

-----------------------------------------------------------------------------
(* Login.                                                                   *)

\* login with the right password, or resendOtp, for an active user.
IssueOtp(r) ==
  /\ reqAt[r] = "none"
  /\ status = "ACTIVE"
  /\ Goto(r, "saveOtp")
  /\ UNCHANGED <<signupVars, otpVars, user>>

\* saveOtp, after bcrypt.hash: a new code, its expiry and a counter of zero.
SaveOtp(r) ==
  /\ reqAt[r] = "saveOtp" /\ codes < MaxCodes
  /\ codes' = codes + 1
  /\ otpHash' = codes + 1
  /\ expired' = FALSE
  /\ otpAttempts' = 0
  /\ misses' = 0
  /\ Goto(r, "none")
  /\ UNCHANGED <<signupVars, logins, user>>

\* verifyOtp: find the user, check attempts and expiry of what was found, and
\* compare the submitted code, one that was mailed or any other, with it.
VerifyOtpFind(r, otp) ==
  /\ reqAt[r] = "none"
  /\ status = "ACTIVE"
  /\ otpAttempts < MAX_OTP_ATTEMPTS
  /\ otpHash # 0 /\ ~expired
  /\ user' = [user EXCEPT ![r] = [otpHash |-> otpHash, otpAttempts |-> otpAttempts]]
  /\ Goto(r, IF otp = otpHash THEN "accept" ELSE "miss")
  /\ UNCHANGED <<signupVars, otpVars>>

\* Mutant: the counter is written from the value that was read.
MutVerifyOtpMiss(r) ==
  /\ reqAt[r] = "miss"
  /\ otpAttempts' = user[r].otpAttempts + 1
  /\ misses' = IF user[r].otpHash = otpHash THEN misses + 1 ELSE misses
  /\ user' = [user EXCEPT ![r] = NoUser]
  /\ Goto(r, "none")
  /\ UNCHANGED <<signupVars, otpHash, expired, codes, logins>>

\* The code was wrong: $inc in the database.
VerifyOtpMiss(r) ==
  /\ reqAt[r] = "miss"
  /\ otpAttempts' = otpAttempts + 1
  /\ misses' = IF user[r].otpHash = otpHash THEN misses + 1 ELSE misses
  /\ user' = [user EXCEPT ![r] = NoUser]
  /\ Goto(r, "none")
  /\ UNCHANGED <<signupVars, otpHash, expired, codes, logins>>

\* Mutant: the code stays valid until it expires.
MutVerifyOtpAccept(r) ==
  /\ reqAt[r] = "accept"
  /\ otpAttempts' = 0
  /\ misses' = 0
  /\ logins' = [logins EXCEPT ![user[r].otpHash] = @ + 1]
  /\ user' = [user EXCEPT ![r] = NoUser]
  /\ Goto(r, "none")
  /\ UNCHANGED <<signupVars, otpHash, expired, codes>>

\* The code was right: it is unset, whatever is stored by now, the counter is
\* reset and the session token is handed out.
VerifyOtpAccept(r) ==
  /\ reqAt[r] = "accept"
  /\ otpHash' = 0
  /\ expired' = FALSE
  /\ otpAttempts' = 0
  /\ misses' = 0
  /\ logins' = [logins EXCEPT ![user[r].otpHash] = @ + 1]
  /\ user' = [user EXCEPT ![r] = NoUser]
  /\ Goto(r, "none")
  /\ UNCHANGED <<signupVars, codes>>

\* OTP_EXPIRY_MS pass.
Expire ==
  /\ otpHash # 0 /\ ~expired
  /\ expired' = TRUE
  /\ UNCHANGED <<signupVars, otpHash, otpAttempts, codes, misses, logins, reqAt, user>>

-----------------------------------------------------------------------------
AuthInit ==
  /\ status = "none" /\ verificationToken = 0
  /\ otpHash = 0 /\ expired = FALSE /\ otpAttempts = 0
  /\ codes = 0 /\ tokens = 0
  /\ reqAt = [r \in Requests |-> "none"]
  /\ user = [r \in Requests |-> NoUser]
  /\ misses = 0
  /\ logins = [c \in 1 .. MaxCodes |-> 0]

AuthNext ==
  \/ \E t \in 1 .. tokens : FindAndVerifyUserByToken(t)
  \/ Expire
  \/ \E r \in Requests :
       \/ CreateUser(r)
       \/ RegenerateFind(r)
       \/ RegenerateSave(r)
       \/ IssueOtp(r)
       \/ SaveOtp(r)
       \/ \E otp \in 0 .. codes : VerifyOtpFind(r, otp)
       \/ VerifyOtpMiss(r)
       \/ VerifyOtpAccept(r)

AuthSpec == AuthInit /\ [][AuthNext]_authVars

-----------------------------------------------------------------------------
(* Properties.                                                              *)

\* A verified account stays verified, also when a resend that had found it
\* pending saves it afterwards.
StaysActive == [][status = "ACTIVE" => status' = "ACTIVE"]_authVars

\* The counter is never behind: every miss against the stored code has been
\* counted, however the requests overlap.  So a code is locked after at most
\* MAX_OTP_ATTEMPTS misses and the ones that were already under way.
MissesCounted ==
  /\ otpHash # 0 => misses <= otpAttempts
  /\ misses < MAX_OTP_ATTEMPTS + Cardinality(Requests)

\* A code that has logged somebody in is dead for every request that comes
\* later: it can be accepted again only by requests that were under way.
CodeDies ==
  \A c \in 1 .. codes :
    logins[c] > 0 =>
      /\ otpHash # c
      /\ logins[c] + Cardinality({r \in Requests : reqAt[r] = "accept" /\ user[r].otpHash = c})
           <= Cardinality(Requests)

=============================================================================
