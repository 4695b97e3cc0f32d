------------------------------ MODULE Transfer -------------------------------
(***************************************************************************)
(* executeTransfer of the bank server (transaction.service.js): deduct,    *)
(* credit, take the next id from the counter and insert the ledger row, in *)
(* one MongoDB transaction per request.  Every await is a point where the  *)
(* steps of other requests, a failing call or the end of the server        *)
(* process may come in.                                                    *)
(*                                                                         *)
(* MongoDB is external and modelled by what a transaction does: it reads   *)
(* the snapshot of its first operation, keeps its writes to itself, and a  *)
(* write to a document that another open transaction wrote, or that was    *)
(* committed after the snapshot, fails at once with a write conflict.      *)
(***************************************************************************)
EXTENDS Integers, FiniteSets

CONSTANTS
  Users,          \* ACTIVE users, by email
  Unknown,        \* an email nobody has registered
  Requests,       \* transfer requests: POST /transactions or the chat's tool
  InitialBalance, \* DEFAULT_BALANCE
  Amounts,        \* amounts asked for
  MaxAmount,      \* MAX_AMOUNT, in units of MIN_AMOUNT
  Counter,        \* the document of the Counter collection
  MaxFaults       \* bound on failing calls and server crashes

ASSUME TransferAssumption ==
  /\ Users # {}
  /\ Unknown \notin Users
  /\ Counter \notin Users
  /\ InitialBalance \in Nat
  /\ Amounts \subseteq Int /\ Amounts # {}
  /\ MaxAmount \in Nat
  /\ MaxFaults \in Nat

VARIABLES
  balance,  \* committed balances
  seq,      \* committed value of the counter
  ledger,   \* committed rows [id, from, to, amount]
  pc,       \* the next await of each request, or its outcome
  req,      \* its arguments
  written,  \* the documents its open transaction has written
  nextId,   \* the id it got from the counter; 0 if none
  stale,    \* documents committed by others since its snapshot
  faults

vars == <<balance, seq, ledger, pc, req, written, nextId, stale, faults>>
dbVars == <<balance, seq, ledger>>

\* new: not sent; deduct ... commit: that await is next, the session is open;
\* abort: in the catch block; ok: 201 answered; error: an error answered;
\* lost: the server died before it answered.
Open == {"deduct", "credit", "nextId", "insert", "commit", "abort"}
PCs  == Open \union {"new", "ok", "error", "lost"}
Args == [from : Users, to : Users \union {Unknown}, amount : Amounts]
Docs == Users \union {Counter}

Row(r) == [id |-> nextId[r], from |-> req[r].from, to |-> req[r].to,
           amount |-> req[r].amount]

\* The row of the request is in the ledger.
Committed(r) == nextId[r] # 0 /\ Row(r) \in ledger

-----------------------------------------------------------------------------
(* MongoDB.                                                                 *)

Conflict(r, d) ==
  \/ d \in stale[r]
  \/ \E q \in Requests \ {r} : d \in written[q]

\* The transaction's write of d succeeds and the request goes on at next, or
\* it meets a conflict and findOneAndUpdate throws.
Write(r, d, next) ==
  IF Conflict(r, d)
  THEN pc' = [pc EXCEPT ![r] = "abort"] /\ UNCHANGED written
  ELSE /\ pc' = [pc EXCEPT ![r] = next]
       /\ written' = [written EXCEPT ![r] = @ \union {d}]

\* The transaction's writes become visible, all at once.
Apply(r) ==
  /\ balance' = [balance EXCEPT ![req[r].from] = @ - req[r].amount,
                                ![req[r].to] = @ + req[r].amount]
  /\ seq' = nextId[r]
  /\ ledger' = ledger \union {Row(r)}
  /\ stale' = [q \in Requests |->
                 IF q # r /\ pc[q] \in Open \ {"deduct"}
                 THEN stale[q] \union written[r] ELSE stale[q]]

\* The transaction ends, committed or not, and its locks are gone.
Release(r) == written' = [written EXCEPT ![r] = {}]

-----------------------------------------------------------------------------
(* executeTransfer.                                                         *)

IsValidAmount(a) == 1 <= a /\ a <= MaxAmount

\* The two addresses are equal as text.  A receiver typed with blanks around the
\* address is not, although the query, which trims, finds the same user.
SameAddress(args, padded) == args.from = args.to /\ ~padded

\* The checks before the session is started.
Reject(r, args, padded) ==
  /\ pc[r] = "new"
  /\ ~IsValidAmount(args.amount) \/ SameAddress(args, padded)
  /\ req' = [req EXCEPT ![r] = args]
  /\ pc' = [pc EXCEPT ![r] = "error"]
  /\ UNCHANGED <<dbVars, written, nextId, stale, faults>>

\* startSession and startTransaction; the snapshot is taken by the first
\* operation.
Start(r, args, padded) ==
  /\ pc[r] = "new"
  /\ IsValidAmount(args.amount) /\ ~SameAddress(args, padded)
  /\ req' = [req EXCEPT ![r] = args]
  /\ pc' = [pc EXCEPT ![r] = "deduct"]
  /\ UNCHANGED <<dbVars, written, nextId, stale, faults>>

\* deductSenderBalance: the filter and the update are one operation.
DeductSenderBalance(r) ==
  /\ pc[r] = "deduct"
  /\ IF balance[req[r].from] >= req[r].amount
     THEN Write(r, req[r].from, "credit")
     ELSE pc' = [pc EXCEPT ![r] = "abort"] /\ UNCHANGED written
  /\ UNCHANGED <<dbVars, req, nextId, stale, faults>>

\* addReceiverBalance: an unknown receiver throws.
AddReceiverBalance(r) ==
  /\ pc[r] = "credit"
  /\ IF req[r].to \in Users
     THEN Write(r, req[r].to, "nextId")
     ELSE pc' = [pc EXCEPT ![r] = "abort"] /\ UNCHANGED written
  /\ UNCHANGED <<dbVars, req, nextId, stale, faults>>

\* Mutant: the counter is increased outside of the session.
MutGetNextTransactionId(r) ==
  /\ pc[r] = "nextId"
  /\ pc' = [pc EXCEPT ![r] = "insert"]
  /\ seq' = seq + 1
  /\ nextId' = [nextId EXCEPT ![r] = seq + 1]
  /\ UNCHANGED <<balance, ledger, written, req, stale, faults>>

\* getNextTransactionId within the session.
GetNextTransactionId(r) ==
  /\ pc[r] = "nextId"
  /\ Write(r, Counter, "insert")
  /\ nextId' = IF Conflict(r, Counter) THEN nextId ELSE [nextId EXCEPT ![r] = seq + 1]
  /\ UNCHANGED <<dbVars, req, stale, faults>>

\* Mutant: the row is inserted outside of the session.
MutCreateTransactionRecord(r) ==
  /\ pc[r] = "insert"
  /\ pc' = [pc EXCEPT ![r] = "commit"]
  /\ ledger' = ledger \union {Row(r)}
  /\ UNCHANGED <<balance, seq, written, req, nextId, stale, faults>>

\* Transaction.create; the unique index on id refuses a second row.
CreateTransactionRecord(r) ==
  /\ pc[r] = "insert"
  /\ pc' = [pc EXCEPT ![r] =
              IF \E row \in ledger : row.id = nextId[r] THEN "abort" ELSE "commit"]
  /\ UNCHANGED <<dbVars, written, req, nextId, stale, faults>>

\* Mutant: the session is ended without a commit.
MutCommit(r) ==
  /\ pc[r] = "commit"
  /\ Release(r)
  /\ pc' = [pc EXCEPT ![r] = "ok"]
  /\ UNCHANGED <<dbVars, req, nextId, stale, faults>>

\* commitTransaction succeeded and the row is returned.
Commit(r) ==
  /\ pc[r] = "commit"
  /\ Apply(r)
  /\ Release(r)
  /\ pc' = [pc EXCEPT ![r] = "ok"]
  /\ UNCHANGED <<req, nextId, faults>>

\* commitTransaction took effect but its answer did not arrive.  It throws,
\* abortTransaction throws too because the commit was already asked for, and
\* the request is answered with an error.
CommitAnswerLost(r) ==
  /\ pc[r] = "commit"
  /\ faults < MaxFaults
  /\ faults' = faults + 1
  /\ Apply(r)
  /\ Release(r)
  /\ pc' = [pc EXCEPT ![r] = "error"]
  /\ UNCHANGED <<req, nextId>>

\* Any call of the try block fails.
CallFails(r) ==
  /\ pc[r] \in Open \ {"abort"}
  /\ faults < MaxFaults
  /\ faults' = faults + 1
  /\ pc' = [pc EXCEPT ![r] = "abort"]
  /\ UNCHANGED <<dbVars, written, req, nextId, stale>>

\* abortTransaction, endSession, and the error is thrown on.
Abort(r) ==
  /\ pc[r] = "abort"
  /\ Release(r)
  /\ nextId' = [nextId EXCEPT ![r] = 0]
  /\ pc' = [pc EXCEPT ![r] = "error"]
  /\ UNCHANGED <<dbVars, req, stale, faults>>

\* The server process ends; MongoDB aborts the transactions it left open.
Crash ==
  /\ faults < MaxFaults
  /\ \E r \in Requests : pc[r] \in Open
  /\ faults' = faults + 1
  /\ pc' = [r \in Requests |-> IF pc[r] \in Open THEN "lost" ELSE pc[r]]
  /\ written' = [r \in Requests |-> {}]
  /\ nextId' = [r \in Requests |-> IF pc[r] \in Open THEN 0 ELSE nextId[r]]
  /\ UNCHANGED <<dbVars, req, stale>>

-----------------------------------------------------------------------------
Step(r) ==
  \/ DeductSenderBalance(r)
  \/ AddReceiverBalance(r)
  \/ GetNextTransactionId(r)
  \/ CreateTransactionRecord(r)
  \/ Commit(r)
  \/ Abort(r)

Init ==
  /\ balance = [u \in Users |-> InitialBalance]
  /\ seq = 0
  /\ ledger = {}
  /\ pc = [r \in Requests |-> "new"]
  /\ req = [r \in Requests |-> CHOOSE args \in Args : TRUE]
  /\ written = [r \in Requests |-> {}]
  /\ nextId = [r \in Requests |-> 0]
  /\ stale = [r \in Requests |-> {}]
  /\ faults = 0

Next ==
  \/ \E r \in Requests :
       \/ \E args \in Args, padded \in BOOLEAN :
            Reject(r, args, padded) \/ Start(r, args, padded)
       \/ Step(r)
       \/ CommitAnswerLost(r)
       \/ CallFails(r)
  \/ Crash

Spec == Init /\ [][Next]_vars

-----------------------------------------------------------------------------
(* Properties.                                                              *)

\* The variables keep their types: no committed balance is negative
\* (deductSenderBalance asks for balance >= amount in the same update).
TypeOK ==
  /\ balance \in [Users -> Nat]
  /\ seq \in Nat
  /\ ledger \subseteq [id : Nat, from : Users, to : Users, amount : Nat]
  /\ pc \in [Requests -> PCs]
  /\ req \in [Requests -> Args]
  /\ written \in [Requests -> SUBSET Docs]
  /\ nextId \in [Requests -> Nat]
  /\ stale \in [Requests -> SUBSET Docs]
  /\ faults \in Nat

Sent(u)     == {row \in ledger : row.from = u}
Received(u) == {row \in ledger : row.to = u}

\* The units of money that the rows move, each with its row; their number is
\* the sum of the rows' amounts.
Units(rows) == UNION {{row} \X (1 .. row.amount) : row \in rows}
Total(rows) == Cardinality(Units(rows))

\* The ledger explains every balance: what a user has is the initial balance
\* plus all rows to the user minus all rows from the user, whatever
\* transfers ran together, failed half way or were lost with the server.
LedgerExplainsBalances ==
  \A u \in Users :
    balance[u] + Total(Sent(u)) = InitialBalance + Total(Received(u))

\* A request answered with 201 has its row in the ledger, a request that has
\* not got as far as its commit has none, and no two requests share a row.
AnswersMatchLedger ==
  /\ \A r \in Requests : pc[r] = "ok" => Committed(r)
  /\ \A r \in Requests : pc[r] \in Open \union {"new", "lost"} => ~Committed(r)
  /\ \A r, q \in Requests :
       Committed(r) /\ Committed(q) /\ nextId[r] = nextId[q] => r = q

Abstract == INSTANCE Ledger WITH lastId <- seq

\* The transfers of concurrent requests implement the atomic ledger: each
\* takes effect in one step, from a sender who has the amount, and gets the
\* next id without a gap (architecture.md:55, "unique sequential IDs").
ImplementsLedger == Abstract!Spec

=============================================================================
