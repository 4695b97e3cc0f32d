--------------------------- MODULE TransferProofs ----------------------------
(***************************************************************************)
(* Concurrent transfers implement the atomic ledger, for any users,        *)
(* requests, amounts and number of faults.                                 *)
(***************************************************************************)
EXTENDS Transfer, FiniteSetTheorems, TLAPS

\* The states in which a transaction holds the sender's document, the
\* receiver's and the counter's.
HasSender   == {"credit", "nextId", "insert", "commit"}
HasReceiver == {"nextId", "insert", "commit"}
HasCounter  == {"insert", "commit"}

\* No document is written by two open transactions.
WritesDisjoint ==
  \A r, q \in Requests : r # q => written[r] \intersect written[q] = {}

\* What the write locks protect: the sender still has the amount, and the id
\* is still the next one.
LocksProtect ==
  \A r \in Requests :
    /\ pc[r] \in HasSender \union {"deduct"}
         => IsValidAmount(req[r].amount)
    /\ pc[r] \in HasSender
         => req[r].from \in written[r] /\ balance[req[r].from] >= req[r].amount
    /\ pc[r] \in HasReceiver => req[r].to \in Users /\ req[r].to \in written[r]
    /\ pc[r] \in HasCounter => Counter \in written[r] /\ nextId[r] = seq + 1

\* The ids given so far are no greater than the counter.
CounterCounts == \A row \in ledger : row.id \in 1 .. seq

IInv == TypeOK /\ WritesDisjoint /\ LocksProtect /\ CounterCounts

\* Init establishes the invariant: there are no rows and no locks.
LEMMA InitIInv == Init => IInv
<1> SUFFICES ASSUME Init PROVE IInv
  OBVIOUS
<1>1. TypeOK
  <2>1. PICK u \in Users, a \in Amounts : TRUE
    BY TransferAssumption
  <2>2. [from |-> u, to |-> u, amount |-> a] \in Args
    BY <2>1 DEF Args
  <2> QED
    BY <2>2, TransferAssumption DEF Init, TypeOK, PCs, Open
<1>2. WritesDisjoint /\ LocksProtect
  BY DEF Init, WritesDisjoint, LocksProtect, HasSender, HasReceiver, HasCounter
<1>3. CounterCounts
  BY DEF Init, CounterCounts
<1> QED
  BY <1>1, <1>2, <1>3 DEF IInv

\* A write inside a transaction takes a document that nobody else holds, or
\* sends the request to its catch block.
LEMMA WriteLocks ==
  ASSUME TypeOK, WritesDisjoint,
         NEW r \in Requests, NEW d \in Docs, NEW next \in PCs,
         Write(r, d, next)
  PROVE  /\ pc' \in [Requests -> PCs]
         /\ written' \in [Requests -> SUBSET Docs]
         /\ WritesDisjoint'
         /\ \A q \in Requests \ {r} : pc'[q] = pc[q] /\ written'[q] = written[q]
         /\ \/ pc'[r] = "abort"
            \/ pc'[r] = next /\ d \in written'[r] /\ ~Conflict(r, d)
         /\ written[r] \subseteq written'[r]
<1>1. CASE Conflict(r, d)
  <2>1. pc' = [pc EXCEPT ![r] = "abort"] /\ written' = written
    BY <1>1 DEF Write
  <2>2. WritesDisjoint'
    BY <2>1 DEF WritesDisjoint
  <2>3. pc' \in [Requests -> PCs] /\ pc'[r] = "abort"
    BY <2>1 DEF TypeOK, PCs, Open
  <2>4. \A q \in Requests \ {r} : pc'[q] = pc[q]
    BY <2>1 DEF TypeOK
  <2> QED
    BY <2>1, <2>2, <2>3, <2>4 DEF TypeOK
<1>2. CASE ~Conflict(r, d)
  <2>1. \A q \in Requests \ {r} : d \notin written[q]
    BY <1>2 DEF Conflict
  <2>2. /\ pc' = [pc EXCEPT ![r] = next]
        /\ written' = [written EXCEPT ![r] = @ \union {d}]
    BY <1>2 DEF Write
  <2>3. WritesDisjoint'
    BY <2>1, <2>2 DEF TypeOK, WritesDisjoint
  <2> QED
    BY <1>2, <2>2, <2>3 DEF TypeOK
<1> QED
  BY <1>1, <1>2

\* A commit keeps the invariant: it changes only documents it has locked, so
\* what the other transactions rely on stays true.
LEMMA CommitIInv ==
  ASSUME IInv, NEW r \in Requests, pc[r] = "commit", Apply(r), Release(r),
         NEW result \in {"ok", "error"}, pc' = [pc EXCEPT ![r] = result],
         UNCHANGED <<req, nextId>>, faults' \in Nat
  PROVE  IInv'
<1> USE DEF IInv
<1>1. /\ req[r].from \in Users /\ req[r].to \in Users
      /\ req[r].amount \in Nat /\ req[r].amount <= balance[req[r].from]
      /\ {req[r].from, req[r].to, Counter} \subseteq written[r]
      /\ nextId[r] = seq + 1
  <2>1. req[r] \in Args /\ req[r].amount \in Int
    BY TransferAssumption DEF TypeOK, Args
  <2>2. LocksProtect!(r)
    BY DEF LocksProtect
  <2>3. /\ IsValidAmount(req[r].amount)
        /\ req[r].from \in written[r] /\ balance[req[r].from] >= req[r].amount
        /\ req[r].to \in Users /\ req[r].to \in written[r]
        /\ Counter \in written[r] /\ nextId[r] = seq + 1
    BY <2>2 DEF HasSender, HasReceiver, HasCounter
  <2> QED
    BY <2>1, <2>3 DEF Args, IsValidAmount, TypeOK
<1>2. /\ balance' \in [Users -> Nat]
      /\ \A u \in Users \ written[r] : balance'[u] = balance[u]
  BY <1>1 DEF Apply, TypeOK
<1>3. /\ Row(r).id = seq + 1
      /\ Row(r) \in [id : Nat, from : Users, to : Users, amount : Nat]
      /\ Row(r) \notin ledger
  BY <1>1 DEF Row, CounterCounts, TypeOK
<1>4. TypeOK'
  <2>1. stale' \in [Requests -> SUBSET Docs]
    BY DEF Apply, TypeOK
  <2>2. pc' \in [Requests -> PCs] /\ written' \in [Requests -> SUBSET Docs]
    BY DEF TypeOK, PCs, Release
  <2>3. ledger' \subseteq [id : Nat, from : Users, to : Users, amount : Nat] /\ seq' \in Nat
    BY <1>1, <1>3 DEF Apply, TypeOK
  <2> QED
    BY <1>2, <2>1, <2>2, <2>3 DEF TypeOK
<1>5. WritesDisjoint'
  BY DEF WritesDisjoint, Release, TypeOK
<1>6. LocksProtect'
  <2> SUFFICES ASSUME NEW q \in Requests
               PROVE  LocksProtect!(q)'
    BY DEF LocksProtect
  <2>1. CASE q = r
    BY <2>1 DEF TypeOK, HasSender, HasReceiver, HasCounter
  <2>2. CASE q # r
    <3>1. written[q] \intersect written[r] = {} /\ written'[q] = written[q] /\ pc'[q] = pc[q]
      BY <2>2 DEF WritesDisjoint, Release, TypeOK
    <3>2. pc[q] \notin HasCounter
      BY <1>1, <3>1 DEF LocksProtect
    <3>3. pc[q] \in HasSender => balance'[req[q].from] = balance[req[q].from]
      BY <1>2, <3>1 DEF LocksProtect, TypeOK, Args
    <3> QED
      BY <3>1, <3>2, <3>3 DEF LocksProtect
  <2> QED
    BY <2>1, <2>2
<1>7. CounterCounts'
  <2>1. ledger' = ledger \union {Row(r)} /\ seq' = seq + 1
    BY <1>1 DEF Apply
  <2> QED
    BY <1>3, <2>1 DEF CounterCounts, TypeOK
<1> QED
  BY <1>4, <1>5, <1>6, <1>7

\* A step that leaves the database alone keeps the invariant if it moves one
\* request to a state whose locks it holds.
LEMMA LocalIInv ==
  ASSUME IInv, NEW r \in Requests, UNCHANGED <<dbVars, stale>>, faults' \in Nat,
         pc' \in [Requests -> PCs], req' \in [Requests -> Args],
         written' \in [Requests -> SUBSET Docs], nextId' \in [Requests -> Nat],
         WritesDisjoint',
         \A q \in Requests \ {r} : /\ pc'[q] = pc[q] /\ written'[q] = written[q]
                                   /\ req'[q] = req[q] /\ nextId'[q] = nextId[q],
         LocksProtect!(r)'
  PROVE  IInv'
<1>1. TypeOK'
  BY DEF IInv, TypeOK, dbVars
<1>2. LocksProtect'
  BY DEF IInv, LocksProtect, dbVars
<1>3. CounterCounts'
  BY DEF IInv, CounterCounts, dbVars
<1> QED
  BY <1>1, <1>2, <1>3 DEF IInv

\* Every step of a request keeps the invariant.
LEMMA StepIInv ==
  ASSUME IInv, NEW r \in Requests, Step(r)
  PROVE  IInv'
<1> USE DEF IInv
<1>1. req[r] \in Args /\ req[r].from \in Docs
  BY DEF TypeOK, Args, Docs
<1>2. LocksProtect!(r)
  BY DEF LocksProtect
<1> DEFINE Gone == /\ UNCHANGED dbVars
                   /\ pc'[r] \in {"abort", "error"}
<1>3. ASSUME Gone PROVE LocksProtect!(r)'
  BY <1>3 DEF HasSender, HasReceiver, HasCounter
<1> HIDE DEF Gone
<1>4. CASE DeductSenderBalance(r)
  <2>1. CASE balance[req[r].from] >= req[r].amount
    <3>1. Write(r, req[r].from, "credit")
      BY <1>4, <2>1 DEF DeductSenderBalance
    <3>2. "credit" \in PCs
      BY DEF PCs, Open
    <3>3. /\ pc' \in [Requests -> PCs]
          /\ written' \in [Requests -> SUBSET Docs]
          /\ WritesDisjoint'
          /\ \A q \in Requests \ {r} : pc'[q] = pc[q] /\ written'[q] = written[q]
          /\ \/ pc'[r] = "abort"
             \/ pc'[r] = "credit" /\ req[r].from \in written'[r]
      BY <1>1, <3>1, <3>2, WriteLocks
    <3>4. LocksProtect!(r)'
      BY <1>2, <1>4, <2>1, <3>3
         DEF DeductSenderBalance, dbVars, HasSender, HasReceiver, HasCounter
    <3> QED
      BY <1>4, <3>3, <3>4, LocalIInv DEF DeductSenderBalance, TypeOK
  <2>2. CASE ~(balance[req[r].from] >= req[r].amount)
    <3>1. pc' = [pc EXCEPT ![r] = "abort"] /\ UNCHANGED <<dbVars, written, req, nextId, stale, faults>>
      BY <1>4, <2>2 DEF DeductSenderBalance
    <3>2. LocksProtect!(r)'
      BY <3>1, <1>3 DEF Gone, TypeOK
    <3>3. WritesDisjoint'
      BY <3>1 DEF WritesDisjoint
    <3> QED
      BY <3>1, <3>2, <3>3, LocalIInv DEF TypeOK, PCs, Open
  <2> QED
    BY <2>1, <2>2
<1>5. CASE AddReceiverBalance(r)
  <2>1. CASE req[r].to \in Users
    <3>1. Write(r, req[r].to, "nextId") /\ req[r].to \in Docs
      BY <1>5, <2>1 DEF AddReceiverBalance, Docs
    <3>2. "nextId" \in PCs
      BY DEF PCs, Open
    <3>3. /\ pc' \in [Requests -> PCs]
          /\ written' \in [Requests -> SUBSET Docs]
          /\ WritesDisjoint'
          /\ \A q \in Requests \ {r} : pc'[q] = pc[q] /\ written'[q] = written[q]
          /\ \/ pc'[r] = "abort"
             \/ pc'[r] = "nextId" /\ req[r].to \in written'[r]
          /\ written[r] \subseteq written'[r]
      BY <3>1, <3>2, WriteLocks
    <3>4. LocksProtect!(r)'
      BY <1>2, <1>5, <2>1, <3>3
         DEF AddReceiverBalance, dbVars, HasSender, HasReceiver, HasCounter
    <3> QED
      BY <1>5, <3>3, <3>4, LocalIInv DEF AddReceiverBalance, TypeOK
  <2>2. CASE req[r].to \notin Users
    <3>1. pc' = [pc EXCEPT ![r] = "abort"] /\ UNCHANGED <<dbVars, written, req, nextId, stale, faults>>
      BY <1>5, <2>2 DEF AddReceiverBalance
    <3>2. LocksProtect!(r)'
      BY <3>1, <1>3 DEF Gone, TypeOK
    <3>3. WritesDisjoint'
      BY <3>1 DEF WritesDisjoint
    <3> QED
      BY <3>1, <3>2, <3>3, LocalIInv DEF TypeOK, PCs, Open
  <2> QED
    BY <2>1, <2>2
<1>6. CASE GetNextTransactionId(r)
  <2>1. Write(r, Counter, "insert") /\ Counter \in Docs /\ "insert" \in PCs
    BY <1>6 DEF GetNextTransactionId, Docs, PCs, Open
  <2>2. /\ pc' \in [Requests -> PCs]
        /\ written' \in [Requests -> SUBSET Docs]
        /\ WritesDisjoint'
        /\ \A q \in Requests \ {r} : pc'[q] = pc[q] /\ written'[q] = written[q]
        /\ \/ pc'[r] = "abort"
           \/ pc'[r] = "insert" /\ Counter \in written'[r] /\ ~Conflict(r, Counter)
        /\ written[r] \subseteq written'[r]
    BY <2>1, WriteLocks
  <2>3. /\ nextId' \in [Requests -> Nat]
        /\ \A q \in Requests \ {r} : nextId'[q] = nextId[q]
        /\ ~Conflict(r, Counter) => nextId'[r] = seq + 1
    BY <1>6 DEF GetNextTransactionId, TypeOK
  <2>4. LocksProtect!(r)'
    BY <1>2, <1>6, <2>2, <2>3
       DEF GetNextTransactionId, dbVars, HasSender, HasReceiver, HasCounter
  <2> QED
    BY <1>6, <2>2, <2>3, <2>4, LocalIInv DEF GetNextTransactionId, TypeOK
<1>7. CASE CreateTransactionRecord(r)
  <2>1. /\ pc' \in [Requests -> PCs] /\ UNCHANGED <<dbVars, written, req, nextId, stale, faults>>
        /\ \A q \in Requests \ {r} : pc'[q] = pc[q]
        /\ pc[r] = "insert" /\ pc'[r] \in {"abort", "commit"}
    BY <1>7 DEF CreateTransactionRecord, TypeOK, PCs, Open
  <2>2. LocksProtect!(r)'
    BY <1>2, <2>1 DEF dbVars, HasSender, HasReceiver, HasCounter
  <2>3. WritesDisjoint'
    BY <2>1 DEF WritesDisjoint
  <2> QED
    BY <2>1, <2>2, <2>3, LocalIInv DEF TypeOK
<1>8. CASE Commit(r)
  BY <1>8, CommitIInv DEF Commit, TypeOK
<1>9. CASE Abort(r)
  <2>1. /\ pc' = [pc EXCEPT ![r] = "error"] /\ written' = [written EXCEPT ![r] = {}]
        /\ nextId' = [nextId EXCEPT ![r] = 0] /\ UNCHANGED <<dbVars, req, stale, faults>>
    BY <1>9 DEF Abort, Release
  <2>2. LocksProtect!(r)'
    BY <2>1, <1>3 DEF Gone, TypeOK
  <2>3. WritesDisjoint'
    BY <2>1 DEF WritesDisjoint, TypeOK
  <2> QED
    BY <2>1, <2>2, <2>3, LocalIInv DEF TypeOK, PCs
<1> QED
  BY <1>4, <1>5, <1>6, <1>7, <1>8, <1>9 DEF Step

\* So does every step of the specification.
LEMMA NextIInv == IInv /\ [Next]_vars => IInv'
<1> SUFFICES ASSUME IInv, [Next]_vars PROVE IInv'
  OBVIOUS
<1> USE DEF IInv
<1>1. ASSUME NEW r \in Requests, NEW args \in Args, NEW padded \in BOOLEAN,
             Reject(r, args, padded) \/ Start(r, args, padded)
      PROVE  IInv'
  <2>1. /\ pc' \in [Requests -> PCs] /\ req' = [req EXCEPT ![r] = args]
        /\ UNCHANGED <<dbVars, written, nextId, stale, faults>>
        /\ \A q \in Requests \ {r} : pc'[q] = pc[q]
    BY <1>1 DEF Reject, Start, TypeOK, PCs, Open
  <2>2. LocksProtect!(r)'
    BY <1>1 DEF Reject, Start, TypeOK, HasSender, HasReceiver, HasCounter
  <2>3. WritesDisjoint'
    BY <2>1 DEF WritesDisjoint
  <2> QED
    BY <2>1, <2>2, <2>3, LocalIInv DEF TypeOK
<1>2. ASSUME NEW r \in Requests, CommitAnswerLost(r) PROVE IInv'
  <2>1. faults' \in Nat
    BY <1>2 DEF CommitAnswerLost, TypeOK
  <2> QED
    BY <1>2, <2>1, CommitIInv DEF CommitAnswerLost
<1>3. ASSUME NEW r \in Requests, CallFails(r) PROVE IInv'
  <2>1. /\ pc' = [pc EXCEPT ![r] = "abort"] /\ UNCHANGED <<dbVars, written, req, nextId, stale>>
        /\ faults' \in Nat
    BY <1>3 DEF CallFails, TypeOK
  <2>2. LocksProtect!(r)'
    BY <2>1 DEF TypeOK, HasSender, HasReceiver, HasCounter
  <2>3. WritesDisjoint'
    BY <2>1 DEF WritesDisjoint
  <2> QED
    BY <2>1, <2>2, <2>3, LocalIInv DEF TypeOK, PCs, Open
<1>4. CASE Crash
  <2>1. TypeOK'
    BY <1>4 DEF Crash, TypeOK, PCs, dbVars
  <2>2. WritesDisjoint' /\ CounterCounts'
    BY <1>4 DEF Crash, WritesDisjoint, CounterCounts, dbVars
  <2>3. \A r \in Requests : pc'[r] \notin HasSender \union {"deduct"}
    BY <1>4 DEF Crash, HasSender, Open
  <2>4. LocksProtect'
    BY <2>3 DEF LocksProtect, HasSender, HasReceiver, HasCounter
  <2> QED
    BY <2>1, <2>2, <2>4
<1>5. CASE UNCHANGED vars
  BY <1>5 DEF vars, TypeOK, WritesDisjoint, LocksProtect, CounterCounts
<1> QED
  BY <1>1, <1>2, <1>3, <1>4, <1>5, StepIInv DEF Next

\* The invariant holds in every reachable state.
THEOREM TransferInvariant == Spec => []IInv
BY InitIInv, NextIInv, PTL DEF Spec

\* Type correctness, and with it that no balance is ever negative: TypeOK has
\* the balances in Nat.
THEOREM TypeCorrect == Spec => []TypeOK
<1>1. IInv => TypeOK
  BY DEF IInv
<1> QED
  BY <1>1, TransferInvariant, PTL

\* A commit is one transfer of the atomic ledger.
LEMMA CommitTransfers ==
  ASSUME IInv, NEW r \in Requests, pc[r] = "commit", Apply(r)
  PROVE  Abstract!Next
<1>1. /\ req[r].from \in Users /\ req[r].to \in Users
      /\ req[r].amount \in 1 .. balance[req[r].from]
      /\ nextId[r] = seq + 1
  <2>1. req[r] \in Args /\ req[r].amount \in Int
    BY TransferAssumption DEF IInv, TypeOK, Args
  <2>2. /\ IsValidAmount(req[r].amount)
        /\ balance[req[r].from] >= req[r].amount
        /\ req[r].to \in Users /\ nextId[r] = seq + 1
    BY DEF IInv, LocksProtect, HasSender, HasReceiver, HasCounter
  <2> QED
    BY <2>1, <2>2 DEF Args, IsValidAmount, IInv, TypeOK
<1>2. Abstract!Transfer(req[r].from, req[r].to, req[r].amount)
  <2>1. req[r].amount > 0 /\ balance[req[r].from] >= req[r].amount
    BY <1>1 DEF IInv, TypeOK
  <2>2. seq' = seq + 1 /\ ledger' = ledger \union
          {[id |-> seq + 1, from |-> req[r].from,
            to |-> req[r].to, amount |-> req[r].amount]}
    BY <1>1 DEF Apply, Row
  <2>3. balance' = [balance EXCEPT ![req[r].from] = @ - req[r].amount,
                                   ![req[r].to] = @ + req[r].amount]
    BY DEF Apply
  <2> QED
    BY <1>1, <2>1, <2>2, <2>3 DEF Abstract!Transfer
<1> QED
  BY <1>1, <1>2 DEF Abstract!Next

\* Concurrent transfers, with failing calls and crashes anywhere, implement
\* the atomic ledger for any users, requests and amounts.
THEOREM Implements == Spec => ImplementsLedger
<1>1. Init => Abstract!Init
  BY DEF Init, Abstract!Init
<1>2. IInv /\ [Next]_vars => [Abstract!Next]_Abstract!vars
  <2> SUFFICES ASSUME IInv, [Next]_vars PROVE Abstract!Next \/ UNCHANGED Abstract!vars
    OBVIOUS
  <2>1. CASE \E r \in Requests : Commit(r) \/ CommitAnswerLost(r)
    BY <2>1, CommitTransfers DEF Commit, CommitAnswerLost
  <2>2. CASE UNCHANGED dbVars
    BY <2>2 DEF dbVars, Abstract!vars
  <2> QED
    BY <2>1, <2>2 DEF Next, Step, vars, dbVars, Reject, Start, DeductSenderBalance,
       AddReceiverBalance, GetNextTransactionId, CreateTransactionRecord, Abort,
       CallFails, Crash
<1> QED
  BY <1>1, <1>2, TransferInvariant, PTL DEF Spec, ImplementsLedger, Abstract!Spec

-----------------------------------------------------------------------------
(* What a request is answered, against the ledger.                          *)

\* A request gets its id only with the counter locked, keeps it until its
\* transaction ends, and is left with it only if the row was committed.
IdsAccounted ==
  \A r \in Requests :
    /\ pc[r] \in {"new", "deduct", "credit", "nextId", "lost"} => nextId[r] = 0
    /\ pc[r] = "abort" /\ nextId[r] # 0 => Counter \in written[r] /\ nextId[r] = seq + 1
    /\ pc[r] = "ok" => nextId[r] # 0
    /\ pc[r] \in {"ok", "error"} /\ nextId[r] # 0 => Row(r) \in ledger

\* No two answered requests have the same id.
IdsDistinct ==
  \A r, q \in Requests :
    /\ pc[r] \in {"ok", "error"} /\ pc[q] \in {"ok", "error"}
    /\ nextId[r] # 0 /\ nextId[r] = nextId[q]
    => r = q

AInv == IInv /\ IdsAccounted /\ IdsDistinct

\* The invariant says what the answers mean: an id that is still with an open
\* transaction is greater than every id of the ledger.
LEMMA AInvAnswers == AInv => AnswersMatchLedger
<1> SUFFICES ASSUME AInv PROVE AnswersMatchLedger
  OBVIOUS
<1> USE DEF AInv, IInv
<1>1. ASSUME NEW r \in Requests, Committed(r)
      PROVE  pc[r] \in {"ok", "error"}
  <2>1. nextId[r] \in 1 .. seq
    <3>1. Row(r).id = nextId[r]
      BY DEF Row
    <3> QED
      BY <1>1, <3>1 DEF CounterCounts, Committed
  <2>2. pc[r] \notin {"new", "deduct", "credit", "nextId", "lost"}
    BY <2>1 DEF IdsAccounted
  <2>3. pc[r] \notin {"insert", "commit"}
    BY <2>1 DEF LocksProtect, HasCounter, TypeOK
  <2>4. pc[r] # "abort"
    BY <2>1 DEF IdsAccounted, TypeOK
  <2> QED
    BY <2>2, <2>3, <2>4 DEF TypeOK, PCs, Open
<1>2. \A r \in Requests : pc[r] = "ok" => Committed(r)
  BY DEF IdsAccounted, Committed
<1>3. \A r \in Requests : pc[r] \in Open \union {"new", "lost"} => ~Committed(r)
  BY <1>1 DEF Open
<1>4. ASSUME NEW r \in Requests, NEW q \in Requests,
             Committed(r), Committed(q), nextId[r] = nextId[q]
      PROVE  r = q
  BY <1>1, <1>4 DEF IdsDistinct, Committed
<1> QED
  BY <1>2, <1>3, <1>4 DEF AnswersMatchLedger

\* A commit leaves its request with the next id, which nobody else has, and
\* no other transaction holds the counter while it does.
LEMMA CommitAInv ==
  ASSUME AInv, NEW r \in Requests, pc[r] = "commit", Apply(r), Release(r),
         NEW result \in {"ok", "error"}, pc' = [pc EXCEPT ![r] = result],
         UNCHANGED <<req, nextId>>
  PROVE  IdsAccounted' /\ IdsDistinct'
<1> USE DEF AInv, IInv
<1>1. Counter \in written[r] /\ nextId[r] = seq + 1 /\ nextId[r] # 0
  BY DEF LocksProtect, HasCounter, TypeOK
<1>2. /\ pc'[r] = result /\ nextId' = nextId
      /\ \A q \in Requests \ {r} : pc'[q] = pc[q] /\ written'[q] = written[q]
      /\ \A q \in Requests : Row(q)' = Row(q)
      /\ ledger' = ledger \union {Row(r)}
  BY DEF TypeOK, Release, Apply, Row
<1>3. ASSUME NEW q \in Requests, q # r PROVE Counter \notin written[q]
  BY <1>1, <1>3 DEF WritesDisjoint
<1>4. ASSUME NEW q \in Requests, q # r, pc[q] \in {"ok", "error"}, nextId[q] # 0
      PROVE  nextId[q] # nextId[r]
  <2>1. Row(q) \in ledger /\ Row(q).id = nextId[q]
    BY <1>4 DEF IdsAccounted, Row
  <2> QED
    BY <1>1, <2>1 DEF CounterCounts, TypeOK
<1>5. IdsAccounted'
  <2> SUFFICES ASSUME NEW q \in Requests PROVE IdsAccounted!(q)'
    BY DEF IdsAccounted
  <2>1. CASE q = r
    BY <1>1, <1>2, <2>1
  <2>2. CASE q # r
    BY <1>2, <1>3, <2>2 DEF IdsAccounted
  <2> QED
    BY <2>1, <2>2
<1>6. IdsDistinct'
  BY <1>2, <1>4 DEF IdsDistinct
<1> QED
  BY <1>5, <1>6

\* A step that leaves the database and the other requests alone.
LEMMA LocalAInv ==
  ASSUME AInv, NEW r \in Requests, UNCHANGED dbVars,
         \A q \in Requests \ {r} : /\ pc'[q] = pc[q] /\ written'[q] = written[q]
                                   /\ req'[q] = req[q] /\ nextId'[q] = nextId[q],
         IdsAccounted!(r)',
         pc'[r] \in {"ok", "error"} => nextId'[r] = 0
  PROVE  IdsAccounted' /\ IdsDistinct'
<1>1. \A q \in Requests \ {r} : Row(q)' = Row(q)
  BY DEF Row
<1>2. IdsAccounted'
  <2> SUFFICES ASSUME NEW q \in Requests, q # r PROVE IdsAccounted!(q)'
    BY DEF IdsAccounted
  <2> QED
    BY <1>1 DEF AInv, IdsAccounted, dbVars
<1>3. IdsDistinct'
  BY DEF AInv, IdsDistinct
<1> QED
  BY <1>2, <1>3

\* Every step keeps the ids accounted for.
LEMMA NextAInv == AInv /\ [Next]_vars => AInv'
<1> SUFFICES ASSUME AInv, [Next]_vars PROVE AInv'
  OBVIOUS
<1>1. IInv'
  BY NextIInv DEF AInv
<1> SUFFICES IdsAccounted' /\ IdsDistinct'
  BY <1>1 DEF AInv
<1>2. TypeOK /\ LocksProtect
  BY DEF AInv, IInv
<1>3. ASSUME NEW r \in Requests, NEW args \in Args, NEW padded \in BOOLEAN,
             Reject(r, args, padded) \/ Start(r, args, padded)
      PROVE  IdsAccounted' /\ IdsDistinct'
  <2>1. /\ pc[r] = "new" /\ pc'[r] \in {"error", "deduct"} /\ nextId' = nextId
        /\ UNCHANGED dbVars
        /\ \A q \in Requests \ {r} : /\ pc'[q] = pc[q] /\ written'[q] = written[q]
                                     /\ req'[q] = req[q] /\ nextId'[q] = nextId[q]
    BY <1>2, <1>3 DEF Reject, Start, TypeOK
  <2>2. nextId'[r] = 0
    BY <2>1 DEF AInv, IdsAccounted
  <2>3. IdsAccounted!(r)'
    BY <2>1, <2>2
  <2> QED
    BY <2>1, <2>2, <2>3, LocalAInv
<1>4. ASSUME NEW r \in Requests, DeductSenderBalance(r) \/ AddReceiverBalance(r)
      PROVE  IdsAccounted' /\ IdsDistinct'
  <2>1. /\ pc[r] \in {"deduct", "credit"} /\ pc'[r] \in {"credit", "nextId", "abort"}
        /\ UNCHANGED dbVars /\ nextId' = nextId
        /\ \A q \in Requests \ {r} : /\ pc'[q] = pc[q] /\ written'[q] = written[q]
                                     /\ req'[q] = req[q] /\ nextId'[q] = nextId[q]
    BY <1>2, <1>4 DEF DeductSenderBalance, AddReceiverBalance, Write, TypeOK
  <2>2. nextId'[r] = 0
    BY <2>1 DEF AInv, IdsAccounted
  <2>3. IdsAccounted!(r)'
    BY <2>1, <2>2
  <2> QED
    BY <2>1, <2>2, <2>3, LocalAInv
<1>5. ASSUME NEW r \in Requests, GetNextTransactionId(r)
      PROVE  IdsAccounted' /\ IdsDistinct'
  <2>1. /\ pc[r] = "nextId" /\ UNCHANGED dbVars
        /\ \/ pc'[r] = "insert"
           \/ pc'[r] = "abort" /\ nextId'[r] = nextId[r]
        /\ \A q \in Requests \ {r} : /\ pc'[q] = pc[q] /\ written'[q] = written[q]
                                     /\ req'[q] = req[q] /\ nextId'[q] = nextId[q]
    BY <1>2, <1>5 DEF GetNextTransactionId, Write, TypeOK
  <2>2. nextId[r] = 0
    BY <2>1 DEF AInv, IdsAccounted
  <2>3. IdsAccounted!(r)'
    BY <2>1, <2>2
  <2> QED
    BY <2>1, <2>3, LocalAInv
<1>6. ASSUME NEW r \in Requests, CreateTransactionRecord(r) \/ CallFails(r)
      PROVE  IdsAccounted' /\ IdsDistinct'
  <2>1. /\ pc[r] \in Open /\ pc'[r] \in {"abort", "commit"}
        /\ UNCHANGED <<dbVars, written, req, nextId>>
        /\ \A q \in Requests \ {r} : pc'[q] = pc[q]
    BY <1>2, <1>6 DEF CreateTransactionRecord, CallFails, TypeOK, Open
  <2>2. nextId[r] # 0 => Counter \in written[r] /\ nextId[r] = seq + 1
    BY <1>2, <2>1 DEF AInv, IdsAccounted, LocksProtect, HasCounter, Open
  <2>3. IdsAccounted!(r)'
    BY <2>1, <2>2 DEF dbVars
  <2> QED
    BY <2>1, <2>3, LocalAInv
<1>7. ASSUME NEW r \in Requests, Commit(r) \/ CommitAnswerLost(r)
      PROVE  IdsAccounted' /\ IdsDistinct'
  BY <1>7, CommitAInv DEF Commit, CommitAnswerLost
<1>8. ASSUME NEW r \in Requests, Abort(r) PROVE IdsAccounted' /\ IdsDistinct'
  <2>1. /\ pc'[r] = "error" /\ nextId'[r] = 0 /\ UNCHANGED dbVars
        /\ \A q \in Requests \ {r} : /\ pc'[q] = pc[q] /\ written'[q] = written[q]
                                     /\ req'[q] = req[q] /\ nextId'[q] = nextId[q]
    BY <1>2, <1>8 DEF Abort, Release, TypeOK
  <2>2. IdsAccounted!(r)'
    BY <2>1
  <2> QED
    BY <2>1, <2>2, LocalAInv
<1>9. CASE Crash
  <2>1. /\ UNCHANGED dbVars /\ req' = req
        /\ \A r \in Requests : \/ pc'[r] = "lost" /\ nextId'[r] = 0
                               \/ /\ pc[r] \notin Open /\ pc'[r] = pc[r]
                                  /\ nextId'[r] = nextId[r]
    BY <1>9 DEF Crash
  <2>2. ASSUME NEW r \in Requests PROVE IdsAccounted!(r)'
    <3>1. CASE pc'[r] = "lost" /\ nextId'[r] = 0
      BY <3>1
    <3>2. CASE pc[r] \notin Open /\ pc'[r] = pc[r] /\ nextId'[r] = nextId[r]
      <4>1. Row(r)' = Row(r)
        BY <2>1, <3>2 DEF Row
      <4> QED
        BY <2>1, <3>2, <4>1 DEF AInv, IdsAccounted, dbVars, Open
    <3> QED
      BY <2>1, <3>1, <3>2
  <2>3. IdsDistinct'
    BY <2>1 DEF AInv, IdsDistinct
  <2> QED
    BY <2>2, <2>3 DEF IdsAccounted
<1>10. CASE UNCHANGED vars
  BY <1>10 DEF vars, AInv, IdsAccounted, IdsDistinct, Row
<1> QED
  BY <1>3, <1>4, <1>5, <1>6, <1>7, <1>8, <1>9, <1>10 DEF Next, Step

\* A 201 always has its row, an unfinished or lost request never has one, and
\* no two requests share a row, for any number of requests and faults
\* (executeTransfer and its catch block).
THEOREM Answers == Spec => []AnswersMatchLedger
<1>1. Init => AInv
  BY InitIInv DEF Init, AInv, IdsAccounted, IdsDistinct
<1> QED
  BY <1>1, NextAInv, AInvAnswers, PTL DEF Spec

-----------------------------------------------------------------------------
(* The ledger and the balances.                                             *)

\* A new row adds its amount to the total.
LEMMA TotalAdd ==
  ASSUME NEW rows, NEW row, row \notin rows, row.amount \in Nat,
         IsFiniteSet(Units(rows))
  PROVE  /\ IsFiniteSet(Units(rows \union {row}))
         /\ Total(rows \union {row}) = Total(rows) + row.amount
<1> DEFINE new == {row} \X (1 .. row.amount)
<1>1. Units(rows \union {row}) = Units(rows) \union new
  BY DEF Units
<1>2. Units(rows) \intersect new = {}
  BY DEF Units
<1>3. IsFiniteSet(1 .. row.amount) /\ Cardinality(1 .. row.amount) = row.amount
  <2>1. ASSUME NEW n \in Nat PROVE IsFiniteSet(1 .. n) /\ Cardinality(1 .. n) = n
    BY FS_Interval, SMTT(30)
  <2> QED
    BY <2>1
<1>4. IsFiniteSet({row}) /\ Cardinality({row}) = 1
  BY FS_Singleton
<1>5. IsFiniteSet(new) /\ Cardinality(new) = row.amount
  <2>1. IsFiniteSet(new) /\ Cardinality(new) = Cardinality({row}) * Cardinality(1 .. row.amount)
    BY <1>3, <1>4, FS_Product, Zenon
  <2> QED
    BY <1>3, <1>4, <2>1
<1> HIDE DEF new
<1>6. /\ IsFiniteSet(Units(rows) \union new)
      /\ Cardinality(Units(rows) \union new) = Cardinality(Units(rows)) + Cardinality(new)
                                               - Cardinality(Units(rows) \intersect new)
  BY <1>5, FS_Union
<1>7. Cardinality(Units(rows)) \in Nat
  BY FS_CardinalityType
<1>8. Cardinality(Units(rows) \intersect new) = 0
  BY <1>2, FS_EmptySet, Zenon
<1>9. Cardinality(Units(rows) \union new) = Cardinality(Units(rows)) + row.amount
  BY <1>5, <1>6, <1>7, <1>8
<1> QED
  BY <1>1, <1>6, <1>9 DEF Total

\* There are finitely many units in the rows of a user.
UnitsFinite ==
  \A u \in Users : IsFiniteSet(Units(Sent(u))) /\ IsFiniteSet(Units(Received(u)))

BInv == IInv /\ UnitsFinite /\ LedgerExplainsBalances

\* A commit writes the row that explains what it does to the two balances.
LEMMA CommitBInv ==
  ASSUME BInv, NEW r \in Requests, pc[r] = "commit", Apply(r)
  PROVE  UnitsFinite' /\ LedgerExplainsBalances'
<1> DEFINE from == req[r].from
           to == req[r].to
           amount == req[r].amount
           row == Row(r)
<1>1. /\ from \in Users /\ to \in Users
      /\ amount \in Nat /\ nextId[r] = seq + 1
  <2>1. req[r] \in Args /\ req[r].amount \in Int
    BY TransferAssumption DEF BInv, IInv, TypeOK, Args
  <2>2. /\ IsValidAmount(req[r].amount)
        /\ req[r].to \in Users /\ nextId[r] = seq + 1
    BY DEF BInv, IInv, LocksProtect, HasSender, HasReceiver, HasCounter
  <2> QED
    BY <2>1, <2>2 DEF Args, IsValidAmount
<1>2. row.id = seq + 1 /\ row.from = from /\ row.to = to /\ row.amount = amount
  BY <1>1 DEF Row
<1>3. row \notin ledger
  BY <1>2 DEF BInv, IInv, CounterCounts, TypeOK
<1>4. /\ ledger' = ledger \union {row}
      /\ balance' = [balance EXCEPT ![from] = @ - amount, ![to] = @ + amount]
      /\ balance \in [Users -> Nat]
  BY DEF Apply, BInv, IInv, TypeOK
<1> HIDE DEF from, to, amount, row
<1> SUFFICES ASSUME NEW u \in Users
             PROVE  /\ IsFiniteSet(Units(Sent(u)')) /\ IsFiniteSet(Units(Received(u)'))
                    /\ balance'[u] + Total(Sent(u)') = InitialBalance + Total(Received(u)')
  BY DEF UnitsFinite, LedgerExplainsBalances, Units, Total
<1>5. /\ IsFiniteSet(Units(Sent(u))) /\ IsFiniteSet(Units(Received(u)))
      /\ balance[u] + Total(Sent(u)) = InitialBalance + Total(Received(u))
  BY DEF BInv, UnitsFinite, LedgerExplainsBalances
<1>6. Total(Sent(u)) \in Nat /\ Total(Received(u)) \in Nat
  BY <1>5, FS_CardinalityType DEF Total
<1>7. row \notin Sent(u) /\ row \notin Received(u)
  BY <1>3 DEF Sent, Received
<1>8. /\ Sent(u)' = IF u = from THEN Sent(u) \union {row} ELSE Sent(u)
      /\ Received(u)' = IF u = to THEN Received(u) \union {row} ELSE Received(u)
  BY <1>2, <1>4 DEF Sent, Received
<1>9. /\ IsFiniteSet(Units(Sent(u)')) /\ IsFiniteSet(Units(Received(u)'))
      /\ Total(Sent(u)') = IF u = from THEN Total(Sent(u)) + amount ELSE Total(Sent(u))
      /\ Total(Received(u)') = IF u = to THEN Total(Received(u)) + amount ELSE Total(Received(u))
  <2>1. /\ IsFiniteSet(Units(Sent(u) \union {row}))
        /\ Total(Sent(u) \union {row}) = Total(Sent(u)) + amount
    BY <1>1, <1>2, <1>5, <1>7, TotalAdd
  <2>2. /\ IsFiniteSet(Units(Received(u) \union {row}))
        /\ Total(Received(u) \union {row}) = Total(Received(u)) + amount
    BY <1>1, <1>2, <1>5, <1>7, TotalAdd
  <2> QED
    BY <1>5, <1>8, <2>1, <2>2
\* A user who is both sender and receiver keeps the balance.
<1>10. balance'[u] = balance[u] - (IF u = from THEN amount ELSE 0) + (IF u = to THEN amount ELSE 0)
  BY <1>1, <1>4
<1> QED
  BY <1>1, <1>4, <1>5, <1>6, <1>9, <1>10, TransferAssumption

\* Every step keeps the balances explained.
LEMMA NextBInv == BInv /\ [Next]_vars => BInv'
<1> SUFFICES ASSUME BInv, [Next]_vars PROVE BInv'
  OBVIOUS
<1>1. IInv'
  BY NextIInv DEF BInv
<1>2. CASE \E r \in Requests : Commit(r) \/ CommitAnswerLost(r)
  BY <1>1, <1>2, CommitBInv DEF BInv, Commit, CommitAnswerLost
<1>3. CASE UNCHANGED dbVars
  BY <1>1, <1>3 DEF dbVars, BInv, UnitsFinite, LedgerExplainsBalances, Units, Total, Sent, Received
<1> QED
  BY <1>2, <1>3 DEF Next, Step, vars, dbVars, Reject, Start, DeductSenderBalance,
     AddReceiverBalance, GetNextTransactionId, CreateTransactionRecord, Abort,
     CallFails, Crash

\* Whatever transfers run together, fail half way or are lost with the
\* server, every balance is the initial one plus the rows to the user minus
\* the rows from the user (deductSenderBalance, addReceiverBalance and
\* createTransactionRecord in one MongoDB transaction).
THEOREM BalancesExplained == Spec => []LedgerExplainsBalances
<1>1. Init => BInv
  <2> SUFFICES ASSUME Init PROVE UnitsFinite /\ LedgerExplainsBalances
    BY InitIInv DEF BInv
  <2>1. \A u \in Users : Units(Sent(u)) = {} /\ Units(Received(u)) = {}
    BY DEF Init, Units, Sent, Received
  <2>2. IsFiniteSet({}) /\ Cardinality({}) = 0
    BY FS_EmptySet
  <2> QED
    BY <2>1, <2>2, TransferAssumption DEF Init, UnitsFinite, LedgerExplainsBalances, Total
<1>2. BInv => LedgerExplainsBalances
  BY DEF BInv
<1> QED
  BY <1>1, <1>2, NextBInv, PTL DEF Spec

=============================================================================
