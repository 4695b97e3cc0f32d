SPECIFICATION Spec
CONSTANTS
  Users = {u1, u2, u3}
  Unknown = Unknown
  Requests = {r1, r2, r3}
  InitialBalance = 2
  Amounts = {0, 2, 3}
  MaxAmount = 3
  Counter = Counter
  MaxFaults = 1
SYMMETRY Symmetry
CHECK_DEADLOCK FALSE
INVARIANTS LedgerExplainsBalances AnswersMatchLedger
PROPERTY ImplementsLedger
