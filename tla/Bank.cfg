SPECIFICATION MCSpec
CONSTANTS
  Requests = {r1, r2, r3}
  MAX_OTP_ATTEMPTS = 2
  MaxCodes = 2
  MaxTokens = 2
  Sockets = {s1, s2}
  Messages = {m1, m2}
  MAX_TOOL_CALL_ROUNDS = 1
  Keys = {u1}
  windowMs = 3
  max = 3
  MaxNow = 9
CHECK_DEADLOCK FALSE
INVARIANTS MissesCounted CodeDies RegistryExact AnswersComplete LimitHolds
PROPERTIES StaysActive EveryMessageAnswered
