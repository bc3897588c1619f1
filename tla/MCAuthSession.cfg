SPECIFICATION SessionsSpec
CONSTANTS
  Tokens = {t1, t2, t3, t4}
  Sessions = {s1, s2}
  Calls = {r1, r2, r3}
  NoToken = NoToken
  NoSession = NoSession
INVARIANTS
  SessionsTypeOK
  OneLivePerSession
  ChainsUnbroken
SYMMETRY Symmetric
CHECK_DEADLOCK FALSE
