SPECIFICATION Spec
CONSTANTS
  Session = {s1, s2}
  Token = {k1, k2, k3}
  XmlaId = {x1, x2, x3}
  Handler = {h1}
  Loop = loop
  SessionTTL = 0
  TokenTTL = 1
  IdleTTL = 0
  Window = 0
  Limit = 2
  MaxSessions = 1
  s1 = s1
  s2 = s2
  k1 = k1
  k2 = k2
  k3 = k3
  x3 = x3
  x1 = x1
  x2 = x2
  h1 = h1
  None = None
SYMMETRY Interchangeable
INVARIANTS TablesAgree BudgetHolds CountedOnce RejectionsDeserved
PROPERTIES UsedIsKept
