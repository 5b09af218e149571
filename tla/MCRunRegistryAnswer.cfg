SPECIFICATION Spec
CONSTANTS
  s1 = s1
  k1 = k1
  None = None
  Sessions = {s1}
  Callers = {c1}
  SessionOf <- MCOneSession
  Kids = {k1}
  Hosted = {}
  Persisted = {c1}
  Streamed = {}
  Evicts = FALSE
INVARIANTS AnsweredCollectsAll
CHECK_DEADLOCK FALSE
