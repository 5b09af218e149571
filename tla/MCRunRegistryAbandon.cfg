SPECIFICATION FairSpec
CONSTANTS
  s1 = s1
  k1 = k1
  None = None
  Sessions = {s1}
  Callers = {c1, c2}
  SessionOf <- MCOneSession
  Kids = {}
  Hosted = {}
  Persisted = {c1, c2}
  Streamed = {c1}
  Evicts = FALSE
PROPERTIES EveryRequestRuns
CHECK_DEADLOCK FALSE
