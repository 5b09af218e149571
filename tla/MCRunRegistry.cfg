SPECIFICATION FairSpec
CONSTRAINT MCFew
CONSTANTS
  s1 = s1
  k1 = k1
  None = None
  Sessions = {s1}
  Callers = {c1, c2, c3}
  SessionOf <- MCOneSession
  Kids = {k1, k2}
  Hosted = {c1}
  Persisted = {c1, c2}
  Streamed = {c3}
  Evicts = TRUE
INVARIANTS
  RegInv
  OneActivePerSession
  NoStrandedCaller
  MutualExclusion
  Fifo
  EntryIffContended
  AbortReachesSubtree
  DeliveredOnce
  NoLostWakeup
  DrainedAnswerIsComplete
PROPERTIES
  SlotSpec
  EveryRequestRuns
  DrainEnds
  TerminalIsFinal
CHECK_DEADLOCK FALSE
