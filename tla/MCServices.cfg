SPECIFICATION MCSpec
CONSTANTS
  Props = {"x"}
  StepKeys <- MCStepKeys
  MaxIterations = 2
  MaxMarks = 2
  NoClause = NoClause
  ItemCount = 2
  Cancels = {"here", "there"}
  Remote = {"there"}
  MaxEvalFaults = 2
  MaxDeaths = 1
  MaxWrites = 4
  Flushers = {"answer", "start"}
  MaxPutFaults = 2
  MaxToolCalls = 2
  MaxTokens = 3
  MaxExpiries = 1
  Spans = {"run", "tool"}
  ToolSpans = {"tool"}
  Viewers = {"v"}
  FlushSize = 2
  MaxBuffer = 1
  MaxFlushFaults = 1
  Chunks = 3
  MaxImportFaults = 1
  w1 = w1
  w2 = w2
  w3 = w3
  Writers = {w1, w2, w3}
  MaxTime = 2
  NoVersion = NoVersion
  Facts = {"f", "g"}
  MaxEntries = 3
  MaxRequests = 4
  NoRow = NoRow
INVARIANTS
  ValidatedRuns
  EvalReport
  TokensHold
  ViewersSeeAll
  ImportOutcome
  MemoryKept
PROPERTIES
  ExecutorRules
  EvalEnds
  WritesInOrder
  TraceSettles
  VersionsHold
CHECK_DEADLOCK FALSE
