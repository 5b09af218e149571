SPECIFICATION FairSpec
CONSTANTS
  None = None
  Readers = {"main", "get"}
  BufferSize = 3
  MaxAttempts = 2
  MaxFaults = 1
  q1 = q1
  Calls = {q1}
  Modes = {"durable", "attached", "watched"}
  MaxEvents = 4
  MaxResumes = 1
  MaxPosts = 2
INVARIANTS TypeOK WebhookTellsRun AnswersAgree
PROPERTIES StreamSpec ReadersEnd CallsSettle
CHECK_DEADLOCK FALSE
