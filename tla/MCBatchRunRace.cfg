SPECIFICATION Spec
CONSTRAINT MCFew
CONSTANTS
  r1 = r1
  r2 = r2
  k1 = k1
  NoKey = NoKey
  None = None
  Runs = {r1, r2}
  KeyOf <- MCSameKey
  Hooked = {r1}
  Cancellable = {r1}
  Deletable = {r1}
  Items = {i1}
  Workers = {w1, w2}
  Limit = 20
  PutClearsLease = TRUE
  MaxFaults = 1
  MaxCrashes = 0
SYMMETRY MCSymmetry
INVARIANTS
  TypeOK
  SettledBeforeTerminal
  OneDeliveryLoop
  WebhookTellsOutcome
  SubmittedOncePerKey
  OutcomeIsProviders
PROPERTIES
  ResultsDurable
CHECK_DEADLOCK FALSE
