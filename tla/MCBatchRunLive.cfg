SPECIFICATION FairSpec
CONSTANTS
  r1 = r1
  r2 = r2
  k1 = k1
  NoKey = NoKey
  None = None
  Runs = {r1}
  KeyOf <- MCNoKeys
  Hooked = {r1}
  Cancellable = {}
  Deletable = {}
  Items = {i1}
  Workers = {w1, w2}
  Limit = 20
  PutClearsLease = TRUE
  MaxFaults = 1
  MaxCrashes = 1
PROPERTIES Converges TerminalIsAnnounced
CHECK_DEADLOCK FALSE
