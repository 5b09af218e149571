SPECIFICATION Spec
CONSTANTS
  r1 = r1
  r2 = r2
  k1 = k1
  NoKey = NoKey
  None = None
  Runs = {r1}
  KeyOf <- MCNoKeys
  Hooked = {r1}
  Cancellable = {}
  Deletable = {}
  Items = {i1}
  Workers = {w1}
  Limit = 20
  PutClearsLease = TRUE
  MaxFaults = 0
  MaxCrashes = 0
SYMMETRY MCSymmetry
PROPERTIES ProviderIdKept
CHECK_DEADLOCK FALSE
