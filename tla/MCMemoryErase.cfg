SPECIFICATION MemorySpec
CONSTANTS
  Facts = {"f", "g"}
  MaxEntries = 3
  MaxRequests = 4
  NoRow = NoRow
PROPERTIES ErasedStaysErased
CHECK_DEADLOCK FALSE
