SPECIFICATION FairSpec
CONSTANTS
  r1 = r1
  r2 = r2
  h1 = h1
  h2 = h2
  h3 = h3
  Requests = {r1, r2}
  Ids = {h1, h2, h3}
  Calls <- Lists
  TotalRate <- Totals
  MaxCopies = 2
  Faults = {"evict", "lostset", "memcError", "mongoError"}

INVARIANTS TypeOK CacheIsStored
PROPERTIES LooksUncached EveryCallEnds
CHECK_DEADLOCK FALSE
