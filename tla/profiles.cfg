SPECIFICATION FairSpec
CONSTANTS
  r1 = r1
  r2 = r2
  h1 = h1
  h2 = h2
  Requests = {r1, r2}
  Ids = {h1, h2}
  Calls <- Lists
  Faults = {"evict", "lostset", "memcError", "mongoError"}
INVARIANTS TypeOK NothingInvented
PROPERTIES LooksUncached EveryCallEnds
