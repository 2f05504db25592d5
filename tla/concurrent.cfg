SPECIFICATION FairSpec
CONSTANTS
  r1 = r1
  r2 = r2
  r3 = r3
  h1 = h1
  h2 = h2
  Requests = {r1, r2}
  Calls <- WideCalls
  Hotels = {h1, h2}
  SeededHotels = {h1}
  Capacity <- TwoRooms
  LastDay = 2
  EmptyIsError = TRUE
  Serial = FALSE
  Faults = {"evict", "lostset", "memcError", "mongoError", "numberError"}
  Absent = Absent
  Seed = Seed
  SeedHotel = h1
  SeedNight = 1
INVARIANTS CacheNeverAhead NoFalseRefusal CapacityIsTrue StaysWhole
PROPERTIES KeepsPromises EveryCallEnds PromisesAreFiled
