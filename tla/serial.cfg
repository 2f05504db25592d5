SPECIFICATION Spec
CONSTANTS
  r1 = r1
  r2 = r2
  r3 = r3
  h1 = h1
  h2 = h2
  Requests = {r1, r2, r3}
  Calls <- AnyCalls
  Hotels = {h1, h2}
  SeededHotels = {h1}
  Capacity <- TwoRooms
  LastDay = 2
  EmptyIsError = TRUE
  Serial = TRUE
  Faults = {"evict", "memcError"}
  Absent = Absent
  Seed = Seed
  SeedHotel = h1
  SeedNight = 1
SYMMETRY Symmetry
INVARIANTS TypeOK SerialCoherence SerialOversell
PROPERTY ExactAvailability
