SPECIFICATION Spec
CONSTANTS
  r1 = r1
  r2 = r2
  r3 = r3
  h1 = h1
  h2 = h2
  Requests = {r1, r2, r3}
  Calls <- RaceCalls
  Hotels = {h1}
  SeededHotels = {h1}
  Capacity <- OneHotel
  LastDay = 2
  EmptyIsError = FALSE
  Serial = FALSE
  Faults = {}
  Absent = Absent
  Seed = Seed
  SeedHotel = h1
  SeedNight = 1
INVARIANT OnlyBlindOversell
