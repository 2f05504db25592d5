SPECIFICATION FairSpec
CONSTANTS
  r1 = r1
  r2 = r2
  h1 = h1
  h2 = h2
  Requests = {r1, r2}
  Points <- TwoPoints
  Draws = 2
  Bound = 2
  Plans <- OnePlan
  MaxPlans = 1
  TotalRate <- Rates
  Profiled = {h1, h2}
  Contested = {h1}
  Nightless = {r2}
  Faults = {"mongoError", "cancel"}
INVARIANTS TypeOK NoneWaitsForTheDead ShowsWhatWasFound
PROPERTIES EverySearchEnds 
