SPECIFICATION FairSpec
CONSTANTS
  r1 = r1
  r2 = r2
  h1 = h1
  h2 = h2
  h3 = h3
  here = here
  nowhere = nowhere
  Requests = {r1, r2}
  Ids = {h1, h2, h3}
  Places = {here, nowhere}
  Distance <- Near
  Rate <- Rates
  Price <- Prices
  MaxFloat = 9
  NaN = NaN
INVARIANT TypeOK
PROPERTIES RepliesWithBest EveryRequestEnds
