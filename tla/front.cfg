SPECIFICATION FairSpec
CONSTANTS
  g1 = g1
  h1 = h1
  Guests = {g1}
  MaxTries <- TwoTries
  Paths = {"/user", "/recommendations", "/reservation"}
  Forms <- AllForms
  Hotels = {h1}
  LastDay = 2
  Stock <- OneRoom
  MaxInt = 31
  MaxInt32 = 3
  Missing = Missing
  Malformed = Malformed
  Impossible = Impossible
INVARIANTS TypeOK RepliesAreTrue ClaimsAreAsked LoginLasts StaysAreExplained
PROPERTY EveryTryEnds
