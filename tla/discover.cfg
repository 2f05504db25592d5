SPECIFICATION FairSpec
CONSTANTS
  Services = {"geo", "rate", "search"}
  MaxMoves = 2
  MaxFaults = 1
  Faulty = {"geo", "mongo-rate"}
INVARIANT ListedUnlessMissed
PROPERTY ComesUpUnlessMissed
