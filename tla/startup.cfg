SPECIFICATION FairSpec
CONSTANTS
  Services <- AllServices
  N = 5
  MaxFaults = 5
INVARIANTS TypeOK NoDuplicates ServesAllButSkipped MemoryIsStored
PROPERTY EventuallyServes
CHECK_DEADLOCK FALSE
