\* Three calls over a buffer of two, three days in months of two.
CONSTANTS
  Calls = {e1, e2, e3}
  Aggregator = aggregator
  BufferSize = 2
  DaysPerMonth = 2
  MaxDay = 2
  MayFail = TRUE
SPECIFICATION FairSpec
CHECK_DEADLOCK FALSE
INVARIANTS
  TypeOK
  BufferBelowLimit
  HeldOnce
  NothingVanishes
PROPERTY
  IsLog
