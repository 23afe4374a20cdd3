\* Two requests at a time for three targets of one module, and a key that expires;
\* breakers open at the third failure, the cache holds two answers.
CONSTANTS
  Clients = {c1, c2}
  Keys = {k1}
  LastingKeys = {}
  Targets = {x, y, z}
  OnlyService = s
  Services = {s}
  ServiceOf <- SameService
  MaxFailures = 2
  MinSuccesses = 1
  MaxEntries = 2
  Evicted = 1
  Nothing = Nothing
SPECIFICATION FairSpec
CHECK_DEADLOCK FALSE
INVARIANTS
  TypeOK
  ClosedIsWithinLimit
  CacheIsBounded
PROPERTIES
  ExpiredKeyDies
  OpenIsKeptByTraffic
