SPECIFICATION FairSpec
CONSTANTS
  Events = {e1, e2, e3}
  Malformed = {e3}
  Oversized = {e2}
  MetadataResolves = TRUE
  Consumers = {c1, c2}
  BatchSize = 2
  InstallMonth = 1
  LastMonth = 3
  Retention = 2
  Lag = 1
  MaxFaults = 1
CHECK_DEADLOCK FALSE
INVARIANTS TypeOK TrailIsKept
PROPERTIES PartitionsAreKept EventsAreStored
