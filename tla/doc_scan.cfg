SPECIFICATION FairSpec
CONSTANTS

  NoVersion = NoVersion
  Versions = {v1,v2,v3}
  Infected = {v3}
  Uploads = {u1,u2}
  Workers = {w1,w2}
  MaxFaults = 1
  MaxRetries = 1
CHECK_DEADLOCK FALSE
INVARIANTS TypeOK OnlyCleanIsServed BytesAreKept NumbersAreDense
PROPERTY UploadIsDecided
