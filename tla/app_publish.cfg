SPECIFICATION Spec
CONSTANTS
  Requests = {r1, r2, r3}
  Schemas = {a, b}
  Nothing = Nothing
  MaxVersion = 2
INVARIANTS TypeOK CurrentIsNewest SnapshotIsFrozen
