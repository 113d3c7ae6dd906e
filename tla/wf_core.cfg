SPECIFICATION ServiceSpec
CONSTANTS
  start = start join = join h1 = h1 h2 = h2 t1 = t1
  w1 = w1 w2 = w2 c1 = c1 c2 = c2 u1 = u1 u2 = u2
  NoTask = NoTask NoJob = NoJob NoRequest = NoRequest NoUser = NoUser
  Automatic <- MixedAuto
  Human <- MixedHuman
  Timer <- MixedTimer
  Deps <- MixedDeps
  Candidates <- Everyone
  Workers = {w1,w2}
  Clients = {c1}
  Users = {u1}
  MaxFaults = 0
  MaxRetries = 0
  MaxQueued = 1
  Editings = {e1, e2, e3, e4}
  NoDefinition = NoDefinition
  a = a b = b c = c i1 = i1 i2 = i2 i3 = i3
  TickTenants = {a, b, c}
  TickInstances = {i1, i2, i3}
  Home <- Homes
  MaxHiccups = 2
CHECK_DEADLOCK FALSE
INVARIANTS ServiceTypeOK StatusAgreesWithEngine ReadyTaskHasRow ProcessOrder ReadyRowIsOpen VersionsNameContents TickFindsInstances
