SPECIFICATION Spec
CONSTANTS
  start = start join = join h1 = h1 h2 = h2 t1 = t1
  w1 = w1 w2 = w2 c1 = c1 c2 = c2 u1 = u1 u2 = u2
  NoTask = NoTask NoJob = NoJob NoRequest = NoRequest NoUser = NoUser
  Automatic <- PauseAuto
  Human <- PauseHuman
  Timer <- MixedTimer
  Deps <- PauseDeps
  Candidates <- Everyone
  Workers = {w1,w2}
  Clients = {c1}
  Users = {u1}
  MaxFaults = 0
  MaxRetries = 1
  MaxQueued = 1
CHECK_DEADLOCK FALSE
INVARIANT ReadyTaskInInbox
