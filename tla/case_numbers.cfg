SPECIFICATION ServiceSpec
CONSTANTS
  Cases = {c1, c2, c3, c4}
  Years = {2026, 2027}
  FirstYear = 2026
  NoCase = NoCase
  NoNumber = NoNumber
  ann = ann ben = ben cal = cal r1 = r1 r2 = r2 r3 = r3
  Requests = {r1, r2, r3}
  Linkers = {r1}
  Users = {ann, ben, cal}
  UserOf <- Senders
  Creator = ann
  Colleague = ben
  Admins = {ben}
  Statuses = {"pending", "closed"}
  NewRoles = {"collaborator", "observer"}
  Documents = {d}
  Instances = {i}
  TokenIsIssued = TRUE
  Nobody = Nobody
  NoRow = NoRow
  MaxStream = 3
  Batch = 2
  MaxFailures = 2
CHECK_DEADLOCK FALSE
INVARIANTS ServiceTypeOK NumbersAreUnique NumbersAreDense CaseFollowsTimeline EachEventOnce
PROPERTIES NumberingSpec EventsAreRecorded
