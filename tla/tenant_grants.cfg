SPECIFICATION AccessSpec
CONSTANTS
  Checks = {k1, k2}
  TTL = 3
  MaxDelay = 1
  ExpiresAt = 4
  MaxTime = 9
  IdsAreBound = TRUE
  SharedValkey = TRUE
  ann = ann ben = ben staff = staff cal = cal r1 = r1 r2 = r2 r3 = r3
  FolderRequests = {r1, r2, r3}
  FolderUsers = {ann, ben, cal}
  SenderOf <- Senders
  PrincipalsOf <- PrincipalsOfUsers
  FolderAdmins = {cal}
  Grantable <- RightSets
  Top = Top
  TopGrantee = staff
  Root = Root
CHECK_DEADLOCK FALSE
INVARIANTS AccessTypeOK AnswersAreFresh FoldersStayInTree GrantsAreDelegated
PROPERTIES RightsStay
