SPECIFICATION FairProvisionedSpec
CONSTANTS
  a = a b = b r1 = r1 r2 = r2 r3 = r3
  Tenants = {a, b}
  Requests = {r1, r2, r3}
  TenantOf <- MixedRequests
  PoolSize = 2
  NoTenant = NoTenant
  NoConn = NoConn
  NoRow = NoRow
  New = a
  Creators = {p1, p2}
  Plan <- ShortPlan
  OwnSchema = "case_schema"
  SharedValkey = TRUE
CHECK_DEADLOCK FALSE
INVARIANTS SessionTypeOK WritesStayInTenant ServedTenantsAreReady
PROPERTY RequestsEnd
