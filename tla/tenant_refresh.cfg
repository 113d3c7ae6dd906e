SPECIFICATION ProvisionedSpec
CONSTANTS
  a = a b = b r1 = r1 r2 = r2 r3 = r3
  Tenants = {a, b}
  Requests = {r1, r2}
  TenantOf <- SameTenant
  PoolSize = 2
  NoTenant = NoTenant
  NoConn = NoConn
  NoRow = NoRow
  New = a
  Creators = {p1}
  Plan <- ShortPlan
  OwnSchema = "case_schema"
  SharedValkey = TRUE
CHECK_DEADLOCK FALSE
INVARIANT RefreshFindsRow
