SPECIFICATION Spec
CONSTANTS
  r1 = r1
  r2 = r2
  r3 = r3
  root = root
  a1 = a1
  a2 = a2
  n1 = n1
  Req = {r1, r2, r3}
  User = {root, a1, a2, n1}
  Platform = root
  DemoAdmin = a1
  Role <- MCRole
  Permission <- MCPermission
  Declared <- MCDeclared
  Grants0 <- MCGrants0
  RoleOrder <- MCRoleOrder
  User0 <- MCUser0
  Mix0 <- MCMix0
  Series <- MCSeries
  SeriesDefault = "catalog"
  DemoItems <- MCDemoItems
  DemoCap = 2
  DailyLimit = 2
  Projected = 1
  Units = {2, 7}
CHECK_DEADLOCK FALSE
INVARIANTS TenantTypeOK AcknowledgedIsKept AdminRemains QuotaBound SeedRestores
