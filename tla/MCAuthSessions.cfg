SPECIFICATION Spec
CONSTANTS
  r1 = r1  r2 = r2  d1 = d1   u1 = u1
  Req = {r1, r2}
  Device = {d1}
  User = {u1}
  MaxToken = 3
  MaxTime = 4
  Life = 2
  AccessLife = 1
  Grace = 0
  Retention = 0
  MaxActive = 2
  FailWindow = 0
  FailMax = 1
  ScanMax = 1
CONSTRAINTS FirstLogin Later
SYMMETRY Symmetry
INVARIANTS SessTypeOK NewestIsLive OneTokenPerQuietFamily RefusedForCause
PROPERTY LoginKeepsLimit
CHECK_DEADLOCK FALSE
