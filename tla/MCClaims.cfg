SPECIFICATION ResSpec
CONSTANTS
  t1 = t1  t2 = t2  t3 = t3
  b1 = b1  b2 = b2  r1 = r1  r2 = r2  r3 = r3
  po1 = "po1"  po2 = "po2"  m1 = m1  o1 = o1
  kA1 = kA1  kR1 = kR1  kA2 = kA2  kR2 = kR2
  rowA1 = rowA1  rowR1 = rowR1  rowA2 = rowA2  rowR2 = rowR2
  NoRow = NoRow  NoBatch = NoBatch  NoPO = NoPO  NoRequest = NoRequest
  Tx = {t1}
  Key = {kA1, kR1, kA2, kR2}
  Row = {rowA1, rowR1, rowA2, rowR2}
  IndexedKey = {kA1, kR1, kA2, kR2}
  OpeningRow = {rowA1, rowR1, rowA2, rowR2}
  KeyOf <- MCKeyOf
  Opening <- MCOpening
  Script <- MCScript
  Further <- MCFurther
  Batch = {b1, b2}
  Age <- MCAge
  Avail <- MCAvail
  Reserved <- MCReserved
  Res = {r1, r2, r3}
  Reservation0 <- MCReservation0
  ByPriority <- MCByPriority
  Request = {m1}
  PoOf <- MCPoOf
  Requested <- MCRequested
  Order = {o1}
  Call0 <- OneIssue
INVARIANT ClaimsAreReserved
CHECK_DEADLOCK FALSE
