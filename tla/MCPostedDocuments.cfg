SPECIFICATION FairDocSpec
CONSTANTS
  t1 = t1  t2 = t2  i1 = i1  i2 = i2  d1 = d1
  kAvailable = kAvailable  kDamaged = kDamaged  kRaw = kRaw  kFinished = kFinished
  rAvail = rAvail  rDam1 = rDam1  rDam2 = rDam2  rRaw = rRaw  rFin = rFin
  Transfer = Transfer  Issue = Issue
  NoRow = NoRow  NoDoc = NoDoc
  Tx = {t1, t2, i1, i2, d1}
  Key = {kAvailable, kDamaged, kRaw, kFinished}
  Row = {rAvail, rDam1, rDam2, rRaw, rFin}
  KeyOf <- MCKeyOf
  IndexedKey = {kAvailable, kRaw, kFinished}
  OpeningRow = {rAvail, rRaw, rFin}
  Opening <- MCOpening
  Script <- MCScript
  Further <- NoFurther
  DocType = {Transfer, Issue}
  DocOf <- MCDocOf
  Numbering <- MCNumbering
  Posted0 <- MCPosted0
  ScanLimit = 2
  PoolSize = 2
INVARIANTS DocTypeOK OneAtATime NoGaps TakenByRival BalanceChain OneRowPerKey
PROPERTIES SerialLedger EveryDocumentEnds
CHECK_DEADLOCK FALSE
