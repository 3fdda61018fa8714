SPECIFICATION StockSpec
CONSTANTS
  t1 = t1  t2 = t2  t3 = t3
  kAvailable = kAvailable  kReserved = kReserved  kShelf = kShelf
  rAvail = rAvail  rRes1 = rRes1  rRes2 = rRes2  rShelf1 = rShelf1  rShelf2 = rShelf2
  NoRow = NoRow
  Tx = {t1, t2}
  Key = {kAvailable, kReserved, kShelf}
  Row = {rAvail, rRes1, rRes2, rShelf1, rShelf2}
  KeyOf <- MCKeyOf
  IndexedKey = {kAvailable, kShelf}
  OpeningRow = {rAvail}
  Opening <- MCOpening
  Script <- TwoShipments
  Further <- NoFurther
INVARIANT NeverOverdrawn
CHECK_DEADLOCK FALSE
