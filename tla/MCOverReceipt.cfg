SPECIFICATION GrnSpec
CONSTANTS
  t1 = t1  t2 = t2  t3 = t3
  g1 = g1  g2 = g2  g3 = g3  g4 = g4  o1 = o1  i1 = i1  i2 = i2
  NoItem = NoItem  NoOrder = NoOrder  NoRow = NoRow
  Tx = {t1, t2}
  Key <- MCKey
  Row <- MCKey
  IndexedKey = {}
  OpeningRow = {}
  KeyOf <- MCKeyOf
  Opening <- MCOpening
  Script <- MCScript
  Further <- MCFurther
  Slot <- MCSlot
  SlotOf <- MCSlotOf
  StockOf <- MCStockOf
  Order = {o1}
  Item = {i1, i2}
  OrderOf <- MCOrderOf
  Ordered <- MCOrdered
  Receipt = {g1, g2, g3, g4}
  Draft0 = {g1}
  Handoff = TRUE
  Call0 <- TwoReceipts
INVARIANT NeverOverReceived
CHECK_DEADLOCK FALSE
