SPECIFICATION Spec
CONSTANTS
  r1 = r1
  r2 = r2
  r3 = r3
  Req = {r1, r2, r3}
  Mix0 <- MCDouble
  ShelfLife = {"yarn"}
  Number <- MCNumber
  Clock = 400
  Scale = 2
  DayLength = 2
  ListLimit = 2
  Batches0 <- MCBatches0
  Stock0 <- MCStock0
  Orders0 <- MCOrders0
  Boms0 <- MCBoms0
  Ready = {"G1", "G2", "G3"}
  Receipts0 <- MCReceipts0
  Invoices0 <- MCInvoices0
  SerialTracked = {"motor"}
  Serials0 <- MCSerials0
INVARIANTS BookedOnce
