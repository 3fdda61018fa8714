---------------------------- MODULE MCBackOffice ----------------------------
(* Yarn, which has a shelf life, in two batches of which one is in two       *)
(* locations, and bolts, which have expiry dates but no shelf life.          *)
EXTENDS BackOffice

CONSTANTS r1, r2, r3

MCNumber == "Y1" :> 1 @@ "Y2" :> 2 @@ "B1" :> 3 @@ "B2" :> 4 @@ "Y3" :> 5 @@ "Y4" :> 6
Batch(m, t, e) == [material |-> m, received |-> t, expiry |-> e]
MCBatches0 ==
  "Y1" :> Batch("yarn", 0, 500) @@ "Y2" :> Batch("yarn", 100, 410) @@
  "B1" :> Batch("bolt", 200, 600) @@ "B2" :> Batch("bolt", 300, 350)
MCStock0 ==
  <<"Y1", "A", "available">> :> 1 @@ <<"Y1", "B", "available">> :> 2 @@
  <<"Y2", "A", "available">> :> 2 @@ <<"B1", "A", "available">> :> 1 @@
  <<"B2", "A", "available">> :> 3 @@ <<"B2", "B", "quality_hold">> :> 1

Line(m, n) == [material |-> m, qty |-> n, scrap |-> 0]
Scrap(m, n, s) == [material |-> m, qty |-> n, scrap |-> s]
MCOrders0 == "PO-1" :> "open"
Kit == <<"kit", "v1">>
MCBoms0 ==
  Kit :> [status |-> "active",
          parts |-> {[by |-> "seed", lines |-> <<Scrap("yarn", 1, 1), Line("bolt", 1)>>]}]

Requested(lines) == [op |-> "request", order |-> "PO-1", lines |-> lines]
ExplodeKit == [op |-> "explode", bom |-> Kit, order |-> "PO-1", fgQty |-> 2]
NewLines == [op |-> "updateBom", bom |-> Kit, status |-> "unchanged",
             lines |-> <<Line("bolt", 1), Line("kit", 1)>>]
OtherLines == [op |-> "updateBom", bom |-> Kit, status |-> "active", lines |-> <<Line("yarn", 2)>>]
Retire == [op |-> "updateBom", bom |-> Kit, status |-> "inactive"]
CreateV(v) == [op |-> "createBom", material |-> "kit", version |-> v, status |-> "active",
               lines |-> <<Line("yarn", 1)>>]
SelfBom == [op |-> "createBom", material |-> "kit", version |-> "v2", status |-> "active",
            lines |-> <<Line("kit", 1)>>]
Finish(b, e) == [op |-> "receiveFg", order |-> "PO-1", material |-> "yarn", batch |-> b,
              location |-> "A", qty |-> 1, expiry |-> e]
OrderCall(op, n, s) == [op |-> op, order |-> n, status |-> s]
Aging == [op |-> "aging"]

Attach(n, gs) == [op |-> "attach", number |-> n, receipts |-> gs]
Verify(n) == [op |-> "verify", number |-> n]
Book(n) == [op |-> "book", number |-> n]
Mark(g) == [op |-> "mark", receipt |-> g]
MCReceipts0 ==
  "G1" :> [invoice |-> "I1", booked |-> FALSE] @@ "G2" :> [invoice |-> "I2", booked |-> FALSE] @@
  "G3" :> [invoice |-> "none", booked |-> FALSE] @@ "G4" :> [invoice |-> "none", booked |-> FALSE]
MCInvoices0 == "I1" :> "verified" @@ "I2" :> "pending"

Doc(op, row, ss) == [op |-> op, material |-> "motor", row |-> row, serials |-> ss]
RegisterCall(ss) == [op |-> "register", material |-> "motor", serials |-> ss]
MCSerials0 ==
  "S1" :> [material |-> "motor", status |-> "available"] @@
  "S2" :> [material |-> "motor", status |-> "available"]

Fifo == [agingBands |-> <<60, 0, 30, 60>>, deadStockDays |-> 100]
Fefo == [fefoEnabled |-> TRUE, agingBands |-> <<7>>, deadStockDays |-> 40, slowStockDays |-> 90]

Mix(blob, c1, c2, c3) == [settings |-> blob, call |-> r1 :> c1 @@ r2 :> c2 @@ r3 :> c3]

MCMix0 ==
  \* requests that compete for stock, while goods come in
  {Mix(blob, Requested(<<Line("yarn", 4), Line("bolt", 2)>>), c2, c3) :
     blob \in {Fifo, Fefo}, c2 \in {Requested(<<Line("yarn", 2)>>), ExplodeKit},
     c3 \in {Finish("Y3", 405), Requested(<<Line("bolt", 2)>>), Requested(<<Line("yarn", 0)>>)}}
  \* a BOM that is exploded while it is edited
  \cup {Mix(Fifo, ExplodeKit, c2, c3) :
     c2 \in {NewLines, CreateV("v1"), CreateV("v2"), SelfBom}, c3 \in {OtherLines, Retire}}
  \cup {Mix(Fifo, [ExplodeKit EXCEPT !.order = "PO-9"], [Retire EXCEPT !.bom = <<"kit", "v9">>],
            [Finish("Y3", 400) EXCEPT !.order = "PO-9"])}
  \* production orders, goods of which some come in twice, and the report
  \cup {Mix(blob, Aging, c2, c3) :
     blob \in {Fifo, Fefo}, c2 \in {Finish("Y3", 400), Requested(<<Line("yarn", 3)>>)},
     c3 \in {Finish("Y4", Never), Finish("Y3", Never), OrderCall("createOrder", "PO-1", "open"),
             OrderCall("createOrder", "PO-2", "open"), OrderCall("updateOrder", "PO-1", "closed")}}
  \* invoices attached, verified and booked, and receipts booked without one
  \cup {Mix(Fifo, Book("I1"), c2, c3) :
     c2 \in {Book("I1"), Attach("I3", {"G1", "G3"}), Attach("I3", {"G4"})},
     c3 \in {Book("I1"), Mark("G1"), Mark("G4"), Attach("I3", {"G1"})}}
  \cup {Mix(Fifo, Verify("I2"), Book("I2"), c3) :
     c3 \in {Verify("I2"), Book("I2"), Attach("I3", {"G2"})}}
  \* documents that take the same serials
  \cup {Mix(Fifo, Doc("ship", "row1", <<"S1", "S2">>), c2, c3) :
     c2 \in {Doc("ship", "row1", <<"S2">>), Doc("ship", "row2", <<"S2", "S1">>),
             Doc("issue", "row2", <<"S3", "S2", "S1">>)},
     c3 \in {RegisterCall(<<"S3", "S2">>), Doc("issue", "row3", <<"S3", "S3">>),
             Doc("ship", "row3", <<"S2", "S3">>), Doc("ship", "row3", <<"S2">>)}}
  \cup {Mix(Fifo, [RegisterCall(<<"S3">>) EXCEPT !.material = "bolt"],
            RegisterCall(<<"S3", "S4">>), RegisterCall(<<"S4", "S3">>)),
         Mix(Fifo, RegisterCall(<<"S3", "S4">>), Doc("issue", "row1", <<"S4", "S3">>),
            [Doc("issue", "row1", <<"S5">>) EXCEPT !.material = "bolt"])}

\* Two bookings of one invoice.
MCDouble == {Mix(Fifo, Book("I1"), Book("I1"), NoCall), Mix(Fifo, Verify("I2"), Book("I2"), Book("I2"))}
=============================================================================
