--------------------------- MODULE MCStockEngine ---------------------------
(* Instances of StockEngine for one batch: its available stock on a shelf,   *)
(* its reserved stock without a location (so that it may get two rows), and  *)
(* a second shelf that holds none of it yet.                                 *)
EXTENDS StockEngine

CONSTANTS t1, t2, t3, kAvailable, kReserved, kShelf,
          rAvail, rRes1, rRes2, rShelf1, rShelf2

MCKeyOf ==
  [r \in Row |-> CASE r = rAvail -> kAvailable
                   [] r \in {rRes1, rRes2} -> kReserved
                   [] r \in {rShelf1, rShelf2} -> kShelf]
MCOpening == [r \in Row |-> IF r = rAvail THEN 3 ELSE 0]

Reserve(q)   == Move(kAvailable, kReserved, q)
Unreserve(q) == Move(kReserved, kAvailable, q)
Transfer(q)  == Move(kAvailable, kShelf, q)
Receive(q)   == <<Add(kShelf, q)>>
Ship(q)      == <<Deduct(kAvailable, q)>>

\* A document of two lines, a reservation, its release, a transfer, a receipt.
MCScript ==
  [t \in Tx |->
     CASE t = t1 -> {Reserve(1), Reserve(1) \o Ship(2), Receive(1) \o Transfer(1)}
       [] t = t2 -> {Reserve(2), Unreserve(1), Transfer(2)}
       [] t = t3 -> {Ship(3), Receive(2), Unreserve(1) \o Ship(1)}]

\* Two shipments of the same stock.
TwoShipments == [t \in Tx |-> {Ship(2)}]
\* A shipment that goes on with another line once it has seen the first.
MCFurther == [t \in Tx |-> IF t = t3 THEN {Ship(1)} ELSE {}]
NoFurther == [t \in Tx |-> {}]
=============================================================================
