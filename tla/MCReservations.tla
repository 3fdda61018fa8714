--------------------------- MODULE MCReservations ---------------------------
(* Instances of Reservations: an older batch b1 with stock reserved for two  *)
(* production orders, and a newer batch b2.                                  *)
EXTENDS Reservations

CONSTANTS t1, t2, t3, b1, b2, r1, r2, r3, po1, po2, m1, o1,
          kA1, kR1, kA2, kR2, rowA1, rowR1, rowA2, rowR2

MCKeyOf == [r \in Row |-> CASE r = rowA1 -> kA1 [] r = rowR1 -> kR1
                            [] r = rowA2 -> kA2 [] r = rowR2 -> kR2]
MCOpening == [r \in Row |-> CASE r = rowA1 -> 1 [] r = rowR1 -> 2
                              [] r = rowA2 -> 2 [] r = rowR2 -> 0]
MCAge == [b \in Batch |-> IF b = b1 THEN 1 ELSE 2]
MCAvail == [b \in Batch |-> IF b = b1 THEN kA1 ELSE kA2]
MCReserved == [b \in Batch |-> IF b = b1 THEN kR1 ELSE kR2]

Active(q, p) == [status |-> "active", qty |-> q, batch |-> b1, po |-> p]
MCReservation0 == [r \in Res |-> CASE r = r1 -> Active(1, po1)
                                   [] r = r2 -> Active(1, po2)
                                   [] OTHER -> NoReservation]
MCByPriority == <<r1, r2, r3>>

MCPoOf == [m \in Request |-> po1]
MCRequested == [m \in Request |-> 2]

Line(b, q) == [batch |-> b, qty |-> q]
IssueFor(m, p, ls) ==
  [op |-> "issue", request |-> m, po |-> p, override |-> FALSE, lines |-> ls]
Reserve(b, q, p) == [op |-> "reserve", res |-> r3, batch |-> b, qty |-> q, po |-> p]
Release(r) == [op |-> "release", res |-> r]
Ship == [op |-> "ship", order |-> o1, lines |-> <<Line(b1, 1), Line(b2, 1)>>]

\* A reservation of either kind or a dispatch; a release, or an issue
\* for the material request, in FIFO order or overriding it; an issue for the
\* request or for an order, of two lines, or a second release.
MCCalls ==
  [t \in Tx |->
     CASE t = t1 -> {Reserve(NoBatch, 1, po1), Reserve(b2, 1, po2), Ship}
       [] t = t2 -> {Release(r1), IssueFor(m1, NoPO, <<Line(b1, 1)>>),
                     [IssueFor(m1, NoPO, <<Line(b2, 1)>>) EXCEPT !.override = TRUE]}
       [] t = t3 -> {IssueFor(m1, NoPO, <<Line(b1, 1), Line(b1, 1)>>),
                     IssueFor(NoRequest, po2, <<Line(b1, 1), Line(b2, 1)>>),
                     Release(r1)}]

\* One issue for the material request of the first order takes both units.
OneIssue == [t \in Tx |-> {IssueFor(m1, NoPO, <<Line(b1, 2)>>)}]

\* One order shipped twice, with stock for both.
Plenty == [r \in Row |-> IF r = rowR2 THEN 0 ELSE 2]
TwoShipments == [t \in Tx |-> {Ship}]

MCScript ==
  [t \in Tx |->
     {<<>>} \cup {Move(kA1, kR1, 1), Move(kA2, kR2, 1), Move(kR1, kA1, 1),
                  <<Deduct(kA1, 1), Deduct(kA2, 1)>>}]
MCFurther == [t \in Tx |-> {<<Deduct(k, q)>> : k \in Key, q \in 1..2}]
=============================================================================
