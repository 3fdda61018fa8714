------------------------- MODULE MCPostedDocuments -------------------------
(* An instance of PostedDocuments: two transfers of one batch between its    *)
(* available stock (on a shelf) and its damaged stock, which has no          *)
(* location, beside two issues of a second batch and the dispatch of a third *)
(* one.  maxSeq reads two documents: there are more issues than that already, *)
(* and the second transfer to be posted is the last whose number it finds.    *)
EXTENDS PostedDocuments

CONSTANTS t1, t2, i1, i2, d1, kAvailable, kDamaged, kRaw, kFinished,
          rAvail, rDam1, rDam2, rRaw, rFin, Transfer, Issue

MCKeyOf == [r \in Row |-> CASE r = rAvail -> kAvailable
                            [] r \in {rDam1, rDam2} -> kDamaged
                            [] r = rRaw -> kRaw
                            [] r = rFin -> kFinished]
MCOpening ==
  [r \in Row |-> CASE r = rAvail -> 3 [] r = rRaw -> 2 [] r = rFin -> 1 [] OTHER -> 0]

MCPosted0 == [d \in DocType |-> IF d = Issue THEN 3 ELSE 1]

\* Transfers that compete for three units and create the damaged row; issues
\* of which one must be refused when the other is posted.
MCScript ==
  [t \in Tx |->
     CASE t = t1 -> {Move(kAvailable, kDamaged, 1) \o Move(kAvailable, kDamaged, 1)}
       [] t = t2 -> {Move(kAvailable, kDamaged, 2)}
       [] t = i1 -> {<<Deduct(kRaw, 2)>>}
       [] t = i2 -> {<<Deduct(kRaw, 1)>>}
       [] t = d1 -> {<<Deduct(kFinished, 1)>>}]

MCDocOf == [t \in Tx |-> CASE t \in {t1, t2} -> Transfer
                           [] t \in {i1, i2} -> Issue
                           [] t = d1 -> NoDoc]
MCNumbering == [t \in Tx |-> CASE t \in {t1, t2} -> "before"
                               [] t \in {i1, i2} -> "second"
                               [] t = d1 -> "none"]

NoFurther == [t \in Tx |-> {}]

ASSUME SeparateTypes == OneTypePerKey /\ OneOpeningRow
=============================================================================
