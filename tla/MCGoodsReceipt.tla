--------------------------- MODULE MCGoodsReceipt ---------------------------
(* Instances of GoodsReceipt: one order of two lines, a draft receipt of it, *)
(* a second receipt of it and one without an order.                          *)
EXTENDS GoodsReceipt

CONSTANTS t1, t2, t3, g1, g2, g3, g4, o1, i1, i2

MCSlotOf(t, i) == <<t, i>>
MCSlot == Tx \X (1..2)
MCStockOf(s, st) == <<s, st>>
MCKey == MCSlot \X {"quality_hold", "available", "damaged", "rejected"}
MCKeyOf == [k \in MCKey |-> k]
MCOpening == [k \in MCKey |-> 0]
MCScript == [t \in Tx |-> {<<>>}]
MCOrderOf == [i \in Item |-> o1]
MCOrdered == [i \in Item |-> IF i = i1 THEN 3 ELSE 1]

Of(i, q, d, qc) == [item |-> i, qty |-> q, short |-> 0, damage |-> d, qc |-> qc]
PostFor(g, o, dr, ls) ==
  [op |-> "post", receipt |-> g, order |-> o, draft |-> dr, over |-> FALSE, lines |-> ls]
Result(s, r, a, x) == [slot |-> s, result |-> r, accepted |-> a, rejected |-> x]
Inspect(g, rs) == [op |-> "inspect", receipt |-> g, lines |-> rs]
Edit(b) == [op |-> "edit", order |-> o1, open |-> b]
Cancel == [op |-> "cancel", order |-> o1]
Save(g) == [op |-> "save", receipt |-> g]

PostDraft == PostFor(g1, o1, TRUE, <<Of(i1, 3, 1, TRUE), Of(i2, 1, 0, TRUE)>>)

\* The draft is posted, or a receipt of the order's other line, while another
\* receipt of the order, an edit of it or an inspection is underway, and a
\* second posting of the draft, an inspection of both lines, a receipt without
\* an order, a cancellation or a new draft.
MCCalls ==
  [t \in Tx |->
     CASE t = t1 -> {PostDraft, PostFor(g4, o1, FALSE, <<Of(i2, 1, 0, FALSE)>>)}
       [] t = t2 -> {PostFor(g2, o1, FALSE, <<[Of(i1, 2, 0, FALSE) EXCEPT !.short = 1]>>),
                     Edit(TRUE), Inspect(g1, <<Result(<<t1, 1>>, "accepted", 1, 0)>>),
                     Inspect(g1, <<Result(<<t3, 1>>, "hold", 0, 0),
                                   Result(<<t3, 2>>, "accepted", 1, 0)>>)}
       [] t = t3 -> {PostDraft,
                     PostFor(g3, NoOrder, FALSE, <<Of(NoItem, 1, 1, TRUE), Of(NoItem, 1, 0, FALSE)>>),
                     Inspect(g1, <<Result(<<t1, 1>>, "rejected", 0, 1),
                                   Result(<<t1, 2>>, "accepted", 1, 0)>>),
                     Inspect(g1, <<Result(<<t1, 1>>, "accepted", 1, 1)>>),
                     Cancel, Save(g3)}]

CallsOf(t, c) ==
  IF c.op = "post" THEN {Putaway(SlotOf(t, i), c.lines[i]) : i \in DOMAIN c.lines}
  ELSE IF c.op = "inspect" THEN {Release(c.lines[i]) : i \in DOMAIN c.lines}
  ELSE {}
MCFurther == [t \in Tx |-> UNION {CallsOf(t, c) : c \in Call0[t]}]

\* Two receipts of the same order.
TwoReceipts ==
  [t \in Tx |-> {PostFor(IF t = t1 THEN g2 ELSE g3, o1, FALSE, <<Of(i1, 2, 0, FALSE)>>)}]
=============================================================================
