----------------------------- MODULE BackOffice -----------------------------
(***************************************************************************)
(* Production, accounts, serial numbers and the report on aging, at work   *)
(* at once.                                                                *)
(***************************************************************************)
EXTENDS AgingReport, Accounts, Serials

\* The places that calls start at.
Operations ==
  {"none", "createBom", "updateBom", "explode", "request", "createOrder", "updateOrder",
   "receiveFg", "aging", "attach", "verify", "book", "mark", "register", "issue", "ship"}

ASSUME BackOfficeConstants ==
  \A mix \in Mix0 : \A r \in Req : mix.call[r].op \in Operations

vars == <<job, disturbed, settings, batches, stock, orders, boms, wanted, reserved, report,
          receipts, invoices, bookings, serials, writes, left>>

BackOfficeInit ==
  /\ \E mix \in Mix0 : HandlersInit(mix) /\ ProductionInit(mix)
  /\ AccountsInit
  /\ SerialsInit
  /\ report = [r \in Req |-> Empty]

Step(r) ==
  \/ Enter(r)         /\ UNCHANGED <<prodVars, report, accVars, serVars>>
  \/ ProductionStep(r) /\ UNCHANGED <<report, accVars, serVars>>
  \/ Analyze(r)       /\ UNCHANGED <<accVars, serVars>>
  \/ AccountsStep(r)  /\ UNCHANGED <<prodVars, report, serVars>>
  \/ SerialsStep(r)   /\ UNCHANGED <<prodVars, report, accVars>>

Finished == (\A r \in Req : Ended(r)) /\ UNCHANGED vars

Next == (\E r \in Req : Step(r)) \/ Finished

Spec == BackOfficeInit /\ [][Next]_vars

----------------------------------------------------------------------------
(* Properties. *)

\* Types, and references: stock is never negative and is of known batches, a
\* receipt is on a known invoice, what is booked is verified and marked, and an
\* uncommitted write is of a transaction that is underway.
OfficeTypeOK ==
  /\ \A row \in DOMAIN stock : stock[row] >= 0 /\ row[1] \in DOMAIN batches
  /\ \A g \in DOMAIN receipts : receipts[g].invoice \in DOMAIN invoices \cup {"none"}
  /\ \A k \in DOMAIN bookings :
       /\ invoices[bookings[k].invoice] = "verified"
       /\ \A g \in bookings[k].receipts : receipts[g].booked
  /\ \A r \in Req : writes[r] # Empty => InTransaction(r)
  /\ \A s \in DOMAIN serials : serials[s].status \in {"available", "issued"}

\* What r has reserved for its i-th line.
OfLine(r, i) == {k \in DOMAIN reserved[r] : reserved[r][k].line = i}
Got(r, i) == SumOver(Quantities(reserved[r]), OfLine(r, i))

\* An acknowledged material request has each of its lines reserved as a whole, or
\* not at all (production.service.ts:205-225, bom.service.ts:235-255).
LineReservedWholly ==
  \A r \in Req : At(r, "done") =>
    \A i \in DOMAIN wanted[r] : Got(r, i) \in {0, wanted[r][i].qty}

\* The policy that the settings promise for a material.
Sooner(m, x, y) ==
  IF "fefoEnabled" \in DOMAIN settings /\ settings.fefoEnabled /\ m \in ShelfLife
    THEN batches[x].expiry < batches[y].expiry
    ELSE batches[x].received < batches[y].received

\* When a request is done whose material no other call has moved meanwhile, no
\* stock is left of a batch that should have gone before one it has reserved:
\* what expires sooner for materials with a shelf life under FEFO, else what was
\* received sooner (fifo.engine.ts:27-48).
PicksOldest ==
  [][\A r \in Req : ~At(r, "done") /\ job'[r].at = "done" =>
       \A i \in DOMAIN reserved[r] :
         LET b == reserved[r][i].batch
             m == batches[b].material
         IN  <<"material", m>> \notin disturbed[r] => \A row \in Available(m) : ~Sooner(m, row[1], b)]_vars

\* The line lists that a BOM was given.
Lists(id) ==
  (IF id \in DOMAIN Boms0 THEN {part.lines : part \in Boms0[id].parts} ELSE {}) \cup
  {CallOf(q).lines : q \in {p \in Req : /\ At(p, "done") /\ "lines" \in DOMAIN CallOf(p)
                                        /\ \/ Op(p) = "updateBom" /\ CallOf(p).bom = id
                                           \/ Op(p) = "createBom"}}

\* What is requested for a BOM is one of the lists that it was given, never a part
\* of one, nor of two, unless two updates of its lines overlapped
\* (bom.service.ts:155-178).
ExplodedWhole ==
  \A r \in Req : At(r, "done") /\ Op(r) = "explode" =>
    LET c == CallOf(r) IN
      \/ \E list \in Lists(c.bom) : wanted[r] = Exploded(list, c.fgQty)
      \/ \E q \in Req : At(q, "done") /\ Op(q) = "updateBom" /\ <<"bom", c.bom>> \in disturbed[q]

\* A purchase is booked once for an invoice (accounts.service.ts:183-185).
BookedOnce == \A i \in DOMAIN invoices : Cardinality(BookingsOf(i)) <= 1

\* It is booked twice only if one booking was committed while the other, which had
\* found none, was underway.
LiabilityOnce ==
  \A j, k \in DOMAIN bookings :
    j < k /\ bookings[j].invoice = bookings[k].invoice =>
      <<"invoice", bookings[k].invoice>> \in disturbed[bookings[k].by]

\* A serial number leaves with two documents only if they took the stock from
\* different rows, and one was committed while the other was underway
\* (dispatch.service.ts:193-211, issue.service.ts:268-301).
SerialLeavesOnce ==
  \A q, r \in Req : q # r =>
    \A s \in left[q] \cap left[r] :
      /\ CallOf(q).row # CallOf(r).row
      /\ <<"serial", s>> \in disturbed[q] \cup disturbed[r]

Units(rows) == SumOver(stock, rows)

\* The rows as old as the i-th band, and not as old as the next.
InBand(bands, i) ==
  {row \in Counted : /\ bands[i].from <= AgeDays(row)
                     /\ i < Len(bands) => AgeDays(row) < bands[i + 1].from}

\* A report lists as slow or dead what is as old as its limit for slow stock and
\* nothing else, and leaves such a row out only of a list that is full.
ListsOld(answer) ==
  LET old   == {row \in Counted : AgeDays(row) >= answer.policy.slowStockDays}
      shown == answer.slow \cup answer.dead
  IN  /\ shown \subseteq old
      /\ \A row \in old \ shown :
           Cardinality(IF Dead(answer.policy, row) THEN answer.dead ELSE answer.slow)
             = ListLimit

\* The report counts each unit in the band of its age, and its lists of what is slow
\* or dead hold all that is as old as the settings say, or are full
\* (aging.engine.ts:60-93).
ReportAddsUp ==
  [][\A r \in Req : At(r, "aging") /\ job'[r].at = "done" =>
       LET answer == report'[r]
           bands == answer.buckets
       IN /\ \A i \in DOMAIN bands : bands[i].qty = Units(InBand(bands, i))
          /\ Total(bands) = Units(Counted)
          /\ ListsOld(answer)]_vars
=============================================================================
