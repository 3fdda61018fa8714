---------------------------- MODULE GoodsReceipt ----------------------------
(***************************************************************************)
(* Goods receipts, their inspection, and edits of the purchase orders they *)
(* are received against.                                                   *)
(*                                                                         *)
(* Every request first reads what it decides on, outside any transaction   *)
(* (Start).  A receipt then numbers and writes its header, and for each    *)
(* line a new batch, its stock and the order's received quantity, which it *)
(* computes from what it read at the start.  An inspection is numbered     *)
(* too, moves stock out of quality hold and decides the receipt's status   *)
(* from rows it reads afresh.  The numbers keep receipts apart from each   *)
(* other, and inspections apart from each other, between header and commit *)
(* (OneAtATime of DocumentSeries).                                         *)
(*                                                                         *)
(* Abstractions: a line is written by one transaction at one index, and    *)
(* its batch has the same identity; warehouses, batch attributes, supplier *)
(* metrics, traceability links and the replacing of an order's lines are   *)
(* left out; a request that loses the race for its number simply waits.    *)
(***************************************************************************)
EXTENDS StockEngine

CONSTANTS
  Slot,          \* identities of receipt lines and of their batches
  SlotOf(_, _),  \* the line that a transaction writes at an index
  StockOf(_, _), \* the stock key of a batch in a status
  Order,         \* purchase orders
  Item,          \* their lines
  OrderOf,       \* the order of each line
  Ordered,       \* its orderedQty
  NoItem,        \* what a line that names no line of an order names
  NoOrder,       \* a receipt without an order
  Receipt,       \* goods receipts
  Draft0,        \* those that are saved drafts at the start
  Handoff,       \* accountsHandoffEnabled
  Call0          \* Call0[t]: the API calls t may be

\* The calls, as the controllers validate them.
ReceiptLine == [item : Item \cup {NoItem}, qty : Nat \ {0}, short : Nat, damage : Nat, qc : BOOLEAN]
Results == [slot : Slot, result : {"accepted", "rejected", "hold", "deviation"},
            accepted : Nat, rejected : Nat]
SaveCall == [op : {"save"}, receipt : Receipt]
PostCall == [op : {"post"}, receipt : Receipt, order : Order \cup {NoOrder},
             draft : BOOLEAN, over : BOOLEAN, lines : Seq(ReceiptLine)]
InspectCall == [op : {"inspect"}, receipt : Receipt, lines : Seq(Results)]
CancelCall == [op : {"cancel"}, order : Order]
EditCall == [op : {"edit"}, order : Order, open : BOOLEAN]

\* Calls that create the receipt they name.
Creates(c) == c.op = "save" \/ (c.op = "post" /\ ~c.draft)

ASSUME ReceiptConstants ==
  /\ OrderOf \in [Item -> Order]
  /\ Ordered \in [Item -> Nat]
  /\ NoOrder \notin Order /\ NoItem \notin Item
  /\ Draft0 \subseteq Receipt
  /\ Handoff \in BOOLEAN
  /\ \A t \in Tx : \A c \in Call0[t] :
       c \in SaveCall \/ c \in PostCall \/ c \in InspectCall \/ c \in CancelCall \/ c \in EditCall
  /\ \A t, u \in Tx : \A c \in Call0[t], d \in Call0[u] :
       t # u /\ Creates(c) /\ Creates(d) => c.receipt # d.receipt

\* Each line gets rows of its own.
ASSUME SlotConstants ==
  \A t, u \in Tx : \A c \in Call0[t], d \in Call0[u] :
    c.op = "post" /\ d.op = "post" =>
      \A i \in DOMAIN c.lines, j \in DOMAIN d.lines :
        /\ SlotOf(t, i) \in Slot
        /\ SlotOf(t, i) = SlotOf(u, j) => t = u /\ i = j

\* Finitely many requests; a batch comes with its line, and so does its stock.
ASSUME BatchConstants ==
  /\ IsFiniteSet(Tx) /\ IsFiniteSet(OpeningRow)
  /\ \A s, x \in Slot, v, w \in {"quality_hold", "available", "damaged", "rejected"} :
       StockOf(s, v) \in Key /\ (StockOf(s, v) = StockOf(x, w) => s = x /\ v = w)
  /\ \A r \in OpeningRow, s \in Slot : KeyOf[r] # StockOf(s, "quality_hold")

VARIABLES
  received,   \* committed receivedQty of each order line
  poStatus,   \* committed status of each order
  status,     \* committed status of each receipt
  ready,      \* receipts whose readyForAccounts is set
  line,       \* committed receipt lines
  at,         \* where each request is
  call,       \* the API call it is
  seen,       \* received as it read it, and as it then counts it in memory
  seenLine,   \* the lines of the receipt as an inspection read them
  pos,        \* its lines already done
  newLine,    \* the receipt lines its transaction has written
  newReceived,\* the order lines its transaction has written
  outcome     \* the status it has decided for its receipt

rowVars == <<received, poStatus, status, ready, line>>
grnVars == <<received, poStatus, status, ready, line,
             at, call, seen, seenLine, pos, newLine, newReceived, outcome>>
allVars == <<live, qty, ledger, phase, todo, found, read, dirty, val, pend,
             received, poStatus, status, ready, line,
             at, call, seen, seenLine, pos, newLine, newReceived, outcome>>

NoLine == [receipt |-> "none"]
Nothing == [x \in {} |-> NoLine]

LinesOf(f, g) == {s \in DOMAIN f : f[s].receipt = g}
ItemsOf(o) == {i \in Item : OrderOf[i] = o}

----------------------------------------------------------------------------
(* What a request reads before its transaction. *)

GrnInit ==
  /\ StockInit
  /\ received = [i \in Item |-> 0]
  /\ poStatus = [o \in Order |-> "open"]
  /\ status = [g \in Receipt |-> IF g \in Draft0 THEN "draft" ELSE "none"]
  /\ ready = {}
  /\ line = Nothing
  /\ at = [t \in Tx |-> "idle"]
  /\ call = [t \in Tx |-> [op |-> "none"]]
  /\ seen = [t \in Tx |-> received]
  /\ seenLine = [t \in Tx |-> Nothing]
  /\ pos = [t \in Tx |-> 0]
  /\ newLine = [t \in Tx |-> Nothing]
  /\ newReceived = [t \in Tx |-> [x \in {} |-> 0]]
  /\ outcome = [t \in Tx |-> "none"]

\* The checks a call passes before it changes anything.
Admitted(c) ==
  CASE c.op = "save"    -> status[c.receipt] = "none"
    [] c.op = "post"    -> status[c.receipt] = IF c.draft THEN "draft" ELSE "none"
    [] c.op = "inspect" -> status[c.receipt] \in {"pending_qc", "partial"}
    [] c.op = "cancel"  -> \A i \in ItemsOf(c.order) : received[i] = 0
    [] c.op = "edit"    -> poStatus[c.order] \notin {"closed", "cancelled"}

Start(t) ==
  /\ at[t] = "idle"
  /\ \E c \in Call0[t] :
       /\ Admitted(c)
       /\ call' = [call EXCEPT ![t] =
            IF c.op = "edit" THEN Overlay(c, [was |-> poStatus[c.order]]) ELSE c]
       /\ seenLine' = [seenLine EXCEPT ![t] =
            IF c.op = "inspect"
              THEN [s \in LinesOf(line, c.receipt) |-> line[s]] ELSE Nothing]
  /\ seen' = [seen EXCEPT ![t] = received]
  /\ at' = [at EXCEPT ![t] = "checked"]
  /\ UNCHANGED <<stockVars, rowVars, pos, newLine, newReceived, outcome>>

\* updateOrder: one statement on the order's row, which a posting locks only
\* to commit at once.  Cancelling sets the status; another edit writes back the
\* status it read, a draft's being opened if asked.
UpdateOrder(t) ==
  /\ at[t] = "checked" /\ call[t].op \in {"cancel", "edit"}
  /\ poStatus' = [poStatus EXCEPT ![call[t].order] =
       IF call[t].op = "cancel" THEN "cancelled"
       ELSE IF call[t].was = "draft" /\ call[t].open THEN "open" ELSE call[t].was]
  /\ at' = [at EXCEPT ![t] = "done"]
  /\ UNCHANGED <<stockVars, received, status, ready, line, call, seen, seenLine, pos,
                 newLine, newReceived, outcome>>

\* createDraft: one insert.
SaveDraft(t) ==
  /\ at[t] = "checked" /\ call[t].op = "save"
  /\ status' = [status EXCEPT ![call[t].receipt] = "draft"]
  /\ at' = [at EXCEPT ![t] = "done"]
  /\ UNCHANGED <<stockVars, received, poStatus, ready, line, call, seen, seenLine, pos,
                 newLine, newReceived, outcome>>

----------------------------------------------------------------------------
(* The transaction of a receipt or an inspection. *)

\* Variant: the numbers come from a sequence, and nothing waits.
SequenceNumber(t) == TRUE

\* Variant: a lock of the session, which a rollback does not release.
SessionLock(t) ==
  \A u \in Tx \ {t} :
    ~(call[u].op = call[t].op /\ phase[u] \in {"find", "write", "aborted"})

\* The next number of a series is free for one document at a time.
NumberFree(t) ==
  \A u \in Tx \ {t} : ~(call[u].op = call[t].op /\ InFlight(u))

\* The receipt's row is locked by a posting from its header on.
ReceiptFree(t) ==
  \A u \in Tx \ {t} :
    ~(InFlight(u) /\ call[u].op = "post" /\ call[u].receipt = call[t].receipt)

Open(t) ==
  /\ at[t] = "checked" /\ call[t].op \in {"post", "inspect"}
  /\ NumberFree(t)
  /\ call[t].op = "post" => ReceiptFree(t)
  /\ Begin(t)
  /\ todo'[t] = <<>>
  /\ at' = [at EXCEPT ![t] = "line"]
  /\ UNCHANGED <<rowVars, call, seen, seenLine, pos, newLine, newReceived, outcome>>

AtLine(t, op) ==
  /\ at[t] = "line" /\ phase[t] = "find" /\ todo[t] = <<>>
  /\ call[t].op = op
  /\ pos[t] < Len(call[t].lines)

Current(t) == call[t].lines[pos[t] + 1]

\* Variant: short deliveries are not subtracted.
WithoutShort(l) == l.qty

\* What a line counts for against its order.
Counted(l) == l.qty - l.short

\* "Invalid PO item", and "GRN cannot exceed PO pending qty": against the
\* quantity read at the start.
Allows(t, l) ==
  call[t].order # NoOrder =>
    /\ l.item \in ItemsOf(call[t].order)
    /\ call[t].over \/ Counted(l) <= Ordered[l.item] - seen[t][l.item]

\* putawayLine: into hold or available, and what is damaged apart.
Putaway(s, l) ==
  (IF l.qty > l.damage
     THEN <<Add(StockOf(s, IF l.qc THEN "quality_hold" ELSE "available"),
                l.qty - l.damage)>>
     ELSE <<>>)
  \o (IF l.damage > 0 THEN <<Add(StockOf(s, "damaged"), l.damage)>> ELSE <<>>)

\* goodsReceiptItem.create; a receipt without an order keeps no order line.
LineRow(c, l) ==
  [receipt |-> c.receipt, item |-> IF c.order = NoOrder THEN NoItem ELSE l.item,
   qty |-> l.qty, short |-> l.short, damage |-> l.damage, qcRequired |-> l.qc,
   qcStatus |-> IF l.qc THEN "pending" ELSE "waived", accepted |-> 0, rejected |-> 0]

\* A line of a receipt: its batch and item rows and the start of its putaway.
ReceiveLine(t) ==
  /\ AtLine(t, "post")
  /\ LET l == Current(t)
         s == SlotOf(t, pos[t] + 1)
     IN  /\ Allows(t, l)
         /\ CallWith(t, Putaway(s, l))
         /\ newLine' = [newLine EXCEPT ![t] = SetAt(@, s, LineRow(call[t], l))]
  /\ at' = [at EXCEPT ![t] = "putaway"]
  /\ UNCHANGED <<rowVars, call, seen, seenLine, pos, newReceived, outcome>>

\* The order line's new receivedQty.
NewReceived(t, l) == seen[t][l.item] + Counted(l)

\* The end of a receipt line.
EndReceiveLine(t) ==
  /\ at[t] = "putaway" /\ phase[t] = "find" /\ todo[t] = <<>>
  /\ LET l == Current(t)
     IN  IF call[t].order = NoOrder THEN UNCHANGED <<seen, newReceived>>
         ELSE /\ seen' = [seen EXCEPT ![t][l.item] = NewReceived(t, l)]
              /\ newReceived' = [newReceived EXCEPT ![t] = SetAt(@, l.item, NewReceived(t, l))]
  /\ pos' = [pos EXCEPT ![t] = @ + 1]
  /\ at' = [at EXCEPT ![t] = "line"]
  /\ UNCHANGED <<stockVars, rowVars, call, seenLine, newLine, outcome>>

\* What the transaction wrote is gone.
Failed(t) ==
  /\ at' = [at EXCEPT ![t] = "failed"]
  /\ UNCHANGED <<rowVars, call, seen, seenLine, pos, newLine, newReceived, outcome>>

\* A line is not allowed, or "Invalid GRN item".
LineRefused(t) ==
  /\ \/ AtLine(t, "post") /\ ~Allows(t, Current(t))
     \/ AtLine(t, "inspect") /\ Current(t).slot \notin DOMAIN seenLine[t]
  /\ Rollback(t)
  /\ Failed(t)

\* What is accepted and what is rejected leaves quality hold.
Release(l) ==
  (IF l.accepted > 0
     THEN Move(StockOf(l.slot, "quality_hold"), StockOf(l.slot, "available"), l.accepted)
     ELSE <<>>)
  \o (IF l.rejected > 0
        THEN Move(StockOf(l.slot, "quality_hold"), StockOf(l.slot, "rejected"), l.rejected)
        ELSE <<>>)

\* The line's row after a result.
Inspected(was, l) ==
  [was EXCEPT !.accepted = @ + l.accepted,
              !.rejected = @ + l.rejected,
              !.qcStatus = IF l.result \in {"hold", "rejected"} THEN l.result ELSE "accepted"]

\* The engine calls of a line are among those its transaction may decide on.
ASSUME CallConstants ==
  \A t \in Tx : \A c \in Call0[t] :
    /\ c.op = "post" =>
         \A i \in DOMAIN c.lines : Putaway(SlotOf(t, i), c.lines[i]) \in Further[t]
    /\ c.op = "inspect" => \A i \in DOMAIN c.lines : Release(c.lines[i]) \in Further[t]

\* A line of an inspection: the item gets what it had when the request
\* started, plus this result; then stock leaves quality hold.
InspectLine(t) ==
  /\ AtLine(t, "inspect")
  /\ LET l == Current(t)
         was == seenLine[t][l.slot]
     IN  /\ l.slot \in DOMAIN seenLine[t]
         /\ newLine' = [newLine EXCEPT ![t] = SetAt(@, l.slot, Inspected(was, l))]
         /\ CallWith(t, Release(l))
  /\ at' = [at EXCEPT ![t] = "moves"]
  /\ UNCHANGED <<rowVars, call, seen, seenLine, pos, newReceived, outcome>>

EndInspectLine(t) ==
  /\ at[t] = "moves" /\ phase[t] = "find" /\ todo[t] = <<>>
  /\ pos' = [pos EXCEPT ![t] = @ + 1]
  /\ at' = [at EXCEPT ![t] = "line"]
  /\ UNCHANGED <<stockVars, rowVars, call, seen, seenLine, newLine, newReceived, outcome>>

EngineCall(t) == (Find(t) \/ Write(t)) /\ UNCHANGED grnVars

----------------------------------------------------------------------------
(* The statuses at the end. *)

\* Rows as the transaction reads them: its own writes over what is committed.
ReceivedSeen(t) == Overlay(newReceived[t], received)
LineSeen(t) == Overlay(newLine[t], line)

\* Variant: only the lines of this receipt are looked at.
StatusOfThisReceipt(t, o) ==
  IF \A i \in DOMAIN newReceived[t] : newReceived[t][i] >= Ordered[i]
    THEN "closed" ELSE "partial"

NewOrderStatus(t, o) ==
  LET all == \A i \in ItemsOf(o) : ReceivedSeen(t)[i] >= Ordered[i]
      any == \E i \in ItemsOf(o) : ReceivedSeen(t)[i] > 0
  IN  IF all THEN "closed" ELSE IF any THEN "partial" ELSE "open"

\* A receipt waits for inspection if one of the lines just posted does.
PostedStatus(t) ==
  IF \E i \in DOMAIN call[t].lines : call[t].lines[i].qc THEN "pending_qc" ELSE "approved"

\* Variant: only the lines of this inspection are looked at.
StatusOfThese(t) ==
  LET mine == {newLine[t][s] : s \in DOMAIN newLine[t]}
  IN  IF \E l \in mine : l.qcRequired /\ l.qcStatus = "pending" THEN "pending_qc"
      ELSE IF \E l \in mine : l.accepted > 0 THEN "approved" ELSE "rejected"

\* The receipt's status after an inspection, from all of its lines.
InspectedStatus(t) ==
  LET lines == {LineSeen(t)[s] : s \in LinesOf(LineSeen(t), call[t].receipt)}
      accepted == \E l \in lines : l.accepted > 0
      rejected == \E l \in lines : l.rejected > 0
  IN  CASE \E l \in lines : l.qcRequired /\ l.qcStatus = "pending" -> "pending_qc"
        [] OTHER -> CASE accepted /\ rejected -> "partial"
                      [] accepted /\ ~rejected -> "approved"
                      [] ~accepted /\ rejected -> "rejected"
                      [] ~accepted /\ ~rejected -> "completed"

\* The statuses are decided on the rows as they are now, uncommitted ones of
\* others excepted.
Decide(t) ==
  /\ at[t] = "line" /\ phase[t] = "find" /\ todo[t] = <<>>
  /\ pos[t] = Len(call[t].lines)
  /\ outcome' = [outcome EXCEPT ![t] =
       IF call[t].op = "post" THEN PostedStatus(t) ELSE InspectedStatus(t)]
  /\ at' = [at EXCEPT ![t] = "decided"]
  /\ UNCHANGED <<stockVars, rowVars, call, seen, seenLine, pos, newLine, newReceived>>

\* The receipt's row is written, once no one else has it, and the transaction
\* commits.
Finish(t) ==
  /\ at[t] = "decided"
  /\ ReceiptFree(t)
  /\ Commit(t)
  /\ received' = ReceivedSeen(t)
  /\ line' = LineSeen(t)
  /\ poStatus' = IF call[t].op = "post" /\ call[t].order # NoOrder
                   THEN [poStatus EXCEPT ![call[t].order] = NewOrderStatus(t, call[t].order)]
                   ELSE poStatus
  /\ status' = [status EXCEPT ![call[t].receipt] = outcome[t]]
  /\ ready' = IF /\ Handoff
                 /\ \/ outcome[t] = "approved"
                    \/ outcome[t] = "partial" /\ call[t].op = "inspect"
                THEN ready \cup {call[t].receipt} ELSE ready \ {call[t].receipt}
  /\ at' = [at EXCEPT ![t] = "done"]
  /\ UNCHANGED <<call, seen, seenLine, pos, newLine, newReceived, outcome>>

CallFails(t) == (Refuse(t) \/ UniqueViolation(t) \/ BreakDeadlock(t)) /\ Failed(t)

GrnProgress(t) ==
  \/ UpdateOrder(t)
  \/ SaveDraft(t)
  \/ Open(t)
  \/ ReceiveLine(t)
  \/ EndReceiveLine(t)
  \/ InspectLine(t)
  \/ EndInspectLine(t)
  \/ EngineCall(t)
  \/ LineRefused(t)
  \/ CallFails(t)
  \/ Decide(t)
  \/ Finish(t)

\* A crash, or the transaction's timeout.
Crash(t) == Abort(t) /\ Failed(t)

GrnNext == \E t \in Tx : Start(t) \/ GrnProgress(t) \/ Crash(t)

GrnSpec == GrnInit /\ [][GrnNext]_allVars

\* A request that has passed its checks is carried on by the server and the
\* database until it is answered.
FairGrnSpec == GrnSpec /\ \A t \in Tx : WF_allVars(GrnProgress(t))

----------------------------------------------------------------------------
(* Properties. *)

\* Types.
GrnTypeOK ==
  /\ StockTypeOK
  /\ received \in [Item -> Int]
  /\ poStatus \in [Order -> {"draft", "open", "partial", "closed", "cancelled"}]
  /\ status \in [Receipt -> {"none", "draft", "pending_qc", "approved", "rejected",
                             "partial", "completed"}]
  /\ ready \subseteq Receipt
  /\ DOMAIN line \subseteq Slot
  /\ seen \in [Tx -> [Item -> Int]]

Units(k) == SumOver(qty, {r \in live : KeyOf[r] = k})

\* What a posted inspection took from a batch's quality hold.
Released(t, s) ==
  IF at[t] = "done" /\ call[t].op = "inspect"
    THEN SumOver([i \in DOMAIN call[t].lines |-> call[t].lines[i].accepted + call[t].lines[i].rejected],
                 {i \in DOMAIN call[t].lines : call[t].lines[i].slot = s})
    ELSE 0

PutAway(l) == IF l.qty > l.damage THEN l.qty - l.damage ELSE 0

\* Quality hold is what was put away less what inspections released, though
\* several inspect the same line at once, from rows read before any of them
\* (grn.service.ts:719-837).
HoldIsWhatIsLeft ==
  \A s \in DOMAIN line :
    line[s].qcRequired =>
      Units(StockOf(s, "quality_hold")) + SumOver([t \in Tx |-> Released(t, s)], Tx)
        = PutAway(line[s])

Delivered(i) ==
  SumOver([s \in DOMAIN line |-> line[s].qty - line[s].short],
          {s \in DOMAIN line : line[s].item = i})

\* An order line never claims to have received more than its posted receipts
\* delivered, though receipts write it from stale reads (grn.service.ts:
\* 279-283, 414-422).
ReceivedNeverOverstated == \A i \in Item : received[i] <= Delivered(i)

\* A closed order has received all it ordered, whatever receipts and edits of
\* it overlap (grn.service.ts:437-448, purchase.service.ts:205-238).
ClosedIsReceived ==
  \A o \in Order :
    poStatus[o] = "closed" => \A i \in ItemsOf(o) : received[i] >= Ordered[i]

Posting(t, g) ==
  call[t].op = "post" /\ call[t].receipt = g /\ (InFlight(t) \/ at[t] = "done")

PostedOnce(g) == \A t, u \in Tx : Posting(t, g) /\ Posting(u, g) => t = u

\* A receipt posted once waits for inspection exactly while one of its lines
\* does, and is handed to accounts only when none does, though inspections of
\* different lines overlap (grn.service.ts:876-902).
WaitsForItsLines ==
  \A g \in Receipt :
    PostedOnce(g) =>
      LET pending == \E s \in LinesOf(line, g) : line[s].qcStatus = "pending"
      IN  /\ status[g] = "pending_qc" <=> pending
          /\ g \in ready => ~pending

\* A request underway ends.
EveryRequestEnds == \A t \in Tx : (at[t] # "idle") ~> at[t] \in {"done", "failed"}

\* "GRN cannot exceed PO pending qty ... without approval" (grn.service.ts:
\* 331-334): receipts without approval never deliver more than was ordered.
NeverOverReceived ==
  (\A t \in Tx : at[t] = "done" /\ call[t].op = "post" => ~call[t].over)
    => \A i \in Item : Delivered(i) <= Ordered[i]
=============================================================================
