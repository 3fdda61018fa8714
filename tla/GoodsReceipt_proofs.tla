------------------------ MODULE GoodsReceipt_proofs ------------------------
(***************************************************************************)
(* Proofs about goods receipts, for every set of requests, orders, lines,  *)
(* receipts and calls.                                                     *)
(***************************************************************************)
EXTENDS GoodsReceipt, StockEngine_proofs, Maps_proofs, SequenceTheorems

\* What a call of each kind consists of.
LEMMA CallFacts ==
  ASSUME NEW t \in Tx, NEW c \in Call0[t]
  PROVE  /\ c.op \in {"save", "post", "inspect", "cancel", "edit"}
         /\ c.op \in {"save", "post", "inspect"} => c.receipt \in Receipt
         /\ c.op \in {"cancel", "edit"} => c.order \in Order
         /\ c.op = "edit" => c.open \in BOOLEAN /\ DOMAIN c = {"op", "order", "open"}
         /\ c.op = "post" => /\ c.order \in Order \cup {NoOrder}
                             /\ c.draft \in BOOLEAN /\ c.over \in BOOLEAN
                             /\ c.lines \in Seq(ReceiptLine)
         /\ c.op = "inspect" => c.lines \in Seq(Results)
<1>1. c \in SaveCall \/ c \in PostCall \/ c \in InspectCall \/ c \in CancelCall \/ c \in EditCall
  BY ReceiptConstants
<1>2. CASE c \in SaveCall
  BY <1>2 DEF SaveCall
<1>3. CASE c \in PostCall
  BY <1>3 DEF PostCall
<1>4. CASE c \in InspectCall
  BY <1>4 DEF InspectCall
<1>5. CASE c \in CancelCall
  BY <1>5 DEF CancelCall
<1>6. CASE c \in EditCall
  BY <1>6 DEF EditCall
<1> QED BY <1>1, <1>2, <1>3, <1>4, <1>5, <1>6

LEMMA AlsoWas ==
  ASSUME NEW c, DOMAIN c = {"op", "order", "open"}, NEW STATE x
  PROVE  LET d == Overlay(c, [was |-> x])
         IN  d.op = c.op /\ d.order = c.order /\ d.open = c.open /\ d.was = x
<1> DEFINE r == [was |-> x]
<1>1. DOMAIN r = {"was"} /\ r.was = x
  OBVIOUS
<1> HIDE DEF r
<1>2. LET d == Overlay(c, r) IN d.op = c.op /\ d.order = c.order /\ d.open = c.open /\ d.was = x
  BY <1>1 DEF Overlay
<1> QED BY <1>2 DEF r

LEMMA LineFacts ==
  ASSUME NEW t \in Tx, NEW c \in Call0[t], c.op = "post", NEW i \in DOMAIN c.lines
  PROVE  LET l == c.lines[i]
         IN  /\ l.item \in Item \cup {NoItem} /\ l.qty \in Nat /\ l.short \in Nat
             /\ l.damage \in Nat /\ l.qc \in BOOLEAN
<1>1. c.lines \in Seq(ReceiptLine)
  BY CallFacts
<1>2. c.lines[i] \in ReceiptLine
  BY <1>1
<1> QED BY <1>2 DEF ReceiptLine

----------------------------------------------------------------------------
(* Where a request is, and what it has written so far. *)

Working == {"line", "putaway", "moves", "decided"}

\* A request is one of its calls; an edit remembers a status it may be made in.
ItsCall(t) ==
  /\ call[t].op = "edit" =>
       /\ call[t].order \in Order /\ call[t].open \in BOOLEAN
       /\ call[t].was \in {"draft", "open", "partial"}
  /\ call[t].op # "edit" => call[t] \in Call0[t]

\* The stages of a request go with those of its transaction.
ItsStage(t) ==
  /\ at[t] \in {"idle", "checked", "done", "failed"} \cup Working
  /\ at[t] \in Working <=> InFlight(t)
  /\ at[t] \in Working => call[t].op \in {"post", "inspect"}
  /\ at[t] = "putaway" => call[t].op = "post"
  /\ at[t] = "moves" => call[t].op = "inspect"
  /\ at[t] \in {"idle", "checked"} =>
       pos[t] = 0 /\ newLine[t] = Nothing /\ newReceived[t] = [x \in {} |-> 0]
  /\ at[t] = "decided" => outcome[t] \in {"pending_qc", "approved", "rejected",
                                          "partial", "completed"}

\* The lines a receipt has begun.
Begun(t) == IF at[t] = "putaway" THEN pos[t] + 1 ELSE pos[t]

\* A receipt has written a row for each line it has begun, and the quantities
\* of its own order as it counts them.
ItsReceipt(t) ==
  call[t].op = "post" /\ at[t] \in Working \cup {"done"} =>
    /\ pos[t] \in Nat /\ Begun(t) <= Len(call[t].lines)
    /\ at[t] \in {"decided", "done"} => pos[t] = Len(call[t].lines)
    /\ DOMAIN newLine[t] = {SlotOf(t, i) : i \in 1..Begun(t)}
    /\ \A i \in 1..Begun(t) :
         newLine[t][SlotOf(t, i)] = LineRow(call[t], call[t].lines[i])
    /\ call[t].order # NoOrder =>
         /\ at[t] = "putaway" => Current(t).item \in ItemsOf(call[t].order)
         /\ DOMAIN newReceived[t] \subseteq ItemsOf(call[t].order)
    /\ call[t].order = NoOrder => DOMAIN newReceived[t] = {}
    /\ \A i \in DOMAIN newReceived[t] : newReceived[t][i] = seen[t][i]

\* What no inspection changes of a line.
Fixed(l) == <<DOMAIN l, l.receipt, l.item, l.qty, l.short, l.damage, l.qcRequired>>

\* An inspection rewrites lines of its receipt that are there.
ItsInspection(t) ==
  call[t].op = "inspect" /\ at[t] # "idle" =>
    /\ pos[t] \in Nat
    /\ DOMAIN newReceived[t] = {}
    /\ DOMAIN newLine[t] \subseteq DOMAIN seenLine[t]
    /\ DOMAIN seenLine[t] \subseteq DOMAIN line
    /\ \A s \in DOMAIN seenLine[t] :
         Fixed(seenLine[t][s]) = Fixed(line[s]) /\ line[s].receipt = call[t].receipt
    /\ \A s \in DOMAIN newLine[t] :
         Fixed(newLine[t][s]) = Fixed(line[s]) /\ newLine[t][s].qcStatus # "pending"

Request(t) == at[t] # "idle" => ItsCall(t)

RequestOK(t) == Request(t) /\ ItsStage(t) /\ ItsReceipt(t) /\ ItsInspection(t)

\* Each line there is was written by a receipt that is done.
WrittenBy(s, t, i) ==
  /\ at[t] = "done" /\ call[t].op = "post" /\ i \in DOMAIN call[t].lines
  /\ s = SlotOf(t, i)
  /\ Fixed(line[s]) = Fixed(LineRow(call[t], call[t].lines[i]))

Origins ==
  \A s \in DOMAIN line :
    /\ \E t \in Tx, i \in Nat : WrittenBy(s, t, i)
    /\ line[s].qcStatus = "pending" => line[s].qcRequired

\* Every variable of the requests is a function of the requests.
Shape ==
  /\ DOMAIN at = Tx /\ DOMAIN call = Tx /\ DOMAIN seenLine = Tx /\ DOMAIN pos = Tx
  /\ DOMAIN newLine = Tx /\ DOMAIN newReceived = Tx /\ DOMAIN outcome = Tx
  /\ seen \in [Tx -> [Item -> Int]]
  /\ received \in [Item -> Int]
  /\ poStatus \in [Order -> {"draft", "open", "partial", "closed", "cancelled"}]
  /\ status \in [Receipt -> {"none", "draft", "pending_qc", "approved", "rejected",
                             "partial", "completed"}]
  /\ DOMAIN phase = Tx

ReceiptInv == Shape /\ (\A t \in Tx : RequestOK(t)) /\ Origins

----------------------------------------------------------------------------
(* The invariant is kept. *)

\* A step leaves another request, and the fixed part of every line, alone.
Untouched(u) ==
  /\ at'[u] = at[u] /\ call'[u] = call[u] /\ seen'[u] = seen[u] /\ seenLine'[u] = seenLine[u]
  /\ pos'[u] = pos[u] /\ newLine'[u] = newLine[u] /\ newReceived'[u] = newReceived[u]
  /\ outcome'[u] = outcome[u] /\ (InFlight(u)' <=> InFlight(u))

LinesKept ==
  /\ DOMAIN line \subseteq DOMAIN line'
  /\ \A s \in DOMAIN line : Fixed(line'[s]) = Fixed(line[s])

LEMMA UntouchedOK ==
  ASSUME NEW u \in Tx, RequestOK(u), Untouched(u), LinesKept
  PROVE  RequestOK(u)'
<1>1. Request(u)' /\ ItsStage(u)'
  BY DEF RequestOK, Request, ItsCall, ItsStage, Untouched
<1>2. ItsReceipt(u)'
  BY DEF RequestOK, ItsReceipt, Untouched, Begun, Current
<1>3. ItsInspection(u)'
  <2> SUFFICES ASSUME call[u].op = "inspect" /\ at[u] # "idle" PROVE ItsInspection(u)'
    BY DEF ItsInspection, Untouched
  <2>1. /\ DOMAIN seenLine[u] \subseteq DOMAIN line'
        /\ \A s \in DOMAIN seenLine[u] : Fixed(line'[s]) = Fixed(line[s])
    BY DEF RequestOK, ItsInspection, LinesKept
  <2>2. \A s \in DOMAIN seenLine[u] : line'[s].receipt = line[s].receipt
    BY <2>1 DEF Fixed
  <2> QED BY <2>1, <2>2 DEF RequestOK, ItsInspection, Untouched, Fixed
<1> QED BY <1>1, <1>2, <1>3 DEF RequestOK

\* A step of t that leaves the lines alone keeps the invariant if it keeps
\* what is said of t.
LEMMA StepOf ==
  ASSUME ReceiptInv, NEW t \in Tx, Shape', RequestOK(t)',
         \A u \in Tx \ {t} : Untouched(u),
         line' = line, at[t] = "done" => at'[t] = "done" /\ call'[t] = call[t]
  PROVE  ReceiptInv'
<1>1. LinesKept
  BY DEF LinesKept
<1>2. \A u \in Tx : RequestOK(u)'
  BY <1>1, UntouchedOK DEF ReceiptInv
<1>3. Origins'
  BY DEF ReceiptInv, Origins, WrittenBy, Untouched
<1> QED BY <1>2, <1>3 DEF ReceiptInv

LEMMA InitOK == GrnInit => ReceiptInv
<1> SUFFICES ASSUME GrnInit PROVE ReceiptInv
  OBVIOUS
<1>1. Shape
  BY DEF GrnInit, Shape, StockInit
<1>2. \A t \in Tx : RequestOK(t)
  BY DEF GrnInit, StockInit, RequestOK, Request, ItsStage, ItsReceipt, ItsInspection,
     Working, InFlight
<1>3. Origins
  BY DEF GrnInit, Origins, Nothing
<1> QED BY <1>1, <1>2, <1>3 DEF ReceiptInv

LEMMA StartOK ==
  ASSUME ReceiptInv, NEW t \in Tx, Start(t)
  PROVE  ReceiptInv'
<1>1. PICK c \in Call0[t] :
        /\ Admitted(c)
        /\ call' = [call EXCEPT ![t] =
             IF c.op = "edit" THEN Overlay(c, [was |-> poStatus[c.order]]) ELSE c]
        /\ seenLine' = [seenLine EXCEPT ![t] =
             IF c.op = "inspect"
               THEN [s \in LinesOf(line, c.receipt) |-> line[s]] ELSE Nothing]
  BY DEF Start
<1>2. /\ at[t] = "idle" /\ at' = [at EXCEPT ![t] = "checked"]
      /\ seen' = [seen EXCEPT ![t] = received]
      /\ UNCHANGED <<stockVars, rowVars, pos, newLine, newReceived, outcome>>
  BY DEF Start
<1>3. Shape'
  BY <1>1, <1>2 DEF ReceiptInv, Shape, stockVars, rowVars
<1>4. \A u \in Tx \ {t} : Untouched(u)
  BY <1>1, <1>2 DEF ReceiptInv, Shape, Untouched, InFlight, stockVars
<1>5. at'[t] = "checked" /\ pos'[t] = pos[t] /\ newLine'[t] = newLine[t] /\ line' = line
  /\ newReceived'[t] = newReceived[t] /\ phase' = phase
  BY <1>2 DEF ReceiptInv, Shape, stockVars, rowVars
<1>6. Request(t)'
  <2>1. CASE c.op = "edit"
    <3>1. call'[t] = Overlay(c, [was |-> poStatus[c.order]])
      BY <1>1, <2>1 DEF ReceiptInv, Shape
    <3>2. /\ call'[t].op = c.op /\ call'[t].order = c.order /\ call'[t].open = c.open
          /\ call'[t].was = poStatus[c.order]
      BY <3>1, <2>1, CallFacts, AlsoWas
    <3>3. poStatus[c.order] \in {"draft", "open", "partial"}
      BY <1>1, <2>1, CallFacts DEF Admitted, ReceiptInv, Shape
    <3> QED BY <3>2, <3>3, <2>1, CallFacts DEF Request, ItsCall
  <2>2. CASE c.op # "edit"
    BY <1>1, <2>2 DEF Request, ItsCall, ReceiptInv, Shape
  <2> QED BY <2>1, <2>2
<1>7. ItsStage(t)'
  BY <1>2, <1>5 DEF ReceiptInv, RequestOK, ItsStage, Working, InFlight
<1>8. ItsReceipt(t)'
  BY <1>5 DEF ItsReceipt, Working
<1>9. ItsInspection(t)'
  <2> SUFFICES ASSUME call'[t].op = "inspect" PROVE ItsInspection(t)'
    BY DEF ItsInspection
  <2>1. CASE c.op = "edit"
    <3>1. call'[t] = Overlay(c, [was |-> poStatus[c.order]])
      BY <1>1, <2>1 DEF ReceiptInv, Shape
    <3>2. call'[t].op = "edit"
      BY <3>1, <2>1, CallFacts, AlsoWas
    <3> QED BY <3>2
  <2>2. CASE c.op # "edit"
    <3>1. call'[t] = c /\ c.op = "inspect"
      BY <1>1, <2>2 DEF ReceiptInv, Shape
    <3>2. seenLine'[t] = [s \in LinesOf(line, c.receipt) |-> line[s]]
      BY <1>1, <3>1 DEF ReceiptInv, Shape
    <3>3. /\ pos'[t] = 0 /\ DOMAIN newLine'[t] = {} /\ DOMAIN newReceived'[t] = {}
      BY <1>2, <1>5 DEF ReceiptInv, RequestOK, ItsStage, Nothing
    <3> QED BY <1>5, <3>1, <3>2, <3>3 DEF ItsInspection, LinesOf, Fixed
  <2> QED BY <2>1, <2>2
<1>10. RequestOK(t)'
  BY <1>6, <1>7, <1>8, <1>9 DEF RequestOK
<1> QED BY <1>2, <1>3, <1>4, <1>5, <1>10, StepOf

LEMMA UpdateOrderOK ==
  ASSUME ReceiptInv, NEW t \in Tx, UpdateOrder(t)
  PROVE  ReceiptInv'
<1>1. /\ at[t] = "checked" /\ call[t].op \in {"cancel", "edit"}
      /\ at' = [at EXCEPT ![t] = "done"]
      /\ UNCHANGED <<stockVars, received, status, ready, line, call, seen, seenLine, pos,
                     newLine, newReceived, outcome>>
  BY DEF UpdateOrder
<1>2. \E p \in {"draft", "open", "partial", "closed", "cancelled"} :
        poStatus' = [poStatus EXCEPT ![call[t].order] = p]
  <2>1. Request(t)
    BY DEF ReceiptInv, RequestOK
  <2>2. call[t].op = "edit" => call[t].was \in {"draft", "open", "partial"}
    BY <1>1, <2>1 DEF Request, ItsCall
  <2> QED BY <1>1, <2>2 DEF UpdateOrder
<1>3. Shape'
  BY <1>1, <1>2 DEF ReceiptInv, Shape, stockVars
<1>4. \A u \in Tx \ {t} : Untouched(u)
  BY <1>1 DEF ReceiptInv, Shape, Untouched, InFlight, stockVars
<1>5. at'[t] = "done"
  BY <1>1 DEF ReceiptInv, Shape
<1>6. RequestOK(t)'
  BY <1>1, <1>5 DEF ReceiptInv, RequestOK, Request, ItsCall, ItsStage, ItsReceipt,
     ItsInspection, Working, InFlight, stockVars
<1> QED BY <1>1, <1>3, <1>4, <1>6, StepOf

LEMMA SaveDraftOK ==
  ASSUME ReceiptInv, NEW t \in Tx, SaveDraft(t)
  PROVE  ReceiptInv'
<1>1. /\ at[t] = "checked" /\ call[t].op = "save"
      /\ status' = [status EXCEPT ![call[t].receipt] = "draft"]
      /\ at' = [at EXCEPT ![t] = "done"]
      /\ UNCHANGED <<stockVars, received, poStatus, ready, line, call, seen, seenLine, pos,
                     newLine, newReceived, outcome>>
  BY DEF SaveDraft
<1>3. Shape'
  BY <1>1 DEF ReceiptInv, Shape, stockVars
<1>4. \A u \in Tx \ {t} : Untouched(u)
  BY <1>1 DEF ReceiptInv, Shape, Untouched, InFlight, stockVars
<1>5. at'[t] = "done"
  BY <1>1 DEF ReceiptInv, Shape
<1>6. RequestOK(t)'
  BY <1>1, <1>5 DEF ReceiptInv, RequestOK, Request, ItsCall, ItsStage, ItsReceipt,
     ItsInspection, Working, InFlight, stockVars
<1> QED BY <1>1, <1>3, <1>4, <1>6, StepOf

LEMMA OpenOK ==
  ASSUME ReceiptInv, NEW t \in Tx, Open(t)
  PROVE  ReceiptInv'
<1>1. /\ at[t] = "checked" /\ call[t].op \in {"post", "inspect"}
      /\ phase' = [phase EXCEPT ![t] = "find"]
      /\ at' = [at EXCEPT ![t] = "line"]
      /\ UNCHANGED <<rowVars, call, seen, seenLine, pos, newLine, newReceived, outcome>>
  BY DEF Open, Begin
<1>3. Shape'
  BY <1>1 DEF ReceiptInv, Shape, rowVars
<1>4. \A u \in Tx \ {t} : Untouched(u)
  BY <1>1 DEF ReceiptInv, Shape, Untouched, InFlight
<1>5. at'[t] = "line" /\ phase'[t] = "find" /\ pos[t] = 0 /\ newLine[t] = Nothing
      /\ newReceived[t] = [x \in {} |-> 0] /\ line' = line
  BY <1>1 DEF ReceiptInv, RequestOK, ItsStage, Shape, rowVars
<1>6. Request(t)' /\ ItsStage(t)'
  BY <1>1, <1>5 DEF ReceiptInv, RequestOK, Request, ItsCall, ItsStage, Working, InFlight
<1>7. ItsReceipt(t)'
  <2> SUFFICES ASSUME call[t].op = "post" PROVE ItsReceipt(t)'
    BY <1>1 DEF ItsReceipt
  <2>1. call[t].lines \in Seq(ReceiptLine)
    BY <1>1, CallFacts DEF ReceiptInv, RequestOK, Request, ItsCall
  <2>2. pos'[t] = 0 /\ Begun(t)' = 0 /\ Len(call'[t].lines) \in Nat
    BY <1>1, <1>5, <2>1 DEF Begun
  <2>3. DOMAIN newLine'[t] = {} /\ DOMAIN newReceived'[t] = {} /\ 1..0 = {}
    BY <1>1, <1>5 DEF Nothing
  <2> QED BY <1>5, <2>2, <2>3 DEF ItsReceipt
<1>8. ItsInspection(t)'
  BY <1>1, <1>5 DEF ReceiptInv, RequestOK, ItsInspection
<1> QED BY <1>1, <1>3, <1>4, <1>5, <1>6, <1>7, <1>8, StepOf DEF RequestOK

LEMMA EngineCallOK ==
  ASSUME ReceiptInv, NEW t \in Tx, EngineCall(t)
  PROVE  ReceiptInv'
<1>1. /\ InFlight(t)
      /\ \/ phase' = [phase EXCEPT ![t] = "find"]
         \/ phase' = [phase EXCEPT ![t] = "write"]
      /\ UNCHANGED grnVars
  BY DEF EngineCall, Find, Write, InFlight
<1>2. Shape' /\ \A u \in Tx : Untouched(u)
  BY <1>1 DEF ReceiptInv, Shape, Untouched, InFlight, grnVars
<1>3. LinesKept /\ line' = line
  BY <1>1 DEF LinesKept, grnVars
<1>4. RequestOK(t)'
  BY <1>2, <1>3, UntouchedOK DEF ReceiptInv
<1> QED BY <1>1, <1>2, <1>3, <1>4, StepOf DEF grnVars

LEMMA FailedOK ==
  ASSUME ReceiptInv, NEW t \in Tx, InFlight(t), Rollback(t), Failed(t)
  PROVE  ReceiptInv'
<1>1. /\ phase' = [phase EXCEPT ![t] = "aborted"]
      /\ at' = [at EXCEPT ![t] = "failed"]
      /\ UNCHANGED <<rowVars, call, seen, seenLine, pos, newLine, newReceived, outcome>>
  BY DEF Failed, Rollback
<1>3. Shape' /\ line' = line
  BY <1>1 DEF ReceiptInv, Shape, rowVars
<1>4. \A u \in Tx \ {t} : Untouched(u)
  BY <1>1 DEF ReceiptInv, Shape, Untouched, InFlight
<1>5. at'[t] = "failed" /\ phase'[t] = "aborted" /\ at[t] \in Working
  BY <1>1 DEF ReceiptInv, RequestOK, ItsStage, Shape, InFlight
<1>6. RequestOK(t)'
  BY <1>1, <1>3, <1>5 DEF ReceiptInv, RequestOK, Request, ItsCall, ItsStage, ItsReceipt,
     ItsInspection, Working, InFlight
<1> QED BY <1>1, <1>3, <1>4, <1>5, <1>6, StepOf DEF Working

LEMMA FailureOK ==
  ASSUME ReceiptInv, NEW t \in Tx, LineRefused(t) \/ CallFails(t) \/ Crash(t)
  PROVE  ReceiptInv'
<1>1. CASE LineRefused(t)
  BY <1>1, FailedOK DEF LineRefused, AtLine, InFlight
<1>2. CASE CallFails(t)
  <2>1. InFlight(t) /\ Rollback(t) /\ Failed(t)
    BY <1>2 DEF CallFails, Refuse, UniqueViolation, BreakDeadlock, Deadlocked, Blockers, InFlight
  <2> QED BY <2>1, FailedOK
<1>3. CASE Crash(t)
  BY <1>3, FailedOK DEF Crash, Abort
<1> QED BY <1>1, <1>2, <1>3

\* A posting's lines and how far it is.
LEMMA PostFacts ==
  ASSUME ReceiptInv, NEW t \in Tx, at[t] \in Working, call[t].op = "post"
  PROVE  /\ call[t] \in Call0[t]
         /\ pos[t] \in Nat /\ Len(call[t].lines) \in Nat /\ Begun(t) \in Nat
         /\ DOMAIN call[t].lines = 1..Len(call[t].lines)
         /\ Begun(t) <= Len(call[t].lines)
         /\ call[t].order \in Order \cup {NoOrder}
<1>1. call[t] \in Call0[t] /\ pos[t] \in Nat /\ Begun(t) <= Len(call[t].lines)
  BY DEF ReceiptInv, RequestOK, Request, ItsCall, ItsReceipt, Working
<1>2. call[t].lines \in Seq(ReceiptLine) /\ call[t].order \in Order \cup {NoOrder}
  BY <1>1, CallFacts
<1> QED BY <1>1, <1>2 DEF Begun

LEMMA CurrentFacts ==
  ASSUME ReceiptInv, NEW t \in Tx, at[t] \in Working, call[t].op = "post",
         pos[t] < Len(call[t].lines)
  PROVE  LET l == Current(t)
         IN  /\ pos[t] + 1 \in DOMAIN call[t].lines
             /\ l.item \in Item \cup {NoItem} /\ l.qty \in Nat /\ l.short \in Nat
             /\ l.damage \in Nat /\ l.qc \in BOOLEAN
<1>1. pos[t] + 1 \in DOMAIN call[t].lines
  BY PostFacts
<1> QED BY <1>1, PostFacts, LineFacts DEF Current

\* Line i's row is no other line's.
LEMMA OwnSlot ==
  ASSUME ReceiptInv, NEW t \in Tx, at[t] \in Working, call[t].op = "post",
         NEW i \in DOMAIN call[t].lines
  PROVE  /\ SlotOf(t, i) \in Slot
         /\ \A j \in DOMAIN call[t].lines : SlotOf(t, i) = SlotOf(t, j) => i = j
         /\ SlotOf(t, i) \notin DOMAIN line
<1>1. call[t] \in Call0[t]
  BY PostFacts
<1>2. SlotOf(t, i) \in Slot /\ \A j \in DOMAIN call[t].lines : SlotOf(t, i) = SlotOf(t, j) => i = j
  BY <1>1, SlotConstants
<1>3. ASSUME SlotOf(t, i) \in DOMAIN line PROVE FALSE
  <2>1. PICK u \in Tx, j \in Nat : WrittenBy(SlotOf(t, i), u, j)
    BY <1>3 DEF ReceiptInv, Origins
  <2>2. call[u] \in Call0[u] /\ call[u].op = "post" /\ j \in DOMAIN call[u].lines /\ u # t
        /\ SlotOf(t, i) = SlotOf(u, j)
    BY <2>1 DEF WrittenBy, ReceiptInv, RequestOK, Request, ItsCall, Working
  <2> QED BY <1>1, <2>2, SlotConstants
<1> QED BY <1>2, <1>3

LEMMA ReceiveLineOK ==
  ASSUME ReceiptInv, NEW t \in Tx, ReceiveLine(t)
  PROVE  ReceiptInv'
<1> DEFINE l == Current(t)
           s == SlotOf(t, pos[t] + 1)
<1>1. /\ at[t] = "line" /\ call[t].op = "post" /\ pos[t] < Len(call[t].lines)
      /\ Allows(t, l)
      /\ newLine' = [newLine EXCEPT ![t] = SetAt(@, s, LineRow(call[t], l))]
      /\ at' = [at EXCEPT ![t] = "putaway"]
      /\ phase[t] = "find" /\ phase' = phase
      /\ UNCHANGED <<rowVars, call, seen, seenLine, pos, newReceived, outcome>>
  BY DEF ReceiveLine, AtLine, CallWith
<1>2. Shape' /\ line' = line
  BY <1>1 DEF ReceiptInv, Shape, rowVars
<1>3. \A u \in Tx \ {t} : Untouched(u)
  BY <1>1 DEF ReceiptInv, Shape, Untouched, InFlight
<1>4. /\ at'[t] = "putaway"
      /\ newLine'[t] = SetAt(newLine[t], s, LineRow(call[t], l))
  BY <1>1 DEF ReceiptInv, Shape
<1>5. Request(t)' /\ ItsStage(t)' /\ ItsInspection(t)'
  BY <1>1, <1>4 DEF ReceiptInv, RequestOK, Request, ItsCall, ItsStage, ItsInspection,
     Working, InFlight
<1>6. ItsReceipt(t)'
  <2>1. at[t] \in Working /\ Begun(t) = pos[t] /\ Begun(t)' = pos[t] + 1 /\ pos[t] \in Nat
        /\ pos[t] + 1 <= Len(call[t].lines)
    BY <1>1, <1>4, PostFacts DEF Begun, Working
  <2>2. /\ DOMAIN newLine[t] = {SlotOf(t, i) : i \in 1..pos[t]}
        /\ \A i \in 1..pos[t] :
             newLine[t][SlotOf(t, i)] = LineRow(call[t], call[t].lines[i])
    BY <1>1, <2>1 DEF ReceiptInv, RequestOK, ItsReceipt
  <2>3. 1..(pos[t] + 1) = (1..pos[t]) \cup {pos[t] + 1}
    BY <2>1
  <2>4. DOMAIN newLine'[t] = {SlotOf(t, i) : i \in 1..(pos[t] + 1)}
    BY <1>4, <2>2, <2>3 DEF SetAt
  <2>5. \A i \in 1..pos[t] : SlotOf(t, i) # s
    <3> SUFFICES ASSUME NEW i \in 1..pos[t], SlotOf(t, i) = s PROVE FALSE
      OBVIOUS
    <3>1. i \in DOMAIN call[t].lines /\ pos[t] + 1 \in DOMAIN call[t].lines /\ i # pos[t] + 1
      BY <2>1, <1>1, PostFacts
    <3> QED BY <3>1, <1>1, <2>1, OwnSlot
  <2>6. \A i \in 1..(pos[t] + 1) :
          newLine'[t][SlotOf(t, i)] = LineRow(call[t], call[t].lines[i])
    BY <1>4, <2>2, <2>3, <2>5 DEF SetAt, Current
  <2>7. call[t].order # NoOrder => Current(t)'.item \in ItemsOf(call[t].order)
    BY <1>1 DEF Allows, Current
  <2> QED BY <1>1, <1>4, <2>1, <2>4, <2>6, <2>7 DEF ReceiptInv, RequestOK, ItsReceipt, Working
<1> QED BY <1>1, <1>2, <1>3, <1>5, <1>6, StepOf DEF RequestOK

LEMMA EndReceiveLineOK ==
  ASSUME ReceiptInv, NEW t \in Tx, EndReceiveLine(t)
  PROVE  ReceiptInv'
<1> DEFINE l == Current(t)
<1>1. /\ at[t] = "putaway" /\ phase[t] = "find"
      /\ IF call[t].order = NoOrder THEN UNCHANGED <<seen, newReceived>>
         ELSE /\ seen' = [seen EXCEPT ![t][l.item] = NewReceived(t, l)]
              /\ newReceived' = [newReceived EXCEPT ![t] = SetAt(@, l.item, NewReceived(t, l))]
      /\ pos' = [pos EXCEPT ![t] = @ + 1]
      /\ at' = [at EXCEPT ![t] = "line"]
      /\ UNCHANGED <<stockVars, rowVars, call, seenLine, newLine, outcome>>
  BY DEF EndReceiveLine
<1>2. /\ call[t].op = "post" /\ at[t] \in Working /\ pos[t] < Len(call[t].lines)
      /\ pos[t] \in Nat /\ Len(call[t].lines) \in Nat
  BY <1>1, PostFacts DEF ReceiptInv, RequestOK, ItsStage, Working, Begun
<1>3. call[t].order # NoOrder => l.item \in ItemsOf(call[t].order) /\ l.item \in Item
  BY <1>1, <1>2 DEF ReceiptInv, RequestOK, ItsReceipt, ItemsOf
<1>4. call[t].order # NoOrder => NewReceived(t, l) \in Int
  BY <1>2, <1>3, CurrentFacts DEF NewReceived, Counted, ReceiptInv, Shape
<1> HIDE DEF l
<1>5. Shape' /\ line' = line
  <2>1. DOMAIN newReceived' = Tx /\ seen' \in [Tx -> [Item -> Int]]
    BY <1>1, <1>3, <1>4 DEF ReceiptInv, Shape
  <2> QED BY <1>1, <2>1 DEF ReceiptInv, Shape, stockVars, rowVars
<1>6. \A u \in Tx \ {t} : Untouched(u)
  BY <1>1 DEF ReceiptInv, Shape, Untouched, InFlight, stockVars
<1>7. at'[t] = "line" /\ pos'[t] = pos[t] + 1 /\ phase' = phase
  BY <1>1 DEF ReceiptInv, Shape, stockVars
<1>8. Request(t)' /\ ItsStage(t)' /\ ItsInspection(t)'
  BY <1>1, <1>2, <1>7 DEF ReceiptInv, RequestOK, Request, ItsCall, ItsStage, ItsInspection,
     Working, InFlight
<1>9. /\ call[t].order = NoOrder => newReceived'[t] = newReceived[t] /\ seen'[t] = seen[t]
      /\ call[t].order # NoOrder =>
           /\ newReceived'[t] = SetAt(newReceived[t], l.item, NewReceived(t, l))
           /\ seen'[t] = [seen[t] EXCEPT ![l.item] = NewReceived(t, l)]
           /\ seen[t] \in [Item -> Int]
  BY <1>1 DEF ReceiptInv, Shape
<1>10. Begun(t)' = pos[t] + 1 /\ Begun(t) = pos[t] + 1
  BY <1>1, <1>7 DEF Begun
<1>11. ItsReceipt(t)
  BY DEF ReceiptInv, RequestOK
<1>12. call[t].order # NoOrder =>
         /\ DOMAIN newReceived'[t] \subseteq ItemsOf(call[t].order)
         /\ \A i \in DOMAIN newReceived'[t] : newReceived'[t][i] = seen'[t][i]
  <2> SUFFICES ASSUME call[t].order # NoOrder
               PROVE  /\ DOMAIN newReceived'[t] \subseteq ItemsOf(call[t].order)
                      /\ \A i \in DOMAIN newReceived'[t] : newReceived'[t][i] = seen'[t][i]
    OBVIOUS
  <2>1. /\ DOMAIN newReceived[t] \subseteq ItemsOf(call[t].order)
        /\ \A i \in DOMAIN newReceived[t] : newReceived[t][i] = seen[t][i]
    BY <1>1, <1>2, <1>11 DEF ItsReceipt
  <2>2. ItemsOf(call[t].order) \subseteq Item
    BY DEF ItemsOf
  <2> QED BY <1>3, <1>9, <2>1, <2>2 DEF SetAt
<1>13. call[t].order = NoOrder => DOMAIN newReceived'[t] = {}
  BY <1>1, <1>2, <1>9, <1>11 DEF ItsReceipt
<1>14. ItsReceipt(t)'
  <2>1. \A i \in DOMAIN newReceived'[t] : newReceived'[t][i] = seen'[t][i]
    BY <1>12, <1>13
  <2>2. pos'[t] \in Nat /\ Begun(t)' <= Len(call'[t].lines)
    BY <1>1, <1>2, <1>7, <1>10
  <2>3. /\ DOMAIN newLine'[t] = {SlotOf(t, i) : i \in 1..Begun(t)'}
        /\ \A i \in 1..Begun(t)' :
             newLine'[t][SlotOf(t, i)] = LineRow(call'[t], call'[t].lines[i])
    BY <1>1, <1>2, <1>10, <1>11 DEF ItsReceipt
  <2> QED BY <1>1, <1>7, <1>12, <1>13, <2>1, <2>2, <2>3 DEF ItsReceipt
<1> QED BY <1>1, <1>5, <1>6, <1>8, <1>14, StepOf DEF RequestOK

LEMMA DecideOK ==
  ASSUME ReceiptInv, NEW t \in Tx, Decide(t)
  PROVE  ReceiptInv'
<1>1. /\ at[t] = "line" /\ phase[t] = "find" /\ pos[t] = Len(call[t].lines)
      /\ outcome' = [outcome EXCEPT ![t] =
           IF call[t].op = "post" THEN PostedStatus(t) ELSE InspectedStatus(t)]
      /\ at' = [at EXCEPT ![t] = "decided"]
      /\ UNCHANGED <<stockVars, rowVars, call, seen, seenLine, pos, newLine, newReceived>>
  BY DEF Decide
<1>2. Shape' /\ line' = line
  BY <1>1 DEF ReceiptInv, Shape, stockVars, rowVars
<1>3. \A u \in Tx \ {t} : Untouched(u)
  BY <1>1 DEF ReceiptInv, Shape, Untouched, InFlight, stockVars
<1>4. at'[t] = "decided" /\ phase' = phase
  BY <1>1 DEF ReceiptInv, Shape, stockVars
<1>5. outcome'[t] \in {"pending_qc", "approved", "rejected", "partial", "completed"}
  <2>1. PostedStatus(t) \in {"pending_qc", "approved"}
    BY DEF PostedStatus
  <2>2. InspectedStatus(t) \in {"pending_qc", "approved", "rejected", "partial", "completed"}
    BY DEF InspectedStatus
  <2>3. outcome'[t] = IF call[t].op = "post" THEN PostedStatus(t) ELSE InspectedStatus(t)
    BY <1>1 DEF ReceiptInv, Shape
  <2>4. CASE call[t].op = "post"
    BY <2>1, <2>3, <2>4
  <2>5. CASE call[t].op # "post"
    BY <2>2, <2>3, <2>5
  <2> QED BY <2>4, <2>5
<1>6. Request(t)' /\ ItsStage(t)' /\ ItsInspection(t)'
  <2>1. Request(t)'
    BY <1>1, <1>4 DEF ReceiptInv, RequestOK, Request, ItsCall
  <2>2. InFlight(t)' /\ at'[t] \in Working
    BY <1>1, <1>4 DEF InFlight, Working
  <2>3. call'[t] = call[t] /\ call[t].op \in {"post", "inspect"}
    BY <1>1 DEF ReceiptInv, RequestOK, ItsStage, Working
  <2>4. ItsStage(t)'
    BY <1>4, <1>5, <2>2, <2>3 DEF ItsStage
  <2>5. ItsInspection(t)'
    BY <1>1, <1>2, <1>4 DEF ReceiptInv, RequestOK, ItsInspection
  <2> QED BY <2>1, <2>4, <2>5
<1>7. ItsReceipt(t)'
  BY <1>1, <1>4 DEF ReceiptInv, RequestOK, ItsReceipt, Begun, Working
<1> QED BY <1>1, <1>2, <1>3, <1>6, <1>7, StepOf DEF RequestOK

\* An inspected line is the line it was but for the result.
LEMMA InspectedFacts ==
  ASSUME NEW STATE was, {"qcStatus", "receipt", "item", "qty", "short", "damage", "qcRequired"} \subseteq DOMAIN was,
         NEW STATE l
  PROVE  Fixed(Inspected(was, l)) = Fixed(was) /\ Inspected(was, l).qcStatus # "pending"
BY DEF Inspected, Fixed

LEMMA InspectLineOK ==
  ASSUME ReceiptInv, NEW t \in Tx, InspectLine(t)
  PROVE  ReceiptInv'
<1> DEFINE l == Current(t)
           was == seenLine[t][l.slot]
<1>1. /\ at[t] = "line" /\ call[t].op = "inspect" /\ l.slot \in DOMAIN seenLine[t]
      /\ newLine' = [newLine EXCEPT ![t] = SetAt(@, l.slot, Inspected(was, l))]
      /\ at' = [at EXCEPT ![t] = "moves"]
      /\ phase[t] = "find" /\ phase' = phase
      /\ UNCHANGED <<rowVars, call, seen, seenLine, pos, newReceived, outcome>>
  BY DEF InspectLine, AtLine, CallWith
<1>2. Shape' /\ line' = line
  BY <1>1 DEF ReceiptInv, Shape, rowVars
<1>3. \A u \in Tx \ {t} : Untouched(u)
  BY <1>1 DEF ReceiptInv, Shape, Untouched, InFlight
<1>4. /\ at'[t] = "moves"
      /\ newLine'[t] = SetAt(newLine[t], l.slot, Inspected(was, l))
  BY <1>1 DEF ReceiptInv, Shape
<1>5. Request(t)' /\ ItsStage(t)' /\ ItsReceipt(t)'
  BY <1>1, <1>4 DEF ReceiptInv, RequestOK, Request, ItsCall, ItsStage, ItsReceipt,
     Working, InFlight
<1>6. ItsInspection(t)'
  <2>1. ItsInspection(t) /\ call[t].op = "inspect" /\ at[t] # "idle"
    BY <1>1 DEF ReceiptInv, RequestOK
  <2>2. Fixed(was) = Fixed(line[l.slot]) /\ l.slot \in DOMAIN line
    BY <1>1, <2>1 DEF ItsInspection
  <2>3. PICK u \in Tx, i \in Nat : WrittenBy(l.slot, u, i)
    BY <2>2 DEF ReceiptInv, Origins
  <2>4. Fixed(was) = Fixed(LineRow(call[u], call[u].lines[i]))
    BY <2>2, <2>3 DEF WrittenBy
  <2>5. DOMAIN was = DOMAIN LineRow(call[u], call[u].lines[i])
    BY <2>4 DEF Fixed
  <2>6. {"qcStatus", "receipt", "item", "qty", "short", "damage", "qcRequired"} \subseteq DOMAIN was
    BY <2>5 DEF LineRow
  <2>7. Fixed(Inspected(was, l)) = Fixed(line[l.slot]) /\ Inspected(was, l).qcStatus # "pending"
    BY <2>2, <2>6, InspectedFacts
  <2> HIDE DEF l, was
  <2>8. /\ DOMAIN newLine'[t] \subseteq DOMAIN seenLine[t]
        /\ \A s \in DOMAIN newLine'[t] :
             Fixed(newLine'[t][s]) = Fixed(line[s]) /\ newLine'[t][s].qcStatus # "pending"
    BY <1>1, <1>4, <2>1, <2>7 DEF ItsInspection, SetAt
  <2>9. \A s \in DOMAIN newLine'[t] :
             Fixed(newLine'[t][s]) = Fixed(line'[s]) /\ newLine'[t][s].qcStatus # "pending"
    BY <1>2, <2>8
  <2>10. \A s \in DOMAIN seenLine'[t] :
         Fixed(seenLine'[t][s]) = Fixed(line'[s]) /\ line'[s].receipt = call'[t].receipt
    BY <1>1, <1>2, <2>1 DEF ItsInspection
  <2> QED BY <1>1, <1>2, <2>1, <2>8, <2>9, <2>10 DEF ItsInspection, Fixed
<1> QED BY <1>1, <1>2, <1>3, <1>5, <1>6, StepOf DEF RequestOK

LEMMA EndInspectLineOK ==
  ASSUME ReceiptInv, NEW t \in Tx, EndInspectLine(t)
  PROVE  ReceiptInv'
<1>1. /\ at[t] = "moves"
      /\ pos' = [pos EXCEPT ![t] = @ + 1]
      /\ at' = [at EXCEPT ![t] = "line"]
      /\ UNCHANGED <<stockVars, rowVars, call, seen, seenLine, newLine, newReceived, outcome>>
  BY DEF EndInspectLine
<1>2. Shape' /\ line' = line
  BY <1>1 DEF ReceiptInv, Shape, stockVars, rowVars
<1>3. \A u \in Tx \ {t} : Untouched(u)
  BY <1>1 DEF ReceiptInv, Shape, Untouched, InFlight, stockVars
<1>4. at'[t] = "line" /\ phase' = phase /\ call[t].op = "inspect" /\ pos'[t] = pos[t] + 1
  BY <1>1 DEF ReceiptInv, RequestOK, ItsStage, Shape, stockVars
<1>5. Request(t)' /\ ItsStage(t)' /\ ItsReceipt(t)' /\ ItsInspection(t)'
  BY <1>1, <1>2, <1>4 DEF ReceiptInv, RequestOK, Request, ItsCall, ItsStage, ItsReceipt,
     ItsInspection, Working, InFlight
<1> QED BY <1>1, <1>2, <1>3, <1>5, StepOf DEF RequestOK

\* What a commit does to the lines: it adds those of a posting, or rewrites
\* those of an inspection.
LEMMA CommitLines ==
  ASSUME ReceiptInv, NEW t \in Tx, Finish(t)
  PROVE  /\ LinesKept
         /\ DOMAIN line' = (DOMAIN line) \cup DOMAIN newLine[t]
         /\ \A s \in DOMAIN newLine[t] : line'[s] = newLine[t][s]
         /\ \A s \in (DOMAIN line) \ DOMAIN newLine[t] : line'[s] = line[s]
         /\ call[t].op = "post" => (DOMAIN line) \cap (DOMAIN newLine[t]) = {}
         /\ call[t].op = "inspect" => DOMAIN newLine[t] \subseteq DOMAIN line
<1>1. at[t] = "decided" /\ line' = Overlay(newLine[t], line) /\ at[t] \in Working
  BY DEF Finish, LineSeen, Working
<1>2. /\ DOMAIN line' = (DOMAIN line) \cup DOMAIN newLine[t]
      /\ \A s \in DOMAIN newLine[t] : line'[s] = newLine[t][s]
      /\ \A s \in (DOMAIN line) \ DOMAIN newLine[t] : line'[s] = line[s]
  BY <1>1 DEF Overlay
<1>3. CASE call[t].op = "post"
  <2>1. DOMAIN newLine[t] = {SlotOf(t, i) : i \in 1..Begun(t)}
    BY <1>1, <1>3 DEF ReceiptInv, RequestOK, ItsReceipt
  <2>2. \A i \in 1..Begun(t) : i \in DOMAIN call[t].lines
    BY <1>1, <1>3, PostFacts
  <2>3. (DOMAIN line) \cap (DOMAIN newLine[t]) = {}
    BY <1>1, <1>3, <2>1, <2>2, OwnSlot
  <2> QED BY <1>2, <1>3, <2>3 DEF LinesKept
<1>4. CASE call[t].op = "inspect"
  <2>1. /\ DOMAIN newLine[t] \subseteq DOMAIN line
        /\ \A s \in DOMAIN newLine[t] : Fixed(newLine[t][s]) = Fixed(line[s])
    BY <1>1, <1>4 DEF ReceiptInv, RequestOK, ItsInspection
  <2> QED BY <1>2, <1>4, <2>1 DEF LinesKept
<1> QED BY <1>1, <1>3, <1>4 DEF ReceiptInv, RequestOK, ItsStage

LEMMA CommitReceived ==
  ASSUME ReceiptInv, NEW t \in Tx, Finish(t)
  PROVE  /\ received' \in [Item -> Int]
         /\ \A i \in Item : received'[i] =
              IF i \in DOMAIN newReceived[t] THEN seen[t][i] ELSE received[i]
         /\ (call[t].op = "post" /\ call[t].order # NoOrder) =>
              DOMAIN newReceived[t] \subseteq ItemsOf(call[t].order)
         /\ ~(call[t].op = "post" /\ call[t].order # NoOrder) => DOMAIN newReceived[t] = {}
<1>1. at[t] = "decided" /\ received' = Overlay(newReceived[t], received) /\ at[t] \in Working
      /\ call[t].op \in {"post", "inspect"}
  BY DEF Finish, ReceivedSeen, Working, ReceiptInv, RequestOK, ItsStage
<1>2. /\ (call[t].op = "post" /\ call[t].order # NoOrder) =>
              DOMAIN newReceived[t] \subseteq ItemsOf(call[t].order)
      /\ ~(call[t].op = "post" /\ call[t].order # NoOrder) => DOMAIN newReceived[t] = {}
      /\ \A i \in DOMAIN newReceived[t] : newReceived[t][i] = seen[t][i]
  BY <1>1 DEF ReceiptInv, RequestOK, ItsReceipt, ItsInspection
<1>3. DOMAIN newReceived[t] \subseteq Item
  BY <1>2 DEF ItemsOf
<1>4. DOMAIN received = Item /\ \A i \in Item : seen[t][i] \in Int /\ received[i] \in Int
  BY DEF ReceiptInv, Shape
<1>5. /\ DOMAIN received' = Item /\ received' = [i \in Item |-> received'[i]]
      /\ \A i \in Item : received'[i] =
              IF i \in DOMAIN newReceived[t] THEN newReceived[t][i] ELSE received[i]
  BY <1>1, <1>3, <1>4 DEF Overlay
<1> QED BY <1>2, <1>4, <1>5

LEMMA FinishOK ==
  ASSUME ReceiptInv, NEW t \in Tx, Finish(t)
  PROVE  ReceiptInv'
<1>1. /\ at[t] = "decided" /\ at' = [at EXCEPT ![t] = "done"]
      /\ phase[t] = "find" /\ phase' = [phase EXCEPT ![t] = "committed"]
      /\ poStatus' = IF call[t].op = "post" /\ call[t].order # NoOrder
                   THEN [poStatus EXCEPT ![call[t].order] = NewOrderStatus(t, call[t].order)]
                   ELSE poStatus
      /\ status' = [status EXCEPT ![call[t].receipt] = outcome[t]]
      /\ UNCHANGED <<call, seen, seenLine, pos, newLine, newReceived, outcome>>
  BY DEF Finish, Commit
<1>2. Shape'
  <2>1. outcome[t] \in {"pending_qc", "approved", "rejected", "partial", "completed"}
    BY <1>1 DEF ReceiptInv, RequestOK, ItsStage
  <2>2. NewOrderStatus(t, call[t].order) \in {"closed", "partial", "open"}
    BY DEF NewOrderStatus
  <2>3. poStatus' \in [Order -> {"draft", "open", "partial", "closed", "cancelled"}]
    BY <1>1, <2>2 DEF ReceiptInv, Shape
  <2> QED BY <1>1, <2>1, <2>3, CommitReceived DEF ReceiptInv, Shape
<1>3. \A u \in Tx \ {t} : Untouched(u)
  BY <1>1 DEF ReceiptInv, Shape, Untouched, InFlight
<1>4. \A u \in Tx \ {t} : RequestOK(u)'
  BY <1>3, CommitLines, UntouchedOK DEF ReceiptInv
<1>5. at'[t] = "done" /\ phase'[t] = "committed"
  BY <1>1 DEF ReceiptInv, Shape
<1>6. Request(t)' /\ ItsStage(t)'
  BY <1>1, <1>5 DEF ReceiptInv, RequestOK, Request, ItsCall, ItsStage, Working, InFlight
<1>7. ItsReceipt(t)'
  BY <1>1, <1>5 DEF ReceiptInv, RequestOK, ItsReceipt, Begun, Working
<1>8. ItsInspection(t)'
  <2> SUFFICES ASSUME call[t].op = "inspect" PROVE ItsInspection(t)'
    BY <1>1 DEF ItsInspection
  <2>1. ItsInspection(t) /\ at[t] # "idle"
    BY <1>1 DEF ReceiptInv, RequestOK
  <2>2. LinesKept
    BY CommitLines
  <2>3. \A s \in DOMAIN line : Fixed(line'[s]) = Fixed(line[s]) /\ line'[s].receipt = line[s].receipt
    BY <2>2 DEF LinesKept, Fixed
  <2> QED BY <1>1, <2>1, <2>2, <2>3 DEF ItsInspection, LinesKept
<1>9. Origins'
  <2> SUFFICES ASSUME NEW s \in DOMAIN line'
               PROVE  /\ \E u \in Tx, i \in Nat : WrittenBy(s, u, i)'
                      /\ line'[s].qcStatus = "pending" => line'[s].qcRequired
    BY DEF Origins
  <2>1. CASE s \in DOMAIN line
    <3>1. PICK u \in Tx, i \in Nat : WrittenBy(s, u, i)
      BY <2>1 DEF ReceiptInv, Origins
    <3>2. WrittenBy(s, u, i)'
      BY <1>1, <1>3, <2>1, <3>1, CommitLines DEF WrittenBy, Untouched, LinesKept
    <3>3. line'[s].qcStatus = "pending" => line'[s] = line[s]
      <4>1. call[t].op \in {"post", "inspect"} /\ at[t] # "idle"
        BY <1>1 DEF ReceiptInv, RequestOK, ItsStage, Working
      <4>2. call[t].op = "inspect" => \A x \in DOMAIN newLine[t] : newLine[t][x].qcStatus # "pending"
        BY <4>1 DEF ReceiptInv, RequestOK, ItsInspection
      <4> QED BY <4>1, <4>2, <2>1, CommitLines
    <3> QED BY <2>1, <3>2, <3>3 DEF ReceiptInv, Origins
  <2>2. CASE s \notin DOMAIN line
    <3>1. call[t].op = "post" /\ s \in DOMAIN newLine[t] /\ line'[s] = newLine[t][s]
      <4>1. call[t].op \in {"post", "inspect"}
        BY <1>1 DEF ReceiptInv, RequestOK, ItsStage, Working
      <4> QED BY <4>1, <2>2, CommitLines
    <3>2. PICK i \in 1..Begun(t) : /\ s = SlotOf(t, i)
                  /\ newLine[t][s] = LineRow(call[t], call[t].lines[i])
      BY <1>1, <3>1 DEF ReceiptInv, RequestOK, ItsReceipt, Working
    <3>3. i \in DOMAIN call[t].lines /\ i \in Nat
      BY <1>1, <3>1, PostFacts DEF Working
    <3>4. WrittenBy(s, t, i)'
      BY <1>1, <1>5, <3>1, <3>2, <3>3 DEF WrittenBy
    <3>5. line'[s].qcStatus = "pending" => line'[s].qcRequired
      BY <3>1, <3>2 DEF LineRow
    <3> QED BY <3>3, <3>4, <3>5
  <2> QED BY <2>1, <2>2
<1> QED BY <1>2, <1>4, <1>6, <1>7, <1>8, <1>9 DEF ReceiptInv, RequestOK

LEMMA ReceiptInvStep == ReceiptInv /\ [GrnNext]_allVars => ReceiptInv'
<1> SUFFICES ASSUME ReceiptInv, [GrnNext]_allVars PROVE ReceiptInv'
  OBVIOUS
<1>1. ASSUME NEW t \in Tx, Start(t) \/ UpdateOrder(t) \/ SaveDraft(t) \/ Open(t) PROVE ReceiptInv'
  BY <1>1, StartOK, UpdateOrderOK, SaveDraftOK, OpenOK
<1>2. ASSUME NEW t \in Tx, ReceiveLine(t) \/ EndReceiveLine(t) PROVE ReceiptInv'
  BY <1>2, ReceiveLineOK, EndReceiveLineOK
<1>3. ASSUME NEW t \in Tx, InspectLine(t) \/ EndInspectLine(t) PROVE ReceiptInv'
  BY <1>3, InspectLineOK, EndInspectLineOK
<1>4. ASSUME NEW t \in Tx, EngineCall(t) PROVE ReceiptInv'
  BY <1>4, EngineCallOK
<1>5. ASSUME NEW t \in Tx, LineRefused(t) \/ CallFails(t) \/ Crash(t) PROVE ReceiptInv'
  BY <1>5, FailureOK
<1>6. ASSUME NEW t \in Tx, Decide(t) \/ Finish(t) PROVE ReceiptInv'
  BY <1>6, DecideOK, FinishOK
<1>7. CASE UNCHANGED allVars
  <2>1. Shape' /\ LinesKept /\ \A u \in Tx : Untouched(u)
    BY <1>7 DEF allVars, ReceiptInv, Shape, LinesKept, Untouched, InFlight
  <2>2. \A u \in Tx : RequestOK(u)'
    BY <2>1, UntouchedOK DEF ReceiptInv
  <2>3. Origins'
    BY <1>7 DEF allVars, ReceiptInv, Origins, WrittenBy
  <2> QED BY <2>1, <2>2, <2>3 DEF ReceiptInv
<1> QED BY <1>1, <1>2, <1>3, <1>4, <1>5, <1>6, <1>7 DEF GrnNext, GrnProgress

THEOREM ReceiptInvariance == GrnSpec => []ReceiptInv
BY InitOK, ReceiptInvStep, PTL DEF GrnSpec

----------------------------------------------------------------------------
(* Receipts and inspections use the engine as it allows. *)

\* Every step of a request is a step of the engine, or leaves it alone.
LEMMA EngineStep == ReceiptInv /\ [GrnNext]_allVars => [StockNext]_stockVars
<1> SUFFICES ASSUME ReceiptInv, [GrnNext]_allVars PROVE [StockNext]_stockVars
  OBVIOUS
<1>1. ASSUME NEW t \in Tx,
             Start(t) \/ UpdateOrder(t) \/ SaveDraft(t) \/ EndReceiveLine(t)
               \/ EndInspectLine(t) \/ Decide(t)
      PROVE  UNCHANGED stockVars
  BY <1>1 DEF Start, UpdateOrder, SaveDraft, EndReceiveLine, EndInspectLine, Decide
<1>2. ASSUME NEW t \in Tx, ReceiveLine(t) PROVE Call(t)
  <2>1. /\ at[t] \in Working /\ call[t].op = "post" /\ pos[t] < Len(call[t].lines)
        /\ CallWith(t, Putaway(SlotOf(t, pos[t] + 1), Current(t)))
    BY <1>2 DEF ReceiveLine, AtLine, Working
  <2>2. call[t] \in Call0[t] /\ pos[t] + 1 \in DOMAIN call[t].lines
    BY <2>1, PostFacts, CurrentFacts
  <2>3. Putaway(SlotOf(t, pos[t] + 1), Current(t)) \in Further[t]
    BY <2>1, <2>2, CallConstants DEF Current
  <2> QED BY <2>1, <2>3 DEF Call
<1>3. ASSUME NEW t \in Tx, InspectLine(t) PROVE Call(t)
  <2>1. /\ at[t] = "line" /\ call[t].op = "inspect" /\ pos[t] < Len(call[t].lines)
        /\ CallWith(t, Release(Current(t)))
    BY <1>3 DEF InspectLine, AtLine
  <2>2. call[t] \in Call0[t] /\ pos[t] \in Nat
    BY <2>1 DEF ReceiptInv, RequestOK, Request, ItsCall, ItsInspection
  <2>3. call[t].lines \in Seq(Results)
    BY <2>1, <2>2, CallFacts
  <2>4. pos[t] + 1 \in DOMAIN call[t].lines
    BY <2>1, <2>2, <2>3
  <2>5. Release(Current(t)) \in Further[t]
    BY <2>1, <2>2, <2>4, CallConstants DEF Current
  <2> QED BY <2>1, <2>5 DEF Call
<1>4. ASSUME NEW t \in Tx, LineRefused(t) \/ Crash(t) PROVE Abort(t)
  BY <1>4 DEF LineRefused, AtLine, Crash, Abort, InFlight
<1>5. ASSUME NEW t \in Tx, EngineCall(t) \/ CallFails(t) \/ Finish(t) PROVE Progress(t)
  BY <1>5 DEF EngineCall, CallFails, Finish, Progress
<1>6. ASSUME NEW t \in Tx, Open(t) PROVE Begin(t)
  BY <1>6 DEF Open
<1>7. CASE UNCHANGED allVars
  BY <1>7 DEF allVars, stockVars
<1> QED BY <1>1, <1>2, <1>3, <1>4, <1>5, <1>6, <1>7 DEF GrnNext, GrnProgress, StockNext

\* Receipts and inspections implement the stock engine: what is proved of its
\* transactions holds of theirs (grn.service.ts:410-413, 784-836).
THEOREM ReceiptsUseEngine == GrnSpec => StockSpec
<1>1. GrnInit => StockInit
  BY DEF GrnInit
<1> QED BY <1>1, EngineStep, ReceiptInvariance, PTL DEF GrnSpec, StockSpec

\* Neither receipts nor inspections leave a negative quantity of stock or a
\* negative balance in the ledger.
THEOREM ReceiptsNeverNegative == GrnSpec => []NonNegative
BY ReceiptsUseEngine, NeverNegative, PTL

----------------------------------------------------------------------------
(* Types. *)

\* A receipt ready for accounts is a receipt.
ReadyType == ready \subseteq Receipt

LEMMA ReadyStep == ReceiptInv /\ ReadyType /\ [GrnNext]_allVars => ReadyType'
<1> SUFFICES ASSUME ReceiptInv, ReadyType, [GrnNext]_allVars PROVE ReadyType'
  OBVIOUS
<1>1. ASSUME NEW t \in Tx, Finish(t) PROVE ReadyType'
  <2>1. at[t] = "decided" /\ at[t] \in Working
    BY <1>1 DEF Finish, Working
  <2>2. call[t].op \in {"post", "inspect"} /\ call[t] \in Call0[t]
    BY <2>1 DEF ReceiptInv, RequestOK, ItsStage, Request, ItsCall
  <2>3. call[t].receipt \in Receipt
    BY <2>2, CallFacts
  <2>4. ready' = ready \cup {call[t].receipt} \/ ready' = ready \ {call[t].receipt}
    BY <1>1 DEF Finish
  <2> QED BY <2>3, <2>4 DEF ReadyType
<1>2. ASSUME NEW t \in Tx, Start(t) \/ GrnProgress(t) \/ Crash(t), ~Finish(t) PROVE ready' = ready
  BY <1>2 DEF Start, GrnProgress, Crash, UpdateOrder, SaveDraft, Open, ReceiveLine, EndReceiveLine,
     InspectLine, EndInspectLine, EngineCall, LineRefused, CallFails, Decide, Failed, rowVars, grnVars
<1>3. CASE UNCHANGED allVars
  BY <1>3 DEF allVars, ReadyType
<1> QED BY <1>1, <1>2, <1>3 DEF GrnNext, ReadyType

\* Every variable keeps its type in every reachable state.
THEOREM GrnTypeCorrect == GrnSpec => []GrnTypeOK
<1>1. GrnInit => ReadyType
  BY DEF GrnInit, ReadyType
<1>2. ReceiptInv => DOMAIN line \subseteq Slot
  <2> SUFFICES ASSUME ReceiptInv, NEW s \in DOMAIN line PROVE s \in Slot
    OBVIOUS
  <2>1. PICK t \in Tx, i \in Nat : WrittenBy(s, t, i)
    BY DEF ReceiptInv, Origins
  <2>2. call[t] \in Call0[t]
    BY <2>1 DEF WrittenBy, ReceiptInv, RequestOK, Request, ItsCall
  <2> QED BY <2>1, <2>2, SlotConstants DEF WrittenBy
<1>3. ReceiptInv /\ ReadyType /\ StockTypeOK => GrnTypeOK
  BY <1>2 DEF ReceiptInv, Shape, ReadyType, GrnTypeOK
<1>4. GrnSpec => []ReadyType
  BY <1>1, ReadyStep, ReceiptInvariance, PTL DEF GrnSpec
<1> QED BY <1>3, <1>4, ReceiptInvariance, ReceiptsUseEngine, TypeCorrect, PTL

----------------------------------------------------------------------------
(* A closed order has received what it ordered. *)

LEMMA ClosedStep == ReceiptInv /\ ClosedIsReceived /\ [GrnNext]_allVars => ClosedIsReceived'
<1> SUFFICES ASSUME ReceiptInv, ClosedIsReceived, [GrnNext]_allVars,
                    NEW o \in Order, poStatus'[o] = "closed", NEW i \in ItemsOf(o)
             PROVE  received'[i] >= Ordered[i]
  BY DEF ClosedIsReceived
<1>1. i \in Item /\ OrderOf[i] = o
  BY DEF ItemsOf
<1>2. CASE \E t \in Tx : UpdateOrder(t)
  <2>1. PICK t \in Tx : UpdateOrder(t)
    BY <1>2
  <2>2. call[t].op = "edit" => call[t].was \in {"draft", "open", "partial"}
    BY <2>1 DEF UpdateOrder, ReceiptInv, RequestOK, Request, ItsCall
  <2>3. poStatus[o] = "closed" /\ received' = received
    BY <2>1, <2>2 DEF UpdateOrder, ReceiptInv, Shape
  <2> QED BY <2>3 DEF ClosedIsReceived
<1>3. CASE \E t \in Tx : Finish(t)
  <2>1. PICK t \in Tx : Finish(t)
    BY <1>3
  <2>2. CASE call[t].op = "post" /\ call[t].order = o
    <3>1. o # NoOrder /\ poStatus' = [poStatus EXCEPT ![o] = NewOrderStatus(t, o)]
      BY <2>1, <2>2, ReceiptConstants DEF Finish
    <3>2. NewOrderStatus(t, o) = "closed"
      BY <3>1 DEF ReceiptInv, Shape
    <3>3. ReceivedSeen(t)[i] >= Ordered[i]
      BY <3>2 DEF NewOrderStatus
    <3> QED BY <2>1, <3>3 DEF Finish
  <2>3. CASE ~(call[t].op = "post" /\ call[t].order = o)
    <3>1. poStatus'[o] = poStatus[o]
      BY <2>1, <2>3 DEF Finish, ReceiptInv, Shape
    <3>2. i \notin DOMAIN newReceived[t]
      BY <1>1, <2>1, <2>3, CommitReceived DEF ItemsOf
    <3>3. received'[i] = received[i]
      BY <1>1, <2>1, <3>2, CommitReceived
    <3> QED BY <3>1, <3>3 DEF ClosedIsReceived
  <2> QED BY <2>2, <2>3
<1>4. ASSUME NEW t \in Tx, Start(t) \/ GrnProgress(t) \/ Crash(t), ~Finish(t), ~UpdateOrder(t)
      PROVE  poStatus' = poStatus /\ received' = received
  BY <1>4 DEF Start, GrnProgress, Crash, SaveDraft, Open, ReceiveLine, EndReceiveLine,
     InspectLine, EndInspectLine, EngineCall, LineRefused, CallFails, Decide, Failed, rowVars, grnVars
<1>5. CASE UNCHANGED allVars
  BY <1>5 DEF allVars, ClosedIsReceived
<1> QED BY <1>2, <1>3, <1>4, <1>5 DEF GrnNext, ClosedIsReceived

\* An order that is closed has received all it ordered, whatever receipts and
\* edits of it overlap (grn.service.ts:437-448, purchase.service.ts:205-238).
THEOREM ClosedOrderIsReceived == GrnSpec => []ClosedIsReceived
<1>1. GrnInit => ClosedIsReceived
  BY DEF GrnInit, ClosedIsReceived
<1> QED BY <1>1, ClosedStep, ReceiptInvariance, PTL DEF GrnSpec

----------------------------------------------------------------------------
(* What a step leaves alone. *)

LEMMA OthersUntouched ==
  ASSUME ReceiptInv, NEW t \in Tx, Start(t) \/ GrnProgress(t) \/ Crash(t), NEW u \in Tx \ {t}
  PROVE  Untouched(u)
<1> USE DEF ReceiptInv, Shape, Untouched, InFlight
<1>1. CASE Start(t)
  BY <1>1 DEF Start, stockVars
<1>2. CASE UpdateOrder(t)
  BY <1>2 DEF UpdateOrder, stockVars
<1>3. CASE SaveDraft(t)
  BY <1>3 DEF SaveDraft, stockVars
<1>4. CASE Open(t)
  BY <1>4 DEF Open, Begin
<1>5. CASE ReceiveLine(t)
  BY <1>5 DEF ReceiveLine, CallWith
<1>6. CASE EndReceiveLine(t)
  BY <1>6 DEF EndReceiveLine, stockVars
<1>7. CASE InspectLine(t)
  BY <1>7 DEF InspectLine, CallWith
<1>8. CASE EndInspectLine(t)
  BY <1>8 DEF EndInspectLine, stockVars
<1>9. CASE EngineCall(t)
  BY <1>9 DEF EngineCall, Find, Write, grnVars
<1>10. CASE LineRefused(t)
  BY <1>10 DEF LineRefused, Rollback, Failed
<1>11. CASE CallFails(t)
  BY <1>11 DEF CallFails, Refuse, UniqueViolation, BreakDeadlock, Rollback, Failed
<1>12. CASE Crash(t)
  BY <1>12 DEF Crash, Abort, Rollback, Failed
<1>13. CASE Decide(t)
  BY <1>13 DEF Decide, stockVars
<1>14. CASE Finish(t)
  BY <1>14 DEF Finish, Commit
<1> QED BY <1>1, <1>2, <1>3, <1>4, <1>5, <1>6, <1>7, <1>8, <1>9, <1>10, <1>11, <1>12, <1>13, <1>14
        DEF GrnProgress

\* Only a commit writes lines and received quantities.
LEMMA OnlyFinishWrites ==
  ASSUME NEW t \in Tx, Start(t) \/ GrnProgress(t) \/ Crash(t), ~Finish(t)
  PROVE  line' = line /\ received' = received /\ ready' = ready
BY DEF Start, GrnProgress, Crash, UpdateOrder, SaveDraft, Open, ReceiveLine, EndReceiveLine,
   InspectLine, EndInspectLine, EngineCall, LineRefused, CallFails, Decide, Failed, rowVars, grnVars

----------------------------------------------------------------------------
(* What lines deliver of an item. *)

Count(f) == [s \in DOMAIN f |-> f[s].qty - f[s].short]
OfItem(f, i) == {s \in DOMAIN f : f[s].item = i}
Total(f, i) == SumOver(Count(f), OfItem(f, i))

\* Finitely many lines, none of them short of more than it counts.
Delivers(f) ==
  /\ IsFiniteSet(DOMAIN f)
  /\ \A s \in DOMAIN f : f[s].qty \in Nat /\ f[s].short \in Nat /\ f[s].short <= f[s].qty

LEMMA CountFacts ==
  ASSUME NEW f, Delivers(f), NEW i
  PROVE  /\ IsFiniteSet(OfItem(f, i)) /\ OfItem(f, i) \subseteq DOMAIN f
         /\ \A s \in DOMAIN f : Count(f)[s] \in Nat /\ Count(f)[s] = f[s].qty - f[s].short
         /\ Total(f, i) \in Nat
<1>1. IsFiniteSet(OfItem(f, i)) /\ OfItem(f, i) \subseteq DOMAIN f
  BY FS_Subset DEF OfItem, Delivers
<1>2. \A s \in DOMAIN f : Count(f)[s] \in Nat /\ Count(f)[s] = f[s].qty - f[s].short
  BY DEF Count, Delivers
<1> DEFINE zero == [s \in DOMAIN f |-> 0]
<1>3. \A s \in OfItem(f, i) : zero[s] = 0
  BY <1>1
<1> HIDE DEF zero
<1>4. SumOver(zero, OfItem(f, i)) = 0
  BY <1>1, <1>3, SumZero
<1>5. SumOver(zero, OfItem(f, i)) <= SumOver(Count(f), OfItem(f, i))
  BY <1>1, <1>2, <1>3, SumMonotone
<1>6. SumOver(Count(f), OfItem(f, i)) \in Int
  BY <1>1, <1>2, SumInt
<1> QED BY <1>1, <1>2, <1>4, <1>5, <1>6 DEF Total

LEMMA TotalSame ==
  ASSUME NEW f, NEW g, Delivers(f), DOMAIN g = DOMAIN f,
         \A s \in DOMAIN f : f[s].item = g[s].item /\ f[s].qty = g[s].qty /\ f[s].short = g[s].short,
         NEW i
  PROVE  Delivers(g) /\ Total(g, i) = Total(f, i)
<1>1. Delivers(g)
  BY DEF Delivers
<1>2. OfItem(g, i) = OfItem(f, i)
  BY DEF OfItem
<1>3. \A s \in OfItem(f, i) : Count(f)[s] \in Int /\ Count(f)[s] = Count(g)[s]
  BY <1>1, CountFacts
<1>4. IsFiniteSet(OfItem(f, i))
  BY CountFacts
<1>5. SumOver(Count(f), OfItem(f, i)) = SumOver(Count(g), OfItem(f, i))
  BY <1>3, <1>4, SumEqual
<1> QED BY <1>1, <1>2, <1>5 DEF Total

LEMMA TotalOverlay ==
  ASSUME NEW f, NEW g, Delivers(f), Delivers(g), (DOMAIN f) \cap (DOMAIN g) = {}, NEW i
  PROVE  Delivers(Overlay(g, f)) /\ Total(Overlay(g, f), i) = Total(f, i) + Total(g, i)
<1> DEFINE h == Overlay(g, f)
<1>1. /\ DOMAIN h = (DOMAIN f) \cup (DOMAIN g)
      /\ \A s \in DOMAIN f : h[s] = f[s]
      /\ \A s \in DOMAIN g : h[s] = g[s]
  BY DEF Overlay
<1> HIDE DEF h
<1>2. Delivers(h)
  BY <1>1, FS_Union DEF Delivers
<1>3. OfItem(h, i) = OfItem(f, i) \cup OfItem(g, i) /\ OfItem(f, i) \cap OfItem(g, i) = {}
  BY <1>1 DEF OfItem
<1>4. /\ \A s \in OfItem(f, i) : Count(f)[s] \in Int /\ Count(h)[s] = Count(f)[s]
      /\ \A s \in OfItem(g, i) : Count(g)[s] \in Int /\ Count(h)[s] = Count(g)[s]
  BY <1>1, <1>2, CountFacts
<1>5. IsFiniteSet(OfItem(f, i)) /\ IsFiniteSet(OfItem(g, i))
  BY CountFacts
<1>6. SumOver(Count(h), OfItem(h, i)) = SumOver(Count(h), OfItem(f, i)) + SumOver(Count(h), OfItem(g, i))
  <2>1. \A s \in OfItem(f, i) \cup OfItem(g, i) : Count(h)[s] \in Int
    BY <1>4
  <2> QED BY <1>3, <1>5, <2>1, SumUnion
<1>7. SumOver(Count(h), OfItem(f, i)) = SumOver(Count(f), OfItem(f, i))
  BY <1>4, <1>5, SumEqual
<1>8. SumOver(Count(h), OfItem(g, i)) = SumOver(Count(g), OfItem(g, i))
  BY <1>4, <1>5, SumEqual
<1> QED BY <1>2, <1>6, <1>7, <1>8 DEF Total, h

LEMMA TotalSetAt ==
  ASSUME NEW f, Delivers(f), NEW s, s \notin DOMAIN f, NEW l,
         l.qty \in Nat, l.short \in Nat, l.short <= l.qty, NEW i
  PROVE  /\ Delivers(SetAt(f, s, l))
         /\ Total(SetAt(f, s, l), i) = Total(f, i) + (IF l.item = i THEN l.qty - l.short ELSE 0)
<1> DEFINE h == SetAt(f, s, l)
<1>1. /\ DOMAIN h = (DOMAIN f) \cup {s} /\ h[s] = l
      /\ \A x \in DOMAIN f : h[x] = f[x]
  BY DEF SetAt
<1> HIDE DEF h
<1>2. Delivers(h)
  BY <1>1, FS_AddElement DEF Delivers
<1>3. OfItem(h, i) = IF l.item = i THEN OfItem(f, i) \cup {s} ELSE OfItem(f, i)
  BY <1>1 DEF OfItem
<1>4. /\ \A x \in OfItem(f, i) : Count(f)[x] \in Int /\ Count(h)[x] = Count(f)[x]
      /\ Count(h)[s] = l.qty - l.short /\ Count(h)[s] \in Int
  BY <1>1, <1>2, CountFacts
<1>5. IsFiniteSet(OfItem(f, i)) /\ s \notin OfItem(f, i) /\ Total(f, i) \in Nat
  BY CountFacts
<1>6. SumOver(Count(h), OfItem(f, i)) = SumOver(Count(f), OfItem(f, i))
  BY <1>4, <1>5, SumEqual
<1>7. SumOver(Count(h), OfItem(f, i) \cup {s}) = Count(h)[s] + SumOver(Count(h), OfItem(f, i))
  <2>1. \A x \in OfItem(f, i) \cup {s} : Count(h)[x] \in Int
    BY <1>4
  <2> QED BY <1>5, <2>1, SumAdd
<1> QED BY <1>2, <1>3, <1>4, <1>5, <1>6, <1>7 DEF Total, h

----------------------------------------------------------------------------
(* No order line overstates what was delivered. *)

\* No line is shorter than it is: what the validation of GrnLineDto leaves to
\* the client.
ShortWithin ==
  \A t \in Tx : \A c \in Call0[t] :
    c.op = "post" => \A i \in DOMAIN c.lines : c.lines[i].short <= c.lines[i].qty

\* What the line being put away counts for, which its request has not added yet.
Uncounted(t, i) ==
  IF at[t] = "putaway" /\ call[t].order # NoOrder /\ Current(t).item = i
    THEN Counted(Current(t))
    ELSE 0

\* What a posting counts is within what is delivered and what it delivers.
CountOK(t) ==
  call[t].op = "post" /\ at[t] \in {"checked"} \cup Working =>
    /\ Delivers(newLine[t])
    /\ \A i \in Item : seen[t][i] + Uncounted(t, i) <= Total(line, i) + Total(newLine[t], i)

CountInv ==
  /\ Delivers(line)
  /\ \A t \in Tx : CountOK(t)
  /\ \A i \in Item : received[i] <= Total(line, i)

\* Lines are only added.
LEMMA CountUntouched ==
  ASSUME ReceiptInv, CountInv, NEW u \in Tx, Untouched(u), Delivers(line'),
         \A i \in Item : Total(line, i) <= Total(line', i)
  PROVE  CountOK(u)'
<1> SUFFICES ASSUME call[u].op = "post" /\ at[u] \in {"checked"} \cup Working, NEW i \in Item
             PROVE  seen[u][i] + Uncounted(u, i) <= Total(line', i) + Total(newLine[u], i)
  <2>1. \A i \in Item : Uncounted(u, i)' = Uncounted(u, i)
    BY DEF Untouched, Uncounted, Current
  <2>2. /\ call'[u] = call[u] /\ at'[u] = at[u] /\ newLine'[u] = newLine[u] /\ seen'[u] = seen[u]
    BY DEF Untouched
  <2> QED BY <2>1, <2>2 DEF CountOK, CountInv
<1>1. Delivers(newLine[u]) /\ Delivers(line)
  BY DEF CountInv, CountOK
<1>2. Total(line, i) \in Nat /\ Total(line', i) \in Nat /\ Total(newLine[u], i) \in Nat
  BY <1>1, CountFacts
<1>3. seen[u][i] \in Int
  BY DEF ReceiptInv, Shape
<1>4. Uncounted(u, i) \in Int
  <2>1. CASE at[u] = "putaway"
    <3>1. at[u] \in Working /\ pos[u] + 1 <= Len(call[u].lines)
      BY <2>1 DEF Working, ReceiptInv, RequestOK, ItsReceipt, Begun
    <3>2. pos[u] < Len(call[u].lines)
      BY <3>1, PostFacts
    <3> QED BY <3>1, <3>2, CurrentFacts DEF Uncounted, Counted
  <2>2. CASE at[u] # "putaway"
    BY <2>2 DEF Uncounted
  <2> QED BY <2>1, <2>2
<1>5. seen[u][i] + Uncounted(u, i) <= Total(line, i) + Total(newLine[u], i)
  BY DEF CountInv, CountOK
<1> QED BY <1>1, <1>2, <1>3, <1>4, <1>5

LEMMA CountReceiveLine ==
  ASSUME ShortWithin, ReceiptInv, CountInv, NEW t \in Tx, ReceiveLine(t)
  PROVE  CountOK(t)'
<1> DEFINE l == Current(t)
           s == SlotOf(t, pos[t] + 1)
           row == LineRow(call[t], l)
<1>1. /\ at[t] = "line" /\ at[t] \in Working /\ call[t].op = "post" /\ pos[t] < Len(call[t].lines)
      /\ newLine'[t] = SetAt(newLine[t], s, row)
      /\ at'[t] = "putaway" /\ Current(t)' = l
      /\ UNCHANGED <<rowVars, call, seen>>
  BY DEF ReceiveLine, AtLine, Working, ReceiptInv, Shape, Current
<1>2. l.qty \in Nat /\ l.short \in Nat /\ pos[t] + 1 \in DOMAIN call[t].lines
  BY <1>1, CurrentFacts
<1>3. l.short <= l.qty
  BY <1>1, <1>2, PostFacts DEF ShortWithin, Current
<1>4. /\ row.qty = l.qty /\ row.short = l.short
      /\ row.item = IF call[t].order = NoOrder THEN NoItem ELSE l.item
  BY DEF LineRow
<1>5. s \notin DOMAIN newLine[t]
  <2>1. pos[t] \in Nat /\ DOMAIN newLine[t] = {SlotOf(t, i) : i \in 1..pos[t]}
    BY <1>1, PostFacts DEF ReceiptInv, RequestOK, ItsReceipt, Begun
  <2>2. \A i \in 1..pos[t] : i \in DOMAIN call[t].lines /\ i # pos[t] + 1
    BY <1>1, <2>1, PostFacts
  <2> QED BY <1>1, <1>2, <2>1, <2>2, OwnSlot
<1> HIDE DEF l, s, row
<1>6. Delivers(newLine[t])
  BY <1>1 DEF CountInv, CountOK
<1>7. Delivers(newLine'[t])
  BY <1>1, <1>2, <1>3, <1>4, <1>5, <1>6, TotalSetAt
<1>8. ASSUME NEW i \in Item
      PROVE  seen[t][i] + Uncounted(t, i)' <= Total(line, i) + Total(newLine'[t], i)
  <2>1. Total(newLine'[t], i) = Total(newLine[t], i)
                                  + (IF row.item = i THEN l.qty - l.short ELSE 0)
    BY <1>1, <1>2, <1>3, <1>4, <1>5, <1>6, TotalSetAt
  <2>2. row.item = i <=> call[t].order # NoOrder /\ l.item = i
    BY <1>4, ReceiptConstants
  <2>5. /\ Uncounted(t, i)' = IF row.item = i THEN l.qty - l.short ELSE 0
        /\ Uncounted(t, i) = 0
    BY <1>1, <2>2 DEF Uncounted, Counted
  <2>3. Total(newLine[t], i) \in Nat /\ Total(line, i) \in Nat /\ seen[t][i] \in Int
    BY <1>6, CountFacts DEF CountInv, ReceiptInv, Shape
  <2>4. seen[t][i] + Uncounted(t, i) <= Total(line, i) + Total(newLine[t], i)
    BY <1>1 DEF CountInv, CountOK
  <2> QED BY <1>2, <2>1, <2>3, <2>4, <2>5
<1> QED BY <1>1, <1>7, <1>8 DEF CountOK, rowVars

LEMMA CountEndLine ==
  ASSUME ShortWithin, ReceiptInv, CountInv, NEW t \in Tx, EndReceiveLine(t)
  PROVE  CountOK(t)'
<1> DEFINE l == Current(t)
<1>1. /\ at[t] = "putaway" /\ at[t] \in Working /\ at'[t] = "line"
      /\ UNCHANGED <<rowVars, call, newLine>>
      /\ call[t].order = NoOrder => seen'[t] = seen[t]
      /\ call[t].order # NoOrder => seen'[t] = [seen[t] EXCEPT ![l.item] = NewReceived(t, l)]
  BY DEF EndReceiveLine, Working, ReceiptInv, Shape
<1>2. call[t].op = "post" /\ pos[t] + 1 <= Len(call[t].lines)
  BY <1>1 DEF ReceiptInv, RequestOK, ItsStage, ItsReceipt, Begun
<1>3. /\ l.qty \in Nat /\ l.short \in Nat /\ pos[t] + 1 \in DOMAIN call[t].lines
      /\ call[t] \in Call0[t]
  BY <1>1, <1>2, PostFacts, CurrentFacts
<1>4. l.short <= l.qty
  BY <1>2, <1>3 DEF ShortWithin, Current
<1>5. Delivers(newLine[t])
  BY <1>1, <1>2 DEF CountInv, CountOK
<1>6. ASSUME NEW i \in Item
      PROVE  seen'[t][i] <= Total(line, i) + Total(newLine[t], i)
  <2>1. Total(newLine[t], i) \in Nat /\ Total(line, i) \in Nat /\ seen[t] \in [Item -> Int]
    BY <1>5, CountFacts DEF CountInv, ReceiptInv, Shape
  <2>2. seen[t][i] + Uncounted(t, i) <= Total(line, i) + Total(newLine[t], i)
    BY <1>1, <1>2 DEF CountInv, CountOK
  <2>3. Uncounted(t, i) = IF call[t].order # NoOrder /\ l.item = i THEN l.qty - l.short ELSE 0
    BY <1>1 DEF Uncounted, Counted
  <2>4. \/ seen'[t][i] = seen[t][i]
        \/ /\ call[t].order # NoOrder /\ l.item = i
           /\ seen'[t][i] = seen[t][i] + (l.qty - l.short)
    BY <1>1, <2>1 DEF NewReceived, Counted
  <2> HIDE DEF l
  <2> QED BY <1>3, <1>4, <2>1, <2>2, <2>3, <2>4
<1>7. \A i \in Item : Uncounted(t, i)' = 0 /\ seen'[t][i] \in Int
  BY <1>1, EndReceiveLineOK DEF Uncounted, ReceiptInv, Shape
<1> QED BY <1>1, <1>5, <1>6, <1>7 DEF CountOK, rowVars

LEMMA CountFinish ==
  ASSUME ReceiptInv, CountInv, NEW t \in Tx, Finish(t)
  PROVE  /\ Delivers(line')
         /\ \A i \in Item : Total(line, i) <= Total(line', i) /\ received'[i] <= Total(line', i)
<1>1. /\ at[t] = "decided" /\ at[t] \in Working
      /\ call[t].op \in {"post", "inspect"} /\ line' = Overlay(newLine[t], line)
  BY DEF Finish, LineSeen, Working, ReceiptInv, RequestOK, ItsStage
<1>2. Delivers(line) /\ \A i \in Item : received[i] <= Total(line, i)
  BY DEF CountInv
<1>3. CASE call[t].op = "post"
  <2>1. Delivers(newLine[t]) /\ \A i \in Item : seen[t][i] + Uncounted(t, i) <= Total(line, i) + Total(newLine[t], i)
    BY <1>1, <1>3 DEF CountInv, CountOK
  <2>2. (DOMAIN line) \cap (DOMAIN newLine[t]) = {}
    BY <1>3, CommitLines
  <2>3. Delivers(line')
    BY <1>1, <1>2, <2>1, <2>2, TotalOverlay
  <2>4. ASSUME NEW i \in Item
        PROVE  Total(line, i) <= Total(line', i) /\ received'[i] <= Total(line', i)
    <3>1. Total(line', i) = Total(line, i) + Total(newLine[t], i)
      BY <1>1, <1>2, <2>1, <2>2, TotalOverlay
    <3>2. Total(newLine[t], i) \in Nat /\ Total(line, i) \in Nat /\ Uncounted(t, i) = 0
      BY <1>1, <1>2, <2>1, CountFacts DEF Uncounted
    <3>3. seen[t][i] \in Int /\ received[i] \in Int
      BY DEF ReceiptInv, Shape
    <3>4. received'[i] = seen[t][i] \/ received'[i] = received[i]
      BY CommitReceived
    <3> QED BY <1>2, <2>1, <3>1, <3>2, <3>3, <3>4
  <2> QED BY <2>3, <2>4
<1>4. CASE call[t].op = "inspect"
  <2>1. DOMAIN line' = DOMAIN line /\ LinesKept
    BY <1>4, CommitLines
  <2>2. \A s \in DOMAIN line : line[s].item = line'[s].item /\ line[s].qty = line'[s].qty
                               /\ line[s].short = line'[s].short
    BY <2>1 DEF LinesKept, Fixed
  <2>3. Delivers(line') /\ \A i \in Item : Total(line', i) = Total(line, i)
    BY <1>2, <2>1, <2>2, TotalSame
  <2>4. \A i \in Item : received'[i] = received[i]
    BY <1>4, CommitReceived
  <2>5. \A i \in Item : Total(line, i) \in Nat
    BY <1>2, CountFacts
  <2> QED BY <1>2, <2>3, <2>4, <2>5
<1> QED BY <1>1, <1>3, <1>4

LEMMA CountStep == ShortWithin /\ ReceiptInv /\ CountInv /\ [GrnNext]_allVars => CountInv'
<1> SUFFICES ASSUME ShortWithin, ReceiptInv, CountInv, [GrnNext]_allVars PROVE CountInv'
  OBVIOUS
<1>1. \A i \in Item : Total(line, i) \in Nat
  BY CountFacts DEF CountInv
<1>2. ASSUME NEW t \in Tx, Start(t) \/ GrnProgress(t) \/ Crash(t) PROVE CountInv'
  <2>1. /\ Delivers(line')
        /\ \A i \in Item : Total(line, i) <= Total(line', i) /\ received'[i] <= Total(line', i)
    <3>1. CASE Finish(t)
      BY <3>1, CountFinish
    <3>2. CASE ~Finish(t)
      BY <1>1, <1>2, <3>2, OnlyFinishWrites DEF CountInv
    <3> QED BY <3>1, <3>2
  <2>2. \A u \in Tx \ {t} : CountOK(u)'
    BY <1>2, <2>1, OthersUntouched, CountUntouched
  <2>3. CountOK(t)'
    <3>1. CASE Start(t)
      <4>1. at'[t] = "checked" /\ seen'[t] = received /\ newLine'[t] = Nothing /\ line' = line
        BY <3>1 DEF Start, ReceiptInv, Shape, RequestOK, ItsStage, rowVars
      <4>2. Delivers(newLine'[t])
        BY <4>1, FS_EmptySet DEF Delivers, Nothing
      <4>3. ASSUME NEW i \in Item
            PROVE  seen'[t][i] + Uncounted(t, i)' <= Total(line', i) + Total(newLine'[t], i)
        <5>1. Total(newLine'[t], i) \in Nat
          BY <4>2, CountFacts
        <5>2. received[i] \in Int /\ received[i] <= Total(line, i) /\ Uncounted(t, i)' = 0
          BY <4>1 DEF ReceiptInv, Shape, CountInv, Uncounted
        <5> QED BY <1>1, <4>1, <5>1, <5>2
      <4> QED BY <4>2, <4>3 DEF CountOK
    <3>2. CASE ReceiveLine(t)
      BY <3>2, CountReceiveLine
    <3>3. CASE EndReceiveLine(t)
      BY <3>3, CountEndLine
    <3>4. CASE UpdateOrder(t) \/ SaveDraft(t) \/ InspectLine(t) \/ EndInspectLine(t)
      <4>1. call[t].op # "post" /\ call' = call
        BY <3>4 DEF UpdateOrder, SaveDraft, InspectLine, AtLine, EndInspectLine,
           ReceiptInv, RequestOK, ItsStage
      <4> QED BY <4>1 DEF CountOK
    <3>5. CASE LineRefused(t) \/ CallFails(t) \/ Crash(t) \/ Finish(t)
      <4>1. at'[t] \in {"failed", "done"}
        BY <3>5 DEF LineRefused, CallFails, Crash, Failed, Finish, ReceiptInv, Shape
      <4> QED BY <4>1 DEF CountOK, Working
    <3>6. CASE Open(t) \/ Decide(t) \/ EngineCall(t)
      <4>1. /\ at'[t] = at[t] \/ (at[t] \in {"line", "checked"} /\ at'[t] \in {"line", "decided"})
            /\ UNCHANGED <<line, call, seen, pos, newLine>>
        BY <3>6 DEF Open, Decide, EngineCall, grnVars, rowVars, ReceiptInv, Shape
      <4>2. \A i \in Item : Uncounted(t, i)' = Uncounted(t, i)
        BY <4>1 DEF Uncounted, Current
      <4> QED BY <4>1, <4>2 DEF CountInv, CountOK, Working
    <3> QED BY <1>2, <3>1, <3>2, <3>3, <3>4, <3>5, <3>6 DEF GrnProgress
  <2> QED BY <2>1, <2>2, <2>3 DEF CountInv
<1>3. CASE UNCHANGED allVars
  <2>1. Delivers(line') /\ \A i \in Item : Total(line, i) <= Total(line', i)
    BY <1>1, <1>3 DEF allVars, CountInv
  <2>2. \A u \in Tx : Untouched(u)
    BY <1>3 DEF allVars, Untouched, InFlight
  <2> QED BY <1>3, <2>1, <2>2, CountUntouched DEF CountInv, allVars
<1> QED BY <1>2, <1>3 DEF GrnNext

\* If no line is shorter than it is, no order line claims to have received
\* more than its posted receipts delivered, though receipts write it from
\* stale reads (grn.service.ts:279-283, 414-422).
THEOREM DeliveredBoundsReceived ==
  ASSUME ShortWithin PROVE GrnSpec => []ReceivedNeverOverstated
<1>1. GrnInit => CountInv
  <2> SUFFICES ASSUME GrnInit PROVE CountInv
    OBVIOUS
  <2>1. Delivers(line)
    BY FS_EmptySet DEF GrnInit, Nothing, Delivers
  <2>2. \A i \in Item : received[i] <= Total(line, i)
    <3> SUFFICES ASSUME NEW i \in Item PROVE received[i] <= Total(line, i)
      OBVIOUS
    <3>1. Total(line, i) \in Nat /\ received[i] = 0
      BY <2>1, CountFacts DEF GrnInit
    <3> QED BY <3>1
  <2>3. \A t \in Tx : CountOK(t)
    BY DEF GrnInit, CountOK, Working
  <2> QED BY <2>1, <2>2, <2>3 DEF CountInv
<1>2. CountInv => ReceivedNeverOverstated
  BY DEF CountInv, ReceivedNeverOverstated, Delivered, Total, Count, OfItem
<1> QED BY <1>1, <1>2, CountStep, ReceiptInvariance, PTL DEF GrnSpec

----------------------------------------------------------------------------
(* A receipt waits for inspection while one of its lines does. *)

DonePost(t, g) == at[t] = "done" /\ call[t].op = "post" /\ call[t].receipt = g

DoneOnce(g) == \A t, u \in Tx : DonePost(t, g) /\ DonePost(u, g) => t = u

PendingIn(f, g) == \E s \in DOMAIN f : f[s].receipt = g /\ f[s].qcStatus = "pending"

\* A receipt that is being created is not there yet; one that is posted from
\* a draft, or inspected, is.
Existence(t) ==
  /\ at[t] \in {"checked"} \cup Working /\ Creates(call[t]) => status[call[t].receipt] = "none"
  /\ at[t] # "idle" /\ call[t].op = "post" /\ call[t].draft => status[call[t].receipt] # "none"
  /\ at[t] # "idle" /\ call[t].op = "inspect" => status[call[t].receipt] \notin {"none", "draft"}

\* A receipt is past its draft once a posting of it is done.
Posted(g) == (\E t \in Tx : DonePost(t, g)) <=> status[g] \notin {"none", "draft"}

\* The series' lock: one inspection at a time.
OneInspection ==
  \A t, u \in Tx : call[t].op = "inspect" /\ InFlight(t) /\ call[u].op = "inspect" /\ InFlight(u)
                     => t = u

\* What a transaction decides is still so when it commits.
Decided(t) ==
  at[t] = "decided" =>
    /\ call[t].op = "post" =>
         (outcome[t] = "pending_qc" <=> PendingIn(newLine[t], call[t].receipt))
    /\ call[t].op = "inspect" /\ DoneOnce(call[t].receipt) =>
         (outcome[t] = "pending_qc" <=> PendingIn(LineSeen(t), call[t].receipt))

Waits(g) ==
  DoneOnce(g) =>
    /\ status[g] = "pending_qc" <=> PendingIn(line, g)
    /\ g \in ready => ~PendingIn(line, g)

WaitInv ==
  /\ \A t \in Tx : Existence(t) /\ Decided(t)
  /\ \A g \in Receipt : Posted(g) /\ Waits(g)
  /\ OneInspection

\* The receipt a call names.
LEMMA ItsReceiptIs ==
  ASSUME ReceiptInv, NEW t \in Tx, at[t] # "idle", call[t].op \in {"save", "post", "inspect"}
  PROVE  call[t] \in Call0[t] /\ call[t].receipt \in Receipt
<1>1. call[t] \in Call0[t]
  BY DEF ReceiptInv, RequestOK, Request, ItsCall
<1> QED BY <1>1, CallFacts

LEMMA RowStatus ==
  ASSUME NEW c, NEW l
  PROVE  LineRow(c, l).receipt = c.receipt /\ (LineRow(c, l).qcStatus = "pending" <=> l.qc)
<1>1. CASE l.qc
  BY <1>1 DEF LineRow
<1>2. CASE ~l.qc
  BY <1>2 DEF LineRow
<1> QED BY <1>1, <1>2

LEMMA StartFacts ==
  ASSUME ReceiptInv, NEW t \in Tx, Start(t)
  PROVE  /\ at[t] = "idle" /\ at'[t] = "checked"
         /\ UNCHANGED <<status, ready, line, phase>>
         /\ \E c \in Call0[t] : /\ Admitted(c) /\ call'[t].op = c.op
                                /\ c.op # "edit" => call'[t] = c
<1>1. PICK c \in Call0[t] :
        /\ Admitted(c)
        /\ call' = [call EXCEPT ![t] =
             IF c.op = "edit" THEN Overlay(c, [was |-> poStatus[c.order]]) ELSE c]
  BY DEF Start
<1>2. call'[t].op = c.op /\ (c.op # "edit" => call'[t] = c)
  <2>1. CASE c.op = "edit"
    <3>1. call'[t] = Overlay(c, [was |-> poStatus[c.order]])
      BY <1>1, <2>1 DEF ReceiptInv, Shape
    <3> QED BY <3>1, <2>1, CallFacts, AlsoWas
  <2>2. CASE c.op # "edit"
    BY <1>1, <2>2 DEF ReceiptInv, Shape
  <2> QED BY <2>1, <2>2
<1>3. at[t] = "idle" /\ at'[t] = "checked" /\ UNCHANGED <<status, ready, line, phase>>
  BY DEF Start, rowVars, stockVars, ReceiptInv, Shape
<1> QED BY <1>1, <1>2, <1>3

\* A step that writes no row, and ends no posting.
LEMMA WaitQuiet ==
  ASSUME WaitInv, UNCHANGED <<status, ready, line>>,
         \A u \in Tx : Existence(u)' /\ Decided(u)',
         \A u \in Tx : \A g \in Receipt : DonePost(u, g)' <=> DonePost(u, g),
         OneInspection'
  PROVE  WaitInv'
<1>1. ASSUME NEW g \in Receipt PROVE Posted(g)' /\ Waits(g)'
  <2>1. DoneOnce(g)' <=> DoneOnce(g)
    BY DEF DoneOnce
  <2> QED BY <2>1 DEF WaitInv, Posted, Waits
<1> QED BY <1>1 DEF WaitInv

\* Another request's facts, when no row is written.
LEMMA WaitOther ==
  ASSUME WaitInv, UNCHANGED <<status, line>>, NEW u \in Tx, Untouched(u),
         \A g : DoneOnce(g)' => DoneOnce(g)
  PROVE  Existence(u)' /\ Decided(u)'
<1>1. Existence(u)'
  BY DEF WaitInv, Existence, Untouched, Creates
<1>2. LineSeen(u)' = LineSeen(u)
  BY DEF LineSeen, Untouched
<1>3. Decided(u)'
  BY <1>2 DEF WaitInv, Decided, Untouched
<1> QED BY <1>1, <1>3

LEMMA WaitStart ==
  ASSUME ReceiptInv, WaitInv, NEW t \in Tx, Start(t)
  PROVE  WaitInv'
<1>1. PICK c \in Call0[t] : /\ Admitted(c) /\ call'[t].op = c.op
                            /\ c.op # "edit" => call'[t] = c
  BY StartFacts
<1>2. at[t] = "idle" /\ at'[t] = "checked" /\ UNCHANGED <<status, ready, line, phase>>
  BY StartFacts
<1>3. \A u \in Tx \ {t} : Untouched(u)
  BY OthersUntouched
<1>4. \A u \in Tx : \A g : DonePost(u, g)' <=> DonePost(u, g)
  BY <1>2, <1>3 DEF DonePost, Untouched
<1>5. \A g : DoneOnce(g)' => DoneOnce(g)
  BY <1>4 DEF DoneOnce
<1>6. Existence(t)'
  BY <1>1, <1>2 DEF Existence, Creates, Admitted
<1>7. Decided(t)'
  BY <1>2 DEF Decided
<1>8. OneInspection'
  <2>1. ~InFlight(t)
    BY <1>2 DEF ReceiptInv, RequestOK, ItsStage, Working
  <2> QED BY <1>2, <1>3, <2>1 DEF OneInspection, WaitInv, InFlight, Untouched
<1>9. \A u \in Tx \ {t} : Existence(u)' /\ Decided(u)'
  BY <1>2, <1>3, <1>5, WaitOther
<1> QED BY <1>2, <1>4, <1>6, <1>7, <1>8, <1>9, WaitQuiet

\* The other steps that write no receipt.
LEMMA WaitAtWork ==
  ASSUME ReceiptInv, WaitInv, NEW t \in Tx,
         \/ UpdateOrder(t) \/ Open(t) \/ ReceiveLine(t) \/ EndReceiveLine(t)
         \/ InspectLine(t) \/ EndInspectLine(t) \/ EngineCall(t) \/ LineRefused(t)
         \/ CallFails(t) \/ Crash(t) \/ Decide(t)
  PROVE  WaitInv'
<1>1. UNCHANGED <<status, ready, line, call>>
  BY DEF UpdateOrder, Open, ReceiveLine, EndReceiveLine, InspectLine, EndInspectLine,
     EngineCall, LineRefused, CallFails, Crash, Failed, Decide, rowVars, grnVars
<1>2. \A u \in Tx \ {t} : Untouched(u)
  BY OthersUntouched DEF GrnProgress
<1>3. /\ at[t] # "idle"
      /\ at[t] # "done"
      /\ at'[t] = "done" => call[t].op # "post"
      /\ at'[t] \in Working => at[t] \in {"checked"} \cup Working
      /\ at'[t] \notin {"checked", "idle"}
  <2>1. at[t] \in {"checked"} \cup Working
    <3>1. CASE UpdateOrder(t) \/ Open(t) \/ ReceiveLine(t) \/ EndReceiveLine(t)
               \/ InspectLine(t) \/ EndInspectLine(t) \/ LineRefused(t) \/ Decide(t)
      BY <3>1 DEF UpdateOrder, Open, ReceiveLine, EndReceiveLine, InspectLine, EndInspectLine,
         LineRefused, AtLine, Decide, Working
    <3>2. CASE EngineCall(t) \/ CallFails(t) \/ Crash(t)
      <4>1. InFlight(t)
        BY <3>2 DEF EngineCall, CallFails, Crash, Find, Write, Refuse, UniqueViolation,
           BreakDeadlock, Deadlocked, Blockers, Abort, InFlight
      <4> QED BY <4>1 DEF ReceiptInv, RequestOK, ItsStage
    <3> QED BY <3>1, <3>2
  <2>2. CASE UpdateOrder(t) \/ Open(t) \/ ReceiveLine(t) \/ EndReceiveLine(t)
             \/ InspectLine(t) \/ EndInspectLine(t) \/ LineRefused(t) \/ Decide(t)
             \/ CallFails(t) \/ Crash(t)
    BY <2>1, <2>2 DEF UpdateOrder, Open, ReceiveLine, EndReceiveLine, InspectLine, EndInspectLine,
       LineRefused, CallFails, Crash, Failed, Decide, Working, ReceiptInv, Shape
  <2>3. CASE EngineCall(t)
    <3>1. InFlight(t) /\ at' = at
      BY <2>3 DEF EngineCall, Find, Write, InFlight, grnVars
    <3> QED BY <3>1 DEF ReceiptInv, RequestOK, ItsStage, Working
  <2> QED BY <2>2, <2>3
<1>4. \A u \in Tx : \A g : DonePost(u, g)' <=> DonePost(u, g)
  BY <1>1, <1>2, <1>3 DEF DonePost, Untouched
<1>5. \A g : DoneOnce(g)' <=> DoneOnce(g)
  BY <1>4 DEF DoneOnce
<1>6. Existence(t)'
  BY <1>1, <1>3 DEF WaitInv, Existence, Creates
<1>7. OneInspection'
  <2>1. CASE Open(t)
    BY <1>1, <1>2, <2>1 DEF OneInspection, WaitInv, Open, NumberFree, Untouched, InFlight
  <2>2. CASE ~Open(t)
    <3>1. InFlight(t)' => InFlight(t)
      BY <2>2 DEF UpdateOrder, ReceiveLine, EndReceiveLine, InspectLine, EndInspectLine,
         EngineCall, Find, Write, LineRefused, CallFails, Refuse, UniqueViolation, BreakDeadlock,
         Crash, Abort, Rollback, CallWith, Decide, stockVars, InFlight, ReceiptInv, Shape
    <3> QED BY <1>1, <1>2, <3>1 DEF OneInspection, WaitInv, Untouched
  <2> QED BY <2>1, <2>2
<1>8. Decided(t)'
  <2>1. CASE Decide(t)
    <3>1. /\ pos[t] = Len(call[t].lines) /\ at[t] = "line" /\ at[t] \in Working
          /\ call[t].op \in {"post", "inspect"} /\ newLine' = newLine
          /\ outcome'[t] = IF call[t].op = "post" THEN PostedStatus(t) ELSE InspectedStatus(t)
      BY <2>1 DEF Decide, ReceiptInv, Shape, RequestOK, ItsStage, Working
    <3>2. CASE call[t].op = "post"
      <4>1. /\ DOMAIN newLine[t] = {SlotOf(t, i) : i \in 1..pos[t]}
            /\ \A i \in 1..pos[t] :
                 newLine[t][SlotOf(t, i)] = LineRow(call[t], call[t].lines[i])
            /\ DOMAIN call[t].lines = 1..pos[t]
        BY <3>1, <3>2, PostFacts DEF ReceiptInv, RequestOK, ItsReceipt, Begun
      <4>2. \A i \in 1..pos[t] : /\ newLine[t][SlotOf(t, i)].receipt = call[t].receipt
                                 /\ newLine[t][SlotOf(t, i)].qcStatus = "pending"
                                      <=> call[t].lines[i].qc
        BY <4>1, RowStatus
      <4>3. PendingIn(newLine[t], call[t].receipt) <=> \E i \in 1..pos[t] : call[t].lines[i].qc
        BY <4>1, <4>2 DEF PendingIn
      <4>4. PostedStatus(t) = "pending_qc" <=> \E i \in 1..pos[t] : call[t].lines[i].qc
        BY <4>1 DEF PostedStatus
      <4> QED BY <1>1, <3>1, <3>2, <4>3, <4>4 DEF Decided
    <3>3. CASE call[t].op = "inspect"
      <4>1. LineSeen(t)' = LineSeen(t)
        BY <1>1, <3>1 DEF LineSeen
      <4>2. \A s \in DOMAIN LineSeen(t) :
              LineSeen(t)[s].qcStatus = "pending" => LineSeen(t)[s].qcRequired
        <5>1. \A s \in DOMAIN newLine[t] : newLine[t][s].qcStatus # "pending"
          BY <1>3, <3>3 DEF ReceiptInv, RequestOK, ItsInspection
        <5> QED BY <5>1 DEF LineSeen, Overlay, ReceiptInv, Origins
      <4>3. InspectedStatus(t) = "pending_qc" <=> PendingIn(LineSeen(t), call[t].receipt)
        BY <4>2 DEF InspectedStatus, PendingIn, LinesOf
      <4> QED BY <1>1, <3>1, <3>3, <4>1, <4>3 DEF Decided
    <3> QED BY <3>1, <3>2, <3>3
  <2>2. CASE EngineCall(t)
    <3>1. UNCHANGED <<at, outcome, newLine>> /\ LineSeen(t)' = LineSeen(t)
      BY <2>2 DEF EngineCall, grnVars, LineSeen
    <3> QED BY <1>1, <1>5, <3>1 DEF WaitInv, Decided
  <2>3. CASE ~Decide(t) /\ ~EngineCall(t)
    <3>1. at'[t] # "decided"
      BY <2>3 DEF UpdateOrder, Open, ReceiveLine, EndReceiveLine, InspectLine, EndInspectLine,
         LineRefused, CallFails, Crash, Failed, ReceiptInv, Shape
    <3> QED BY <3>1 DEF Decided
  <2> QED BY <2>1, <2>2, <2>3
<1>9. \A u \in Tx \ {t} : Existence(u)' /\ Decided(u)'
  BY <1>1, <1>2, <1>5, WaitOther
<1> QED BY <1>1, <1>4, <1>6, <1>7, <1>8, <1>9, WaitQuiet

LEMMA WaitSave ==
  ASSUME ReceiptInv, WaitInv, NEW t \in Tx, SaveDraft(t)
  PROVE  WaitInv'
<1> DEFINE h == call[t].receipt
<1>1. /\ at[t] = "checked" /\ at'[t] = "done" /\ call[t].op = "save"
      /\ status' = [status EXCEPT ![h] = "draft"]
      /\ UNCHANGED <<ready, line, call, phase>>
  BY DEF SaveDraft, stockVars, ReceiptInv, Shape
<1>2. call[t] \in Call0[t] /\ h \in Receipt /\ status[h] = "none"
  BY <1>1, ItsReceiptIs DEF WaitInv, Existence, Creates
<1>3. \A g \in Receipt : status'[g] = IF g = h THEN "draft" ELSE status[g]
  BY <1>1, <1>2 DEF ReceiptInv, Shape
<1>4. \A u \in Tx \ {t} : Untouched(u)
  BY OthersUntouched DEF GrnProgress
<1>5. \A u \in Tx : \A g : DonePost(u, g)' <=> DonePost(u, g)
  BY <1>1, <1>4 DEF DonePost, Untouched
<1>6. \A g : DoneOnce(g)' <=> DoneOnce(g)
  BY <1>5 DEF DoneOnce
<1>7. Existence(t)' /\ Decided(t)'
  BY <1>1 DEF Existence, Decided, Working
<1>8. ASSUME NEW u \in Tx \ {t} PROVE Existence(u)' /\ Decided(u)'
  <2>1. /\ at'[u] = at[u] /\ call'[u] = call[u] /\ newLine'[u] = newLine[u] /\ outcome'[u] = outcome[u]
        /\ LineSeen(u)' = LineSeen(u)
    BY <1>1, <1>4 DEF Untouched, LineSeen
  <2>2. Decided(u)'
    BY <1>6, <2>1 DEF WaitInv, Decided
  <2>3. Existence(u)
    BY DEF WaitInv
  <2>4. ASSUME at[u] \in {"checked"} \cup Working, Creates(call[u]) PROVE status'[call[u].receipt] = "none"
    <3>1. at[u] # "idle" /\ call[u].op \in {"save", "post"}
      BY <2>4 DEF Working, Creates
    <3>2. call[u] \in Call0[u] /\ call[u].receipt \in Receipt
      BY <3>1, ItsReceiptIs
    <3>3. call[u].receipt # h
      BY <1>1, <1>2, <2>4, <3>2, ReceiptConstants DEF Creates
    <3> QED BY <1>3, <2>3, <2>4, <3>2, <3>3 DEF Existence
  <2>5. ASSUME at[u] # "idle", call[u].op \in {"post", "inspect"},
               call[u].op = "inspect" \/ call[u].draft
        PROVE  status'[call[u].receipt] = status[call[u].receipt]
    <3>1. call[u].receipt \in Receipt
      BY <2>5, ItsReceiptIs
    <3>2. status[call[u].receipt] # "none"
      BY <2>3, <2>5 DEF Existence
    <3> QED BY <1>2, <1>3, <3>1, <3>2
  <2> QED BY <2>1, <2>2, <2>3, <2>4, <2>5 DEF Existence
<1>9. ASSUME NEW g \in Receipt PROVE Posted(g)' /\ Waits(g)'
  <2>1. CASE g = h
    <3>1. ~\E u \in Tx : DonePost(u, g)
      BY <1>2, <2>1 DEF WaitInv, Posted
    <3>2. Posted(g)'
      BY <1>3, <1>5, <2>1, <3>1 DEF Posted
    <3>3. ~PendingIn(line, g)
      <4> SUFFICES ASSUME NEW s \in DOMAIN line, line[s].receipt = g PROVE FALSE
        BY DEF PendingIn
      <4>1. PICK u \in Tx, i \in Nat : WrittenBy(s, u, i)
        BY DEF ReceiptInv, Origins
      <4>2. DonePost(u, g)
        BY <4>1 DEF WrittenBy, DonePost, Fixed, LineRow
      <4> QED BY <3>1, <4>2
    <3>4. Waits(g)'
      BY <1>1, <1>3, <2>1, <3>3 DEF Waits
    <3> QED BY <3>2, <3>4
  <2>2. CASE g # h
    BY <1>1, <1>3, <1>5, <1>6, <2>2 DEF WaitInv, Posted, Waits
  <2> QED BY <2>1, <2>2
<1>10. OneInspection'
  BY <1>1 DEF WaitInv, OneInspection, InFlight
<1> QED BY <1>7, <1>8, <1>9, <1>10 DEF WaitInv

\* What a commit leaves pending.
LEMMA PendingKept ==
  ASSUME ReceiptInv, NEW t \in Tx, Finish(t), NEW g, g # call[t].receipt
  PROVE  PendingIn(line', g) <=> PendingIn(line, g)
<1>1. /\ at[t] # "idle" /\ at[t] \in Working /\ call[t].op \in {"post", "inspect"}
      /\ DOMAIN line' = (DOMAIN line) \cup DOMAIN newLine[t]
      /\ \A s \in DOMAIN newLine[t] : line'[s] = newLine[t][s]
      /\ \A s \in (DOMAIN line) \ DOMAIN newLine[t] : line'[s] = line[s]
  BY CommitLines DEF Finish, Working, ReceiptInv, RequestOK, ItsStage
<1>2. \A s \in DOMAIN newLine[t] : line'[s].receipt = call[t].receipt
  <2>1. CASE call[t].op = "post"
    <3>1. \A s \in DOMAIN newLine[t] : newLine[t][s].receipt = call[t].receipt
      BY <1>1, <2>1, RowStatus DEF ReceiptInv, RequestOK, ItsReceipt
    <3> QED BY <1>1, <3>1
  <2>2. CASE call[t].op = "inspect"
    BY <1>1, <2>2 DEF ReceiptInv, RequestOK, ItsInspection, Fixed
  <2> QED BY <1>1, <2>1, <2>2
<1>3. \A s \in (DOMAIN line) \cap DOMAIN newLine[t] : line[s].receipt = call[t].receipt
  <2>1. LinesKept
    BY CommitLines
  <2> QED BY <1>2, <2>1 DEF LinesKept, Fixed
<1> QED BY <1>1, <1>2, <1>3 DEF PendingIn

LEMMA WaitFinish ==
  ASSUME ReceiptInv, WaitInv, NEW t \in Tx, Finish(t)
  PROVE  WaitInv'
<1> DEFINE h == call[t].receipt
<1>1. /\ at[t] = "decided" /\ at'[t] = "done"
      /\ phase[t] = "find" /\ phase'[t] = "committed"
      /\ status' = [status EXCEPT ![h] = outcome[t]]
      /\ ready' = IF /\ Handoff
                     /\ \/ outcome[t] = "approved"
                        \/ outcome[t] = "partial" /\ call[t].op = "inspect"
                    THEN ready \cup {h} ELSE ready \ {h}
      /\ line' = LineSeen(t)
      /\ UNCHANGED <<call, newLine, outcome>>
  BY DEF Finish, Commit, ReceiptInv, Shape
<1>2. /\ at[t] # "idle" /\ at[t] \in Working /\ call[t].op \in {"post", "inspect"} /\ InFlight(t)
      /\ outcome[t] \in {"pending_qc", "approved", "rejected", "partial", "completed"}
  BY <1>1 DEF Working, InFlight, ReceiptInv, RequestOK, ItsStage
<1>3. call[t] \in Call0[t] /\ h \in Receipt
  BY <1>2, ItsReceiptIs
<1>4. \A g \in Receipt : status'[g] = IF g = h THEN outcome[t] ELSE status[g]
  BY <1>1, <1>3 DEF ReceiptInv, Shape
<1>5. \A u \in Tx \ {t} : Untouched(u)
  BY OthersUntouched DEF GrnProgress
<1>6. /\ \A u \in Tx \ {t} : \A g : DonePost(u, g)' <=> DonePost(u, g)
      /\ \A g : ~DonePost(t, g)
      /\ \A g : DonePost(t, g)' <=> (call[t].op = "post" /\ g = h)
  BY <1>1, <1>5 DEF DonePost, Untouched
<1>7. \A g : DoneOnce(g)' => DoneOnce(g)
  BY <1>6 DEF DoneOnce
<1>8. Existence(t)' /\ Decided(t)'
  BY <1>1, <1>2, <1>3, <1>4 DEF Existence, Decided, Working
<1>9. ASSUME NEW u \in Tx \ {t} PROVE Existence(u)'
  <2>1. Existence(u) /\ at'[u] = at[u] /\ call'[u] = call[u]
    BY <1>5 DEF WaitInv, Untouched
  <2>2. ASSUME at[u] \in {"checked"} \cup Working, Creates(call[u])
        PROVE  status'[call[u].receipt] = "none"
    <3>1. at[u] # "idle" /\ call[u].op \in {"save", "post"}
      BY <2>2 DEF Working, Creates
    <3>2. call[u] \in Call0[u] /\ call[u].receipt \in Receipt /\ status[call[u].receipt] = "none"
      BY <2>1, <2>2, <3>1, ItsReceiptIs DEF Existence
    <3>3. call[u].receipt # h
      <4>1. CASE Creates(call[t])
        BY <1>3, <2>2, <3>2, <4>1, ReceiptConstants
      <4>2. CASE ~Creates(call[t])
        <5>1. status[h] # "none"
          BY <1>2, <4>2 DEF WaitInv, Existence, Creates
        <5> QED BY <3>2, <5>1
      <4> QED BY <4>1, <4>2
    <3> QED BY <1>4, <3>2, <3>3
  <2>3. ASSUME at[u] # "idle", call[u].op \in {"post", "inspect"}
        PROVE  /\ status[call[u].receipt] # "none" => status'[call[u].receipt] # "none"
               /\ status[call[u].receipt] \notin {"none", "draft"} =>
                    status'[call[u].receipt] \notin {"none", "draft"}
    <3>1. call[u].receipt \in Receipt
      BY <2>3, ItsReceiptIs
    <3> QED BY <1>2, <1>4, <3>1
  <2> QED BY <2>1, <2>2, <2>3 DEF Existence
<1>10. ASSUME NEW u \in Tx \ {t} PROVE Decided(u)'
  <2>1. /\ at'[u] = at[u] /\ call'[u] = call[u] /\ newLine'[u] = newLine[u] /\ outcome'[u] = outcome[u]
    BY <1>5 DEF Untouched
  <2>2. ASSUME at[u] = "decided", call[u].op = "inspect", DoneOnce(call[u].receipt)'
        PROVE  PendingIn(LineSeen(u)', call[u].receipt) <=> PendingIn(LineSeen(u), call[u].receipt)
    <3> DEFINE g == call[u].receipt
    <3>1. at[u] # "idle" /\ at[u] \in Working /\ InFlight(u)
      BY <2>2 DEF Working, ReceiptInv, RequestOK, ItsStage
    <3>2. call[t].op = "post"
      BY <1>2, <2>2, <3>1 DEF WaitInv, OneInspection
    <3>3. g \in Receipt /\ status[g] \notin {"none", "draft"}
      BY <2>2, <3>1, ItsReceiptIs DEF WaitInv, Existence
    <3>4. PICK w \in Tx : DonePost(w, g)
      BY <3>3 DEF WaitInv, Posted
    <3>5. g # h
      <4>1. w # t /\ DonePost(w, g)'
        BY <1>1, <1>6, <3>4
      <4>2. g = h => DonePost(t, g)'
        BY <1>1, <1>6, <3>2
      <4> QED BY <2>1, <2>2, <4>1, <4>2 DEF DoneOnce
    <3>6. /\ DOMAIN line' = (DOMAIN line) \cup DOMAIN newLine[t]
          /\ \A s \in DOMAIN newLine[t] : line'[s] = newLine[t][s]
          /\ \A s \in DOMAIN line : line'[s] = line[s]
      BY <3>2, CommitLines
    <3>7. DOMAIN newLine[u] \subseteq DOMAIN line
      BY <2>2, <3>1 DEF ReceiptInv, RequestOK, ItsInspection
    <3>8. \A s \in DOMAIN newLine[t] : newLine[t][s].receipt = h
      BY <1>2, <3>2, RowStatus DEF ReceiptInv, RequestOK, ItsReceipt
    <3>9. /\ DOMAIN LineSeen(u) = DOMAIN line
          /\ DOMAIN LineSeen(u)' = (DOMAIN line) \cup DOMAIN newLine[t]
          /\ \A s \in DOMAIN line : LineSeen(u)'[s] = LineSeen(u)[s]
          /\ \A s \in (DOMAIN newLine[t]) \ DOMAIN line : LineSeen(u)'[s].receipt = h
      BY <2>1, <3>6, <3>7, <3>8 DEF LineSeen, Overlay
    <3> HIDE DEF g, h
    <3>10. PendingIn(LineSeen(u)', g) <=> PendingIn(LineSeen(u), g)
      BY <3>5, <3>9 DEF PendingIn
    <3> QED BY <3>10 DEF g
  <2>3. DoneOnce(call[u].receipt)' => DoneOnce(call[u].receipt)
    BY <1>7, <2>1
  <2> QED BY <2>1, <2>2, <2>3 DEF WaitInv, Decided
<1>11. ASSUME NEW g \in Receipt PROVE Posted(g)' /\ Waits(g)'
  <2>1. CASE g # h
    <3>1. PendingIn(line', g) <=> PendingIn(line, g)
      BY <2>1, PendingKept
    <3>2. Posted(g) /\ Waits(g)
      BY DEF WaitInv
    <3>3. Posted(g)'
      BY <1>4, <1>6, <2>1, <3>2 DEF Posted
    <3>4. Waits(g)'
      BY <1>1, <1>4, <1>7, <2>1, <3>1, <3>2 DEF Waits
    <3> QED BY <3>3, <3>4
  <2>2. CASE g = h
    <3>1. Posted(g)'
      <4>1. CASE call[t].op = "post"
        BY <1>2, <1>4, <1>6, <2>2, <4>1 DEF Posted
      <4>2. CASE call[t].op = "inspect"
        <5>1. status[h] \notin {"none", "draft"}
          BY <1>2, <4>2 DEF WaitInv, Existence
        <5>2. PICK w \in Tx : DonePost(w, h)
          BY <1>3, <5>1 DEF WaitInv, Posted
        <5> QED BY <1>2, <1>4, <1>6, <2>2, <5>2 DEF Posted
      <4> QED BY <1>2, <4>1, <4>2
    <3>2. ASSUME DoneOnce(h)' PROVE status'[h] = "pending_qc" <=> PendingIn(line', h)
      <4>1. CASE call[t].op = "inspect"
        BY <1>1, <1>3, <1>4, <1>7, <3>2, <4>1 DEF WaitInv, Decided
      <4>2. CASE call[t].op = "post"
        <5>1. DonePost(t, h)'
          BY <1>1, <1>6, <4>2
        <5>2. \A s \in DOMAIN line : line[s].receipt # h
          <6> SUFFICES ASSUME NEW s \in DOMAIN line, line[s].receipt = h PROVE FALSE
            OBVIOUS
          <6>1. PICK u \in Tx, i \in Nat : WrittenBy(s, u, i)
            BY DEF ReceiptInv, Origins
          <6>2. DonePost(u, h)
            BY <6>1 DEF WrittenBy, DonePost, Fixed, LineRow
          <6>3. u # t /\ DonePost(u, h)'
            BY <1>1, <1>6, <6>2
          <6> QED BY <3>2, <5>1, <6>3 DEF DoneOnce
        <5>3. PendingIn(line', h) <=> PendingIn(newLine[t], h)
          <6>1. /\ DOMAIN line' = (DOMAIN line) \cup DOMAIN newLine[t]
                /\ \A s \in DOMAIN newLine[t] : line'[s] = newLine[t][s]
                /\ \A s \in (DOMAIN line) \ DOMAIN newLine[t] : line'[s] = line[s]
            BY CommitLines
          <6> HIDE DEF h
          <6> QED BY <5>2, <6>1 DEF PendingIn
        <5> QED BY <1>1, <1>3, <1>4, <4>2, <5>3 DEF WaitInv, Decided
      <4> QED BY <1>2, <4>1, <4>2
    <3>3. h \in ready' => outcome[t] # "pending_qc"
      BY <1>1
    <3>4. DoneOnce(g)' => DoneOnce(h)'
      BY <1>1, <2>2
    <3>5. Waits(g)'
      BY <1>3, <1>4, <2>2, <3>2, <3>3, <3>4 DEF Waits
    <3> QED BY <3>1, <3>5
  <2> QED BY <2>1, <2>2
<1>12. OneInspection'
  <2>1. ~InFlight(t)'
    BY <1>1 DEF InFlight
  <2> QED BY <1>1, <1>5, <2>1 DEF WaitInv, OneInspection, Untouched
<1> QED BY <1>8, <1>9, <1>10, <1>11, <1>12 DEF WaitInv

LEMMA WaitStep == ReceiptInv /\ WaitInv /\ [GrnNext]_allVars => WaitInv'
<1> SUFFICES ASSUME ReceiptInv, WaitInv, [GrnNext]_allVars PROVE WaitInv'
  OBVIOUS
<1>1. ASSUME NEW t \in Tx, Start(t) \/ GrnProgress(t) \/ Crash(t) PROVE WaitInv'
  BY <1>1, WaitStart, WaitAtWork, WaitSave, WaitFinish DEF GrnProgress
<1>2. CASE UNCHANGED allVars
  <2>1. \A u \in Tx : Untouched(u)
    BY <1>2 DEF allVars, Untouched, InFlight
  <2>2. \A u \in Tx : \A g : DonePost(u, g)' <=> DonePost(u, g)
    BY <2>1 DEF DonePost, Untouched
  <2>3. \A g : DoneOnce(g)' => DoneOnce(g)
    BY <2>2 DEF DoneOnce
  <2>4. OneInspection'
    BY <2>1 DEF WaitInv, OneInspection, Untouched
  <2>5. \A u \in Tx : Existence(u)' /\ Decided(u)'
    BY <1>2, <2>1, <2>3, WaitOther DEF allVars
  <2> QED BY <1>2, <2>2, <2>4, <2>5, WaitQuiet DEF allVars
<1> QED BY <1>1, <1>2 DEF GrnNext

\* A receipt posted once waits for inspection exactly while one of its lines
\* does, and is handed to accounts only when none does, though inspections of
\* different lines overlap (grn.service.ts:876-902).
THEOREM WaitsWhilePending == GrnSpec => []WaitsForItsLines
<1>1. GrnInit => WaitInv
  <2> SUFFICES ASSUME GrnInit PROVE WaitInv
    OBVIOUS
  <2>1. \A t \in Tx : Existence(t) /\ Decided(t) /\ ~InFlight(t) /\ \A g : ~DonePost(t, g)
    BY DEF GrnInit, StockInit, Existence, Decided, DonePost, InFlight, Working
  <2>2. \A g \in Receipt : Posted(g) /\ Waits(g)
    BY <2>1 DEF GrnInit, Posted, Waits, PendingIn, Nothing
  <2> QED BY <2>1, <2>2 DEF WaitInv, OneInspection
<1>2. ReceiptInv /\ WaitInv => WaitsForItsLines
  <2> SUFFICES ASSUME ReceiptInv, WaitInv, NEW g \in Receipt, PostedOnce(g)
               PROVE  LET pending == \E s \in LinesOf(line, g) : line[s].qcStatus = "pending"
                      IN  /\ status[g] = "pending_qc" <=> pending
                          /\ g \in ready => ~pending
    BY DEF WaitsForItsLines
  <2>1. DoneOnce(g)
    BY DEF PostedOnce, Posting, DoneOnce, DonePost
  <2>2. PendingIn(line, g) <=> \E s \in LinesOf(line, g) : line[s].qcStatus = "pending"
    BY DEF PendingIn, LinesOf
  <2> QED BY <2>1, <2>2 DEF WaitInv, Waits
<1> QED BY <1>1, <1>2, WaitStep, ReceiptInvariance, PTL DEF GrnSpec
----------------------------------------------------------------------------
(* What a line's calls do to a batch's quality hold.                       *)

Hold(s) == StockOf(s, "quality_hold")

\* A call put in front of others adds what it does itself.
LEMMA DueCons ==
  ASSUME NEW op \in Op, NEW s \in Seq(Op), NEW k
  PROVE  /\ <<op>> \o s \in Seq(Op)
         /\ Due(s, k) \in Int
         /\ Due(<<op>> \o s, k) = (IF op.key = k THEN Signed(op) ELSE 0) + Due(s, k)
<1> DEFINE u == <<op>> \o s
<1>1. u \in Seq(Op) /\ u # <<>> /\ Head(u) = op /\ Tail(u) = s
  OBVIOUS
<1> HIDE DEF u
<1>2. Due(u, k) = (IF op.key = k THEN Signed(op) ELSE 0) + Due(s, k) /\ Due(s, k) \in Int
  BY <1>1, DueTail
<1> QED BY <1>1, <1>2 DEF u

LEMMA CallIs ==
  ASSUME NEW k \in Key, NEW q \in Int
  PROVE  /\ Add(k, q) \in Op /\ Add(k, q).key = k /\ Signed(Add(k, q)) = q
         /\ Deduct(k, q) \in Op /\ Deduct(k, q).key = k /\ Signed(Deduct(k, q)) = -q
BY DEF Op, Add, Deduct, Signed

LEMMA DueMoves ==
  ASSUME NEW j \in Key, NEW k \in Key, j # k, NEW q \in Nat, NEW s \in Seq(Op)
  PROVE  /\ Move(j, k, q) \in Seq(Op)
         /\ Due(Move(j, k, q) \o s, j) = Due(s, j) - q
         /\ \A l : l \notin {j, k} => Due(Move(j, k, q) \o s, l) = Due(s, l)
<1> DEFINE d == Deduct(j, q)
           a == Add(k, q)
           v == <<a>> \o s
<1>1. /\ d \in Op /\ a \in Op
      /\ d.key = j /\ a.key = k /\ Signed(d) = -q /\ Signed(a) = q
  BY CallIs
<1>2. Move(j, k, q) = <<d, a>>
  BY DEF Move
<1> HIDE DEF d, a
<1>3. <<d, a>> = <<d>> \o <<a>> /\ <<d>> \in Seq(Op) /\ <<a>> \in Seq(Op)
  <2>1. /\ <<d>> \in Seq(Op) /\ <<a>> \in Seq(Op) /\ <<d, a>> \in Seq(Op)
        /\ Len(<<d>>) = 1 /\ Len(<<a>>) = 1 /\ Len(<<d, a>>) = 2
    BY <1>1
  <2>2. /\ <<d>> \o <<a>> \in Seq(Op) /\ Len(<<d>> \o <<a>>) = 2
        /\ (<<d>> \o <<a>>)[1] = d /\ (<<d>> \o <<a>>)[2] = a
    BY <2>1, ConcatProperties
  <2>3. \A i \in 1..Len(<<d, a>>) : <<d, a>>[i] = (<<d>> \o <<a>>)[i]
    BY <2>1, <2>2
  <2>4. <<d, a>> = <<d>> \o <<a>>
    BY <2>1, <2>2, <2>3, SeqEqual
  <2> QED BY <2>1, <2>4
<1>4. Move(j, k, q) \o s = <<d>> \o v /\ Move(j, k, q) \in Seq(Op)
  BY <1>1, <1>2, <1>3, ConcatAssociative
<1>5. v \in Seq(Op) /\ \A l : /\ Due(s, l) \in Int
                              /\ Due(v, l) = (IF a.key = l THEN Signed(a) ELSE 0) + Due(s, l)
  BY <1>1, DueCons
<1> HIDE DEF v
<1>6. \A l : Due(<<d>> \o v, l) = (IF d.key = l THEN Signed(d) ELSE 0) + Due(v, l)
  BY <1>1, <1>5, DueCons
<1>7. Due(<<d>> \o v, j) = Due(s, j) - q
  <2>1. Due(<<d>> \o v, j) = -q + Due(v, j) /\ Due(v, j) = 0 + Due(s, j) /\ Due(s, j) \in Int
    BY <1>1, <1>5, <1>6
  <2> QED BY <2>1
<1>8. ASSUME NEW l, l \notin {j, k} PROVE Due(<<d>> \o v, l) = Due(s, l)
  <2>1. Due(<<d>> \o v, l) = 0 + Due(v, l) /\ Due(v, l) = 0 + Due(s, l) /\ Due(s, l) \in Int
    BY <1>1, <1>5, <1>6, <1>8
  <2> QED BY <2>1
<1> QED BY <1>4, <1>7, <1>8

LEMMA HoldKeys ==
  ASSUME NEW s \in Slot, NEW x \in Slot
  PROVE  /\ Hold(s) = Hold(x) => s = x
         /\ \A v \in {"available", "damaged", "rejected"} : StockOf(s, v) # Hold(x)
BY BatchConstants DEF Hold

\* A line puts into its hold what it keeps, if it is to be inspected.
LEMMA PutawayDue ==
  ASSUME NEW s \in Slot, NEW x \in Slot, NEW l, l.qty \in Nat, l.damage \in Nat, l.qc \in BOOLEAN
  PROVE  /\ Due(Putaway(s, l), Hold(x)) = IF x = s /\ l.qc THEN PutAway(l) ELSE 0
         /\ x # s => \A i \in DOMAIN Putaway(s, l) : Putaway(s, l)[i].key # Hold(x)
<1> DEFINE k == StockOf(s, IF l.qc THEN "quality_hold" ELSE "available")
           a == Add(k, l.qty - l.damage)
           b == Add(StockOf(s, "damaged"), l.damage)
           u == IF l.qty > l.damage THEN <<a>> ELSE <<>>
           v == IF l.damage > 0 THEN <<b>> ELSE <<>>
<1>1. Putaway(s, l) = u \o v
  BY DEF Putaway
<1>2. /\ a \in Op /\ a.key = k /\ Signed(a) = l.qty - l.damage
      /\ b \in Op /\ b.key = StockOf(s, "damaged")
  BY BatchConstants, CallIs
<1>3. b.key # Hold(x) /\ (k = Hold(x) <=> x = s /\ l.qc)
  BY <1>2, HoldKeys DEF Hold
<1> HIDE DEF a, b, k
<1>4. v \in Seq(Op) /\ Due(v, Hold(x)) = 0 /\ \A i \in DOMAIN v : v[i].key # Hold(x)
  <2>1. <<b>> \in Seq(Op) /\ <<b>>[1] = b /\ DOMAIN <<b>> = {1} /\ Due(<<b>>, Hold(x)) = 0
    BY <1>2, <1>3, DueOne
  <2>2. <<>> \in Seq(Op) /\ DOMAIN <<>> = {} /\ Due(<<>>, Hold(x)) = 0
    BY DueEmpty
  <2> QED BY <1>3, <2>1, <2>2
<1>5. CASE l.qty > l.damage
  <2> HIDE DEF v
  <2>1. u = <<a>> /\ PutAway(l) = l.qty - l.damage
    BY <1>5 DEF PutAway
  <2>2. Due(u \o v, Hold(x)) = (IF a.key = Hold(x) THEN Signed(a) ELSE 0) + Due(v, Hold(x))
    BY <1>2, <1>4, <2>1, DueCons
  <2>3. ASSUME x # s, NEW i \in DOMAIN (u \o v) PROVE (u \o v)[i].key # Hold(x)
    <3>1. (u \o v)[i] = a \/ \E j \in DOMAIN v : (u \o v)[i] = v[j]
      BY <1>2, <1>4, <2>1
    <3> QED BY <1>2, <1>3, <1>4, <2>3, <3>1
  <2> QED BY <1>1, <1>2, <1>3, <1>4, <2>1, <2>2, <2>3
<1>6. CASE ~(l.qty > l.damage)
  <2> HIDE DEF v
  <2>1. u \o v = v
    BY <1>4, <1>6
  <2> QED BY <1>1, <1>4, <1>6, <2>1 DEF PutAway
<1> QED BY <1>5, <1>6

\* A move that is made if there is anything to move.
MoveAny(j, k, q) == IF q > 0 THEN Move(j, k, q) ELSE <<>>

\* Put in front of s, the calls m take q from j, give it to k and leave the rest.
Takes(m, j, k, q, s) ==
  /\ m \in Seq(Op)
  /\ \A i \in DOMAIN m : m[i].key \in {j, k}
  /\ Due(m \o s, j) = Due(s, j) - q
  /\ \A l : l \notin {j, k} => Due(m \o s, l) = Due(s, l)

LEMMA MoveAnyDue ==
  ASSUME NEW j \in Key, NEW k \in Key, j # k, NEW q \in Nat, NEW s \in Seq(Op)
  PROVE  Takes(MoveAny(j, k, q), j, k, q, s)
<1>1. Due(s, j) \in Int
  BY CallIs, DueTail, DueEmpty, DueCons
<1>2. CASE q > 0
  <2>1. MoveAny(j, k, q) = Move(j, k, q)
    BY <1>2 DEF MoveAny
  <2>2. \A i \in DOMAIN Move(j, k, q) : Move(j, k, q)[i].key \in {j, k}
    BY DEF Move, Deduct, Add
  <2> QED BY <1>1, <2>1, <2>2, DueMoves DEF Takes
<1>3. CASE ~(q > 0)
  <2>1. MoveAny(j, k, q) = <<>> /\ <<>> \o s = s /\ q = 0
    BY <1>3, ConcatEmptySeq DEF MoveAny
  <2>2. <<>> \in Seq(Op) /\ DOMAIN <<>> = {}
    OBVIOUS
  <2> QED BY <1>1, <2>1, <2>2 DEF Takes
<1> QED BY <1>2, <1>3

\* A result takes from its line's hold what it accepts and what it rejects.
LEMMA ReleaseDue ==
  ASSUME NEW l, l.slot \in Slot, l.accepted \in Nat, l.rejected \in Nat, NEW x \in Slot
  PROVE  /\ Due(Release(l), Hold(x)) = IF x = l.slot THEN -(l.accepted + l.rejected) ELSE 0
         /\ x # l.slot => \A i \in DOMAIN Release(l) : Release(l)[i].key # Hold(x)
<1>1. PICK h \in Key, a \in Key, r \in Key, p \in Nat, q \in Nat :
        /\ h = Hold(l.slot) /\ a = StockOf(l.slot, "available") /\ r = StockOf(l.slot, "rejected")
        /\ p = l.accepted /\ q = l.rejected
  BY BatchConstants DEF Hold
<1>2. a # h /\ r # h /\ a # Hold(x) /\ r # Hold(x) /\ (h = Hold(x) <=> x = l.slot)
  BY <1>1, HoldKeys
<1> DEFINE m == MoveAny(h, a, p)
           n == MoveAny(h, r, q)
<1>3. Release(l) = m \o n
  BY <1>1 DEF Release, MoveAny, Hold
<1>4. <<>> \in Seq(Op) /\ \A k : Due(<<>>, k) = 0
  BY DueEmpty
<1>5. /\ n \in Seq(Op) /\ n \o <<>> = n
      /\ \A i \in DOMAIN n : n[i].key \in {h, r}
      /\ Due(n \o <<>>, h) = 0 - q
      /\ \A k : k \notin {h, r} => Due(n \o <<>>, k) = 0
  <2>1. Takes(n, h, r, q, <<>>)
    BY <1>2, <1>4, MoveAnyDue
  <2> HIDE DEF n
  <2> QED BY <1>4, <2>1, ConcatEmptySeq DEF Takes
<1> HIDE DEF n
<1>6. /\ m \in Seq(Op)
      /\ \A i \in DOMAIN m : m[i].key \in {h, a}
      /\ Due(m \o n, h) = Due(n, h) - p
      /\ \A k : k \notin {h, a} => Due(m \o n, k) = Due(n, k)
  <2>1. Takes(m, h, a, p, n)
    BY <1>2, <1>5, MoveAnyDue
  <2> HIDE DEF m
  <2> QED BY <2>1 DEF Takes
<1> HIDE DEF m
<1>7. Due(m \o n, Hold(x)) = IF x = l.slot THEN -(p + q) ELSE 0
  <2>1. CASE x = l.slot
    <3>1. Due(m \o n, h) = (0 - q) - p
      BY <1>5, <1>6
    <3> QED BY <1>2, <2>1, <3>1
  <2>2. CASE x # l.slot
    <3>1. Hold(x) \notin {h, r, a}
      BY <1>2, <2>2
    <3>2. Due(m \o n, Hold(x)) = Due(n, Hold(x)) /\ Due(n, Hold(x)) = 0
      BY <1>5, <1>6, <3>1
    <3> QED BY <2>2, <3>2
  <2> QED BY <2>1, <2>2
<1>8. ASSUME x # l.slot, NEW i \in DOMAIN (m \o n) PROVE (m \o n)[i].key # Hold(x)
  <2>1. m \in Seq(Op) /\ n \in Seq(Op)
    BY <1>5, <1>6
  <2>2. i \in 1..Len(m) + Len(n) /\ Len(m) \in Nat /\ Len(n) \in Nat
    BY <1>8, <2>1
  <2>3. CASE i <= Len(m)
    <3>1. i \in DOMAIN m /\ (m \o n)[i] = m[i]
      BY <2>1, <2>2, <2>3
    <3> QED BY <1>2, <1>6, <1>8, <3>1
  <2>4. CASE ~(i <= Len(m))
    <3>1. i - Len(m) \in DOMAIN n /\ (m \o n)[i] = n[i - Len(m)]
      BY <2>1, <2>2, <2>4
    <3> QED BY <1>2, <1>5, <1>8, <3>1
  <2> QED BY <2>3, <2>4
<1> QED BY <1>1, <1>3, <1>7, <1>8

\* What the first n results of an inspection take from a line's hold.
Amounts(ls) == [i \in DOMAIN ls |-> ls[i].accepted + ls[i].rejected]
Taken(ls, s, n) == SumOver(Amounts(ls), {i \in 1..n : ls[i].slot = s})

LEMMA TakenFacts ==
  ASSUME NEW ls \in Seq(Results), NEW s, NEW n \in Nat, n <= Len(ls)
  PROVE  /\ Taken(ls, s, n) \in Int
         /\ (\A i \in 1..n : ls[i].slot # s) => Taken(ls, s, n) = 0
         /\ n < Len(ls) => Taken(ls, s, n + 1) = Taken(ls, s, n)
              + (IF ls[n + 1].slot = s THEN ls[n + 1].accepted + ls[n + 1].rejected ELSE 0)
<1> DEFINE f == Amounts(ls)
           S == {i \in 1..n : ls[i].slot = s}
<1>1. DOMAIN ls = 1..Len(ls) /\ \A i \in DOMAIN ls : ls[i] \in Results
  OBVIOUS
<1>2. \A i \in DOMAIN ls : f[i] = ls[i].accepted + ls[i].rejected /\ f[i] \in Int
  BY <1>1 DEF Amounts, Results
<1>3. IsFiniteSet(S) /\ S \subseteq 1..n
  <2>1. S \subseteq 1..n
    OBVIOUS
  <2>2. IsFiniteSet(1..n)
    BY FS_Interval
  <2> QED BY <2>1, <2>2, FS_Subset
<1> HIDE DEF f
<1>4. SumOver(f, S) \in Int
  BY <1>1, <1>2, <1>3, SumInt
<1>5. (\A i \in 1..n : ls[i].slot # s) => SumOver(f, S) = 0
  <2>1. SumOver(f, {}) = 0
    BY SumEmpty
  <2> QED BY <2>1
<1>6. ASSUME n < Len(ls)
      PROVE  SumOver(f, {i \in 1..(n + 1) : ls[i].slot = s}) = SumOver(f, S)
               + (IF ls[n + 1].slot = s THEN ls[n + 1].accepted + ls[n + 1].rejected ELSE 0)
  <2>1. n + 1 \in DOMAIN ls /\ n + 1 \notin S
    BY <1>1, <1>6
  <2>2. CASE ls[n + 1].slot = s
    <3>1. {i \in 1..(n + 1) : ls[i].slot = s} = S \cup {n + 1}
      BY <2>2
    <3> HIDE DEF S
    <3>0. S \subseteq DOMAIN ls
      <4>1. \A i \in 1..n : i \in 1..Len(ls)
        BY <1>1, <1>6
      <4> QED BY <1>1, <1>3, <4>1
    <3>2. \A i \in S \cup {n + 1} : f[i] \in Int
      BY <1>2, <2>1, <3>0
    <3>3. SumOver(f, S \cup {n + 1}) = f[n + 1] + SumOver(f, S)
      BY <1>3, <2>1, <3>2, SumAdd
    <3>4. SumOver(f, {i \in 1..(n + 1) : ls[i].slot = s}) = f[n + 1] + SumOver(f, S)
      BY <3>1, <3>3
    <3>5. f[n + 1] = ls[n + 1].accepted + ls[n + 1].rejected /\ f[n + 1] \in Int
      BY <1>2, <2>1
    <3> QED BY <1>4, <2>2, <3>4, <3>5
  <2>3. CASE ls[n + 1].slot # s
    <3>1. {i \in 1..(n + 1) : ls[i].slot = s} = S
      BY <2>3
    <3>2. SumOver(f, {i \in 1..(n + 1) : ls[i].slot = s}) = SumOver(f, S)
      BY <3>1
    <3> HIDE DEF S
    <3> QED BY <1>4, <2>3, <3>2
  <2> QED BY <2>2, <2>3
<1> QED BY <1>4, <1>5, <1>6 DEF Taken, f

----------------------------------------------------------------------------
(* A quality hold has one owner at a time, who sees in it what was there    *)
(* and what it has put in or taken out so far.                              *)

\* A posting owns the holds of its lines, an inspection those of its receipt.
Owns(t, s) ==
  /\ InFlight(t)
  /\ IF call[t].op = "post" THEN \E i \in DOMAIN call[t].lines : s = SlotOf(t, i)
     ELSE s \in DOMAIN seenLine[t]

Turns == \A t, u \in Tx : t # u /\ InFlight(t) /\ InFlight(u) => call[t].op # call[u].op

\* It neither writes nor is about to write a hold that it does not own.
Confined(t) ==
  \A s \in Slot : ~Owns(t, s) =>
    /\ \A r \in dirty[t] : KeyOf[r] # Hold(s)
    /\ \A i \in DOMAIN todo[t] : todo[t][i].key # Hold(s)

\* The hold of a line that is not there yet is empty.
EmptyHolds == \A s \in Slot \ DOMAIN line : \A r \in live : KeyOf[r] # Hold(s)

\* The results an inspection has begun.
Handled(t) == IF at[t] = "moves" THEN pos[t] + 1 ELSE pos[t]

\* What a transaction's calls so far change in the hold of s.
Change(t, s) ==
  IF call[t].op = "post"
    THEN IF s \in DOMAIN newLine[t] /\ newLine[t][s].qcRequired THEN PutAway(newLine[t][s]) ELSE 0
    ELSE -Taken(call[t].lines, s, Handled(t))

Balanced(t, k, c) ==
  /\ UpToDate(t, k)
  /\ StockSeen(t, k) + Due(todo[t], k) = StockAt(k) + c

Agreed(t) == \A s \in Slot : Owns(t, s) => Balanced(t, Hold(s), Change(t, s))

\* An inspection has begun as many results as it has, all of lines it read.
Within(t) ==
  call[t].op = "inspect" /\ at[t] \in Working \cup {"done"} =>
    /\ Handled(t) <= Len(call[t].lines)
    /\ at[t] \in {"decided", "done"} => pos[t] = Len(call[t].lines)
    /\ \A i \in 1..Handled(t) : call[t].lines[i].slot \in DOMAIN seenLine[t]

HoldOK(t) == Confined(t) /\ Agreed(t) /\ Within(t)

HoldInv == Turns /\ EmptyHolds /\ (\A t \in Tx : HoldOK(t)) /\ HoldIsWhatIsLeft

\* What has been proved of receipts and of the engine under them.
Sound == ReceiptInv /\ StockInv /\ RowsInv /\ GrnTypeOK

LEMMA AlwaysSound == GrnSpec => []Sound
<1>1. IsFiniteSet(OpeningRow)
  BY BatchConstants
<1>2. GrnSpec => []RowsInv
  BY <1>1, ReceiptsUseEngine, RowsInvariance, PTL
<1> QED BY <1>2, ReceiptsUseEngine, ReceiptInvariance, Invariance, GrnTypeCorrect, PTL DEF Sound

\* A step leaves what another transaction does in the engine alone.
Still(u) ==
  /\ phase'[u] = phase[u] /\ todo'[u] = todo[u] /\ found'[u] = found[u]
  /\ read'[u] = read[u] /\ dirty'[u] = dirty[u] /\ val'[u] = val[u]

LEMMA OthersStill ==
  ASSUME Sound, NEW t \in Tx, Start(t) \/ GrnProgress(t) \/ Crash(t), NEW u \in Tx \ {t}
  PROVE  Still(u)
<1>1. [StockNext]_stockVars /\ StockTypeOK
  BY EngineStep DEF Sound, StockInv, GrnNext
<1> USE DEF Still, StockTypeOK
<1>2. CASE Start(t) \/ UpdateOrder(t) \/ SaveDraft(t) \/ EndReceiveLine(t) \/ EndInspectLine(t)
             \/ Decide(t)
  BY <1>2 DEF Start, UpdateOrder, SaveDraft, EndReceiveLine, EndInspectLine, Decide, stockVars
<1>3. CASE Open(t)
  BY <1>1, <1>3 DEF Open, Begin
<1>4. CASE ReceiveLine(t) \/ InspectLine(t)
  BY <1>1, <1>4 DEF ReceiveLine, InspectLine, CallWith
<1>5. CASE LineRefused(t) \/ CallFails(t) \/ Crash(t)
  <2>1. Rollback(t)
    BY <1>5 DEF LineRefused, CallFails, Refuse, UniqueViolation, BreakDeadlock, Crash, Abort
  <2> QED BY <1>1, <2>1 DEF Rollback
<1>6. CASE EngineCall(t)
  BY <1>1, <1>6 DEF EngineCall, Find, Write
<1>7. CASE Finish(t)
  BY <1>1, <1>7 DEF Finish, Commit
<1> QED BY <1>2, <1>3, <1>4, <1>5, <1>6, <1>7 DEF GrnProgress

\* Only a commit changes the rows there are.
LEMMA OnlyFinishInstalls ==
  ASSUME NEW t \in Tx, Start(t) \/ GrnProgress(t) \/ Crash(t), ~Finish(t)
  PROVE  live' = live /\ qty' = qty
<1> USE DEF tableVars
<1>1. CASE Start(t) \/ UpdateOrder(t) \/ SaveDraft(t) \/ EndReceiveLine(t) \/ EndInspectLine(t)
             \/ Decide(t)
  BY <1>1 DEF Start, UpdateOrder, SaveDraft, EndReceiveLine, EndInspectLine, Decide, stockVars
<1>2. CASE Open(t) \/ ReceiveLine(t) \/ InspectLine(t)
  BY <1>2 DEF Open, Begin, ReceiveLine, InspectLine, CallWith
<1>3. CASE LineRefused(t) \/ CallFails(t) \/ Crash(t)
  BY <1>3 DEF LineRefused, CallFails, Refuse, UniqueViolation, BreakDeadlock, Crash, Abort, Rollback
<1>4. CASE EngineCall(t)
  BY <1>4 DEF EngineCall, Find, Write
<1> QED BY <1>1, <1>2, <1>3, <1>4 DEF GrnProgress

\* Rows of key k are what they were.
SameRows(k) == \A r \in Row : KeyOf[r] = k => (r \in live' <=> r \in live) /\ qty'[r] = qty[r]

LEMMA BalanceKept ==
  ASSUME Sound, NEW u \in Tx, NEW k, NEW c, Still(u), SameRows(k), live' \subseteq Row
  PROVE  /\ StockSeen(u, k)' = StockSeen(u, k) /\ StockAt(k)' = StockAt(k)
         /\ Due(todo'[u], k) = Due(todo[u], k)
         /\ UpToDate(u, k) => UpToDate(u, k)'
<1>1. StockSeen(u, k)' = StockSeen(u, k) /\ StockAt(k)' = StockAt(k)
  BY SeenKept DEF Sound, StockInv, Still, SameRows
<1>2. Due(todo'[u], k) = Due(todo[u], k)
  BY DEF Still
<1>3. ASSUME phase[u] = "write", Head(todo[u]).key = k, read[u] = Have(u, found[u])
      PROVE  read'[u] = Have(u, found[u])'
  <2>1. found[u] # NoRow => found[u] \in Row /\ KeyOf[found[u]] = k
    BY <1>3 DEF Sound, RowsInv, Matches
  <2> QED BY <1>3, <2>1 DEF Have, ValueSeen, Still, SameRows
<1> QED BY <1>1, <1>2, <1>3 DEF UpToDate, Still

\* What a step leaves alone stays in order.
LEMMA HoldOther ==
  ASSUME Sound, NEW u \in Tx, HoldOK(u), Untouched(u), Still(u), live' \subseteq Row,
         \A s \in Slot : Owns(u, s) => SameRows(Hold(s))
  PROVE  HoldOK(u)'
<1>1. \A s : Owns(u, s)' <=> Owns(u, s)
  BY DEF Owns, Untouched
<1>2. Confined(u)'
  BY <1>1 DEF HoldOK, Confined, Still
<1>3. Within(u)'
  BY DEF HoldOK, Within, Handled, Untouched
<1>4. ASSUME NEW s \in Slot, Owns(u, s) PROVE Balanced(u, Hold(s), Change(u, s))'
  <2>1. Change(u, s)' = Change(u, s)
    BY DEF Change, Handled, Untouched
  <2>2. Balanced(u, Hold(s), Change(u, s))
    BY <1>4 DEF HoldOK, Agreed
  <2>3. /\ StockSeen(u, Hold(s))' = StockSeen(u, Hold(s)) /\ StockAt(Hold(s))' = StockAt(Hold(s))
        /\ Due(todo'[u], Hold(s)) = Due(todo[u], Hold(s))
        /\ UpToDate(u, Hold(s)) => UpToDate(u, Hold(s))'
    BY <1>4, BalanceKept
  <2> QED BY <2>1, <2>2, <2>3 DEF Balanced, Hold
<1> QED BY <1>1, <1>2, <1>3, <1>4 DEF HoldOK, Agreed

\* Inspections that are done take what they took.
DoneInspect(t) == at[t] = "done" /\ call[t].op = "inspect"
Outs(s) == [t \in Tx |-> Released(t, s)]

LEMMA HoldQuiet ==
  ASSUME HoldInv, line' = line, live' = live, qty' = qty,
         \A u \in Tx : /\ DoneInspect(u)' <=> DoneInspect(u)
                       /\ DoneInspect(u) => call'[u] = call[u]
  PROVE  EmptyHolds' /\ HoldIsWhatIsLeft'
<1>1. EmptyHolds'
  BY DEF HoldInv, EmptyHolds, Hold
<1>2. \A u \in Tx : \A s : Released(u, s)' = Released(u, s)
  BY DEF Released, DoneInspect
<1>3. \A s : Outs(s)' = Outs(s)
  BY <1>2 DEF Outs
<1>4. \A k : Units(k)' = Units(k)
  BY DEF Units
<1>5. HoldIsWhatIsLeft <=>
        \A s \in DOMAIN line : line[s].qcRequired =>
          Units(Hold(s)) + SumOver(Outs(s), Tx) = PutAway(line[s])
  BY DEF HoldIsWhatIsLeft, Hold, Outs
<1>6. HoldIsWhatIsLeft' <=>
        \A s \in DOMAIN line' : line'[s].qcRequired =>
          Units(Hold(s))' + SumOver(Outs(s)', Tx) = PutAway(line'[s])
  BY DEF HoldIsWhatIsLeft, Hold, Outs
<1>7. HoldIsWhatIsLeft'
  BY <1>3, <1>4, <1>5, <1>6 DEF HoldInv
<1> QED BY <1>1, <1>7

LEMMA TurnsKept ==
  ASSUME Turns, \A u \in Tx : InFlight(u)' => InFlight(u) /\ call'[u] = call[u]
  PROVE  Turns'
BY DEF Turns

\* A transaction at work, and its lines.
LEMMA AtWork ==
  ASSUME Sound, NEW t \in Tx, at[t] \in Working
  PROVE  /\ InFlight(t) /\ call[t] \in Call0[t] /\ call[t].op \in {"post", "inspect"}
         /\ pos[t] \in Nat /\ Len(call[t].lines) \in Nat
         /\ DOMAIN call[t].lines = 1..Len(call[t].lines)
         /\ call[t].op = "post" => call[t].lines \in Seq(ReceiptLine)
         /\ call[t].op = "inspect" => /\ call[t].lines \in Seq(Results)
                                      /\ DOMAIN seenLine[t] \subseteq DOMAIN line
                                      /\ DOMAIN newLine[t] \subseteq DOMAIN seenLine[t]
<1>1. /\ InFlight(t) /\ call[t] \in Call0[t] /\ call[t].op \in {"post", "inspect"}
      /\ pos[t] \in Nat
      /\ call[t].op = "inspect" => /\ DOMAIN seenLine[t] \subseteq DOMAIN line
                                   /\ DOMAIN newLine[t] \subseteq DOMAIN seenLine[t]
  BY DEF Sound, ReceiptInv, RequestOK, Request, ItsCall, ItsStage, ItsReceipt, ItsInspection, Working
<1>2. /\ call[t].op = "post" => call[t].lines \in Seq(ReceiptLine)
      /\ call[t].op = "inspect" => call[t].lines \in Seq(Results)
  BY <1>1, CallFacts
<1> QED BY <1>1, <1>2

\* A result takes something, and from a line's hold.
LEMMA ResultFacts ==
  ASSUME NEW ls \in Seq(Results), NEW i \in 1..Len(ls)
  PROVE  ls[i].slot \in Slot /\ ls[i].accepted \in Nat /\ ls[i].rejected \in Nat
<1>1. ls[i] \in Results
  OBVIOUS
<1> QED BY <1>1 DEF Results

LEMMA ChangeInt ==
  ASSUME Sound, NEW t \in Tx, at[t] \in Working, Within(t), NEW s
  PROVE  Change(t, s) \in Int
<1>1. CASE call[t].op = "inspect"
  <2>1. Handled(t) \in Nat /\ Handled(t) <= Len(call[t].lines) /\ call[t].lines \in Seq(Results)
    BY <1>1, AtWork DEF Within, Handled
  <2>2. Taken(call[t].lines, s, Handled(t)) \in Int
    BY <2>1, TakenFacts
  <2> QED BY <1>1, <2>2 DEF Change
<1>2. CASE call[t].op = "post"
  <2>1. ASSUME s \in DOMAIN newLine[t] PROVE PutAway(newLine[t][s]) \in Int
    <3>1. PICK i \in 1..Begun(t) : newLine[t][s] = LineRow(call[t], call[t].lines[i])
      BY <1>2, <2>1 DEF Sound, ReceiptInv, RequestOK, ItsReceipt, Working
    <3>2. i \in DOMAIN call[t].lines /\ call[t] \in Call0[t]
      BY <1>2, PostFacts DEF Sound
    <3>3. call[t].lines[i].qty \in Nat /\ call[t].lines[i].damage \in Nat
      BY <1>2, <3>2, LineFacts
    <3> QED BY <3>1, <3>3 DEF LineRow, PutAway
  <2> QED BY <1>2, <2>1 DEF Change
<1> QED BY <1>1, <1>2, AtWork

\* Out of its transaction a request owns nothing.
LEMMA HoldIdle ==
  ASSUME NEW t \in Tx, ~InFlight(t)', Within(t)',
         \/ dirty'[t] = {} /\ todo'[t] = <<>>
         \/ Confined(t) /\ ~InFlight(t) /\ dirty'[t] = dirty[t] /\ todo'[t] = todo[t]
  PROVE  HoldOK(t)'
BY DEF HoldOK, Confined, Agreed, Owns

LEMMA HoldStart ==
  ASSUME Sound, HoldInv, NEW t \in Tx, Start(t) \/ UpdateOrder(t) \/ SaveDraft(t)
  PROVE  HoldOK(t)' /\ ~InFlight(t)' /\ ~DoneInspect(t)' /\ ~DoneInspect(t)
<1>1. /\ at[t] \in {"idle", "checked"}
      /\ \/ at'[t] = "checked"
         \/ at'[t] = "done" /\ call' = call /\ call[t].op \in {"save", "cancel", "edit"}
      /\ UNCHANGED stockVars
  BY DEF Start, UpdateOrder, SaveDraft, Sound, ReceiptInv, Shape
<1>2. ~InFlight(t) /\ ~InFlight(t)'
  BY <1>1 DEF Sound, ReceiptInv, RequestOK, ItsStage, Working, InFlight, stockVars
<1>3. Within(t)'
  BY <1>1 DEF Within, Working
<1> QED BY <1>1, <1>2, <1>3, HoldIdle DEF HoldInv, HoldOK, stockVars, DoneInspect

LEMMA HoldRollback ==
  ASSUME Sound, HoldInv, NEW t \in Tx, LineRefused(t) \/ CallFails(t) \/ Crash(t)
  PROVE  HoldOK(t)' /\ ~InFlight(t)' /\ ~DoneInspect(t)' /\ ~DoneInspect(t)
<1>1. Rollback(t) /\ at'[t] = "failed" /\ InFlight(t)
  BY DEF LineRefused, AtLine, CallFails, Refuse, UniqueViolation, BreakDeadlock, Crash, Abort,
     Failed, InFlight, Deadlocked, Blockers, Sound, ReceiptInv, Shape
<1>2. dirty'[t] = {} /\ todo'[t] = <<>> /\ ~InFlight(t)'
  BY <1>1 DEF Rollback, InFlight, Sound, StockInv, StockTypeOK
<1>3. Within(t)'
  BY <1>1 DEF Within, Working
<1>4. ~DoneInspect(t)' /\ ~DoneInspect(t)
  BY <1>1 DEF DoneInspect, Sound, ReceiptInv, RequestOK, ItsStage, Working
<1> QED BY <1>2, <1>3, <1>4, HoldIdle

LEMMA HoldOpen ==
  ASSUME Sound, HoldInv, NEW t \in Tx, Open(t)
  PROVE  HoldOK(t)' /\ Turns'
<1>1. /\ at[t] = "checked" /\ call[t].op \in {"post", "inspect"} /\ NumberFree(t)
      /\ at' = [at EXCEPT ![t] = "line"] /\ phase' = [phase EXCEPT ![t] = "find"]
      /\ todo'[t] = <<>> /\ live' = live /\ qty' = qty /\ dirty' = dirty /\ val' = val
      /\ UNCHANGED <<rowVars, call, seen, seenLine, pos, newLine, newReceived, outcome>>
  BY DEF Open, Begin
<1>2. /\ at'[t] = "line" /\ phase'[t] = "find" /\ InFlight(t)' /\ ~InFlight(t)
      /\ pos[t] = 0 /\ newLine[t] = Nothing /\ call[t] \in Call0[t]
      /\ \A u \in Tx \ {t} : InFlight(u)' <=> InFlight(u)
  BY <1>1 DEF Sound, ReceiptInv, Shape, RequestOK, Request, ItsCall, ItsStage, InFlight, Working
<1>3. Turns'
  BY <1>1, <1>2 DEF HoldInv, Turns, NumberFree
<1>4. Confined(t)'
  BY <1>1, <1>2 DEF HoldInv, HoldOK, Confined, Owns
<1>5. Handled(t)' = 0
  BY <1>1, <1>2 DEF Handled
<1>6. call[t].op = "inspect" => call[t].lines \in Seq(Results)
  BY <1>2, CallFacts
<1>7. Within(t)'
  <2> SUFFICES ASSUME call[t].op = "inspect" PROVE Within(t)'
    BY <1>1 DEF Within
  <2>1. Len(call[t].lines) \in Nat
    BY <1>6
  <2> QED BY <1>1, <1>2, <1>5, <2>1 DEF Within
<1>8. ASSUME NEW s \in Slot PROVE Balanced(t, Hold(s), Change(t, s))'
  <2>1. Change(t, s)' = 0
    <3>1. CASE call[t].op = "post"
      BY <1>1, <1>2, <3>1 DEF Change, Nothing
    <3>2. CASE call[t].op = "inspect"
      <4>1. Taken(call[t].lines, s, 0) = 0
        BY <1>6, <3>2, TakenFacts
      <4>2. Change(t, s)' = -Taken(call[t].lines, s, 0)
        BY <1>1, <1>5, <3>2 DEF Change
      <4> QED BY <4>1, <4>2
    <3> QED BY <1>1, <3>1, <3>2
  <2>2. \A r \in dirty[t] : KeyOf[r] # Hold(s)
    BY <1>2 DEF HoldInv, HoldOK, Confined, Owns
  <2>3. StockSeen(t, Hold(s)) = StockAt(Hold(s)) /\ StockAt(Hold(s)) \in Int
    BY <2>2, SeenCommitted, SeenTypes DEF Sound, StockInv
  <2>4. StockSeen(t, Hold(s))' = StockSeen(t, Hold(s)) /\ StockAt(Hold(s))' = StockAt(Hold(s))
    BY <1>1, SeenKept DEF Sound, StockInv, StockTypeOK
  <2>5. Due(todo'[t], Hold(s)) = 0
    BY <1>1, DueEmpty
  <2>6. UpToDate(t, Hold(s))'
    BY <1>2 DEF UpToDate
  <2>7. StockSeen(t, Hold(s))' + Due(todo'[t], Hold(s)) = StockAt(Hold(s))' + Change(t, s)'
    BY <2>1, <2>3, <2>4, <2>5
  <2> QED BY <2>6, <2>7 DEF Balanced, Hold
<1> QED BY <1>3, <1>4, <1>7, <1>8 DEF HoldOK, Agreed

\* New calls, when the ones before are done, agree with what the line they are
\* for is to change.
LEMMA HoldCalls ==
  ASSUME Sound, HoldInv, NEW t \in Tx, at[t] \in Working, NEW z, CallWith(t, z),
         NEW s \in Slot, Owns(t, s), Change(t, s)' = Change(t, s) + Due(z, Hold(s)),
         Due(z, Hold(s)) \in Int
  PROVE  Balanced(t, Hold(s), Change(t, s))'
<1>1. /\ todo[t] = <<>> /\ todo'[t] = z /\ phase'[t] = "find"
      /\ live' = live /\ qty' = qty /\ dirty' = dirty /\ val' = val
  BY DEF CallWith, Sound, StockInv, StockTypeOK
<1>2. StockSeen(t, Hold(s)) + Due(<<>>, Hold(s)) = StockAt(Hold(s)) + Change(t, s)
  BY <1>1 DEF HoldInv, HoldOK, Agreed, Balanced
<1>3. StockSeen(t, Hold(s)) \in Int /\ StockAt(Hold(s)) \in Int /\ Change(t, s) \in Int
  BY SeenTypes, ChangeInt DEF Sound, StockInv, HoldInv, HoldOK
<1>4. StockSeen(t, Hold(s))' = StockSeen(t, Hold(s)) /\ StockAt(Hold(s))' = StockAt(Hold(s))
  BY <1>1, SeenKept DEF Sound, StockInv, StockTypeOK
<1>5. Due(<<>>, Hold(s)) = 0
  BY DueEmpty
<1>6. UpToDate(t, Hold(s))'
  BY <1>1 DEF UpToDate
<1>7. StockSeen(t, Hold(s))' + Due(todo'[t], Hold(s)) = StockAt(Hold(s))' + Change(t, s)'
  BY <1>1, <1>2, <1>3, <1>4, <1>5
<1> QED BY <1>6, <1>7 DEF Balanced, Hold

LEMMA HoldReceive ==
  ASSUME Sound, HoldInv, NEW t \in Tx, ReceiveLine(t)
  PROVE  HoldOK(t)'
<1> DEFINE l == Current(t)
           x == SlotOf(t, pos[t] + 1)
<1>1. /\ at[t] = "line" /\ call[t].op = "post" /\ pos[t] < Len(call[t].lines)
      /\ CallWith(t, Putaway(x, l))
      /\ newLine' = [newLine EXCEPT ![t] = SetAt(@, x, LineRow(call[t], l))]
      /\ at' = [at EXCEPT ![t] = "putaway"]
      /\ UNCHANGED <<rowVars, call, seen, seenLine, pos, newReceived, outcome>>
  BY DEF ReceiveLine, AtLine
<1>2. /\ at[t] \in Working /\ pos[t] + 1 \in DOMAIN call[t].lines
      /\ l.qty \in Nat /\ l.damage \in Nat /\ l.qc \in BOOLEAN
      /\ newLine'[t] = SetAt(newLine[t], x, LineRow(call[t], l))
  <2>1. at[t] \in Working
    BY <1>1 DEF Working
  <2> QED BY <1>1, <2>1, CurrentFacts DEF Sound, ReceiptInv, Shape
<1>3. x \in Slot /\ x \notin DOMAIN newLine[t]
  <2>1. DOMAIN newLine[t] = {SlotOf(t, i) : i \in 1..pos[t]} /\ pos[t] \in Nat
    BY <1>1, <1>2 DEF Sound, ReceiptInv, RequestOK, ItsReceipt, Begun, Working
  <2>2. \A i \in 1..pos[t] : i \in DOMAIN call[t].lines /\ i # pos[t] + 1
    BY <1>1, <1>2, <2>1, AtWork
  <2> QED BY <1>1, <1>2, <2>1, <2>2, OwnSlot DEF Sound
<1>4. \A s : Owns(t, s)' <=> Owns(t, s)
  BY <1>1 DEF Owns, InFlight, CallWith
<1>5. /\ \A s \in Slot : Due(Putaway(x, l), Hold(s)) = IF s = x /\ l.qc THEN PutAway(l) ELSE 0
      /\ \A s \in Slot : s # x => \A i \in DOMAIN Putaway(x, l) : Putaway(x, l)[i].key # Hold(s)
  <2> HIDE DEF l, x
  <2> QED BY <1>2, <1>3, PutawayDue
<1>6. Confined(t)'
  <2> SUFFICES ASSUME NEW s \in Slot, ~Owns(t, s)
               PROVE  /\ \A r \in dirty'[t] : KeyOf[r] # Hold(s)
                      /\ \A i \in DOMAIN todo'[t] : todo'[t][i].key # Hold(s)
    BY <1>4 DEF Confined, Hold
  <2>1. s # x
    <3>1. Owns(t, x)
      BY <1>1, <1>2, AtWork DEF Owns
    <3> QED BY <3>1
  <2>2. todo'[t] = Putaway(x, l) /\ dirty' = dirty
    BY <1>1 DEF CallWith, Sound, StockInv, StockTypeOK
  <2> QED BY <1>5, <2>1, <2>2 DEF HoldInv, HoldOK, Confined
<1>7. ASSUME NEW s \in Slot, Owns(t, s) PROVE Balanced(t, Hold(s), Change(t, s))'
  <2>1. PutAway(l) \in Int
    BY <1>2 DEF PutAway
  <2>2. Change(t, s)' = Change(t, s) + Due(Putaway(x, l), Hold(s))
    <3>1. PutAway(LineRow(call[t], l)) = PutAway(l) /\ LineRow(call[t], l).qcRequired = l.qc
      BY DEF PutAway, LineRow
    <3>2. CASE s = x
      <4>1. Change(t, s) = 0
        BY <1>1, <1>3, <3>2 DEF Change
      <4>2. s \in DOMAIN newLine'[t] /\ newLine'[t][s] = LineRow(call[t], l)
        BY <1>2, <3>2 DEF SetAt
      <4>3. Change(t, s)' = IF l.qc THEN PutAway(l) ELSE 0
        BY <1>1, <3>1, <4>2 DEF Change, PutAway
      <4> HIDE DEF l, x
      <4> QED BY <1>5, <2>1, <3>2, <4>1, <4>3
    <3>3. CASE s # x
      <4>1. Due(Putaway(x, l), Hold(s)) = 0
        BY <1>5, <3>3
      <4>2. Change(t, s)' = Change(t, s)
        <5>1. /\ s \in DOMAIN newLine'[t] <=> s \in DOMAIN newLine[t]
              /\ s \in DOMAIN newLine[t] => newLine'[t][s] = newLine[t][s]
          BY <1>2, <3>3 DEF SetAt
        <5> QED BY <1>1, <5>1 DEF Change, PutAway
      <4>3. Change(t, s) \in Int
        BY <1>2, ChangeInt DEF HoldInv, HoldOK
      <4> QED BY <4>1, <4>2, <4>3
    <3> QED BY <3>2, <3>3
  <2>3. Due(Putaway(x, l), Hold(s)) \in Int
    <3> HIDE DEF l, x
    <3> QED BY <1>5, <2>1
  <2> HIDE DEF l, x
  <2> QED BY <1>1, <1>2, <1>7, <2>2, <2>3, HoldCalls
<1>8. Within(t)'
  BY <1>1 DEF Within
<1> QED BY <1>4, <1>6, <1>7, <1>8 DEF HoldOK, Agreed

LEMMA HoldInspect ==
  ASSUME Sound, HoldInv, NEW t \in Tx, InspectLine(t)
  PROVE  HoldOK(t)'
<1> DEFINE l == Current(t)
<1>1. /\ at[t] = "line" /\ call[t].op = "inspect" /\ pos[t] < Len(call[t].lines)
      /\ l.slot \in DOMAIN seenLine[t] /\ CallWith(t, Release(l))
      /\ at' = [at EXCEPT ![t] = "moves"]
      /\ UNCHANGED <<rowVars, call, seen, seenLine, pos, newReceived, outcome>>
  BY DEF InspectLine, AtLine
<1>2. at[t] \in Working /\ at'[t] = "moves"
  BY <1>1 DEF Working, Sound, ReceiptInv, Shape
<1>3. /\ InFlight(t) /\ pos[t] \in Nat /\ call[t].lines \in Seq(Results)
      /\ pos[t] + 1 \in 1..Len(call[t].lines)
  BY <1>1, <1>2, AtWork
<1>4. l.slot \in Slot /\ l.accepted \in Nat /\ l.rejected \in Nat
  BY <1>3, ResultFacts DEF Current
<1>5. \A s : Owns(t, s)' <=> Owns(t, s)
  BY <1>1 DEF Owns, InFlight, CallWith
<1>6. /\ \A s \in Slot : Due(Release(l), Hold(s)) = IF s = l.slot THEN -(l.accepted + l.rejected) ELSE 0
      /\ \A s \in Slot : s # l.slot => \A i \in DOMAIN Release(l) : Release(l)[i].key # Hold(s)
  <2> HIDE DEF l
  <2> QED BY <1>4, ReleaseDue
<1>7. Confined(t)'
  <2> SUFFICES ASSUME NEW s \in Slot, ~Owns(t, s)
               PROVE  /\ \A r \in dirty'[t] : KeyOf[r] # Hold(s)
                      /\ \A i \in DOMAIN todo'[t] : todo'[t][i].key # Hold(s)
    BY <1>5 DEF Confined, Hold
  <2>1. s # l.slot
    BY <1>1, <1>3 DEF Owns
  <2>2. todo'[t] = Release(l) /\ dirty' = dirty
    BY <1>1 DEF CallWith, Sound, StockInv, StockTypeOK
  <2> QED BY <1>6, <2>1, <2>2 DEF HoldInv, HoldOK, Confined
<1>8. Handled(t) = pos[t] /\ Handled(t)' = pos[t] + 1
  BY <1>1, <1>2 DEF Handled
<1>9. ASSUME NEW s \in Slot, Owns(t, s) PROVE Balanced(t, Hold(s), Change(t, s))'
  <2> DEFINE ls == call[t].lines
             d == IF l.slot = s THEN l.accepted + l.rejected ELSE 0
  <2>1. d \in Int /\ Due(Release(l), Hold(s)) = -d
    BY <1>4, <1>6
  <2>2. Taken(ls, s, pos[t]) \in Int /\ Taken(ls, s, pos[t] + 1) = Taken(ls, s, pos[t]) + d
    <3>1. /\ ls \in Seq(Results) /\ pos[t] \in 0..Len(ls) /\ pos[t] < Len(ls)
          /\ ls[pos[t] + 1] = l
      BY <1>1, <1>3 DEF Current
    <3> HIDE DEF ls
    <3>2. d = IF ls[pos[t] + 1].slot = s THEN ls[pos[t] + 1].accepted + ls[pos[t] + 1].rejected ELSE 0
      BY <3>1
    <3> HIDE DEF d, l
    <3> QED BY <3>1, <3>2, TakenFacts
  <2>3. Change(t, s) = -Taken(ls, s, pos[t]) /\ Change(t, s)' = -Taken(ls, s, pos[t] + 1)
    BY <1>1, <1>8 DEF Change
  <2> HIDE DEF d, l, ls
  <2>4. Due(Release(l), Hold(s)) \in Int /\ Change(t, s)' = Change(t, s) + Due(Release(l), Hold(s))
    BY <2>1, <2>2, <2>3
  <2> QED BY <1>1, <1>2, <1>9, <2>4, HoldCalls
<1>10. Within(t)'
  <2>1. \A i \in 1..pos[t] : call[t].lines[i].slot \in DOMAIN seenLine[t]
    BY <1>1, <1>2, <1>8 DEF HoldInv, HoldOK, Within
  <2> QED BY <1>1, <1>2, <1>3, <1>8, <2>1 DEF Within, Current
<1> QED BY <1>5, <1>7, <1>9, <1>10 DEF HoldOK, Agreed

\* The end of a line, and the deciding of the statuses, leave the engine alone.
LEMMA HoldBetween ==
  ASSUME Sound, HoldInv, NEW t \in Tx, EndReceiveLine(t) \/ EndInspectLine(t) \/ Decide(t)
  PROVE  HoldOK(t)'
<1>1. /\ UNCHANGED stockVars /\ UNCHANGED <<rowVars, call, seenLine, newLine>>
      /\ at[t] \in {"putaway", "moves", "line"} /\ at[t] \in Working
      /\ at'[t] \in {"line", "decided"} /\ (at'[t] = "decided" => pos'[t] = Len(call[t].lines))
      /\ call[t].op = "inspect" => Handled(t)' = Handled(t)
  BY DEF EndReceiveLine, EndInspectLine, Decide, Working, Handled, Sound, ReceiptInv, Shape,
     RequestOK, ItsStage
<1>2. \A s : Owns(t, s)' <=> Owns(t, s)
  BY <1>1 DEF Owns, InFlight, stockVars
<1>3. Still(t) /\ live' = live /\ qty' = qty
  BY <1>1 DEF Still, stockVars
<1>4. Confined(t)'
  BY <1>2, <1>3 DEF HoldInv, HoldOK, Confined, Still
<1>5. Within(t)'
  BY <1>1 DEF HoldInv, HoldOK, Within, Working
<1>6. ASSUME NEW s \in Slot, Owns(t, s) PROVE Balanced(t, Hold(s), Change(t, s))'
  <2>1. Change(t, s)' = Change(t, s)
    BY <1>1, AtWork DEF Change
  <2>2. SameRows(Hold(s)) /\ live' \subseteq Row
    BY <1>3 DEF SameRows, Sound, StockInv, StockTypeOK
  <2>3. Balanced(t, Hold(s), Change(t, s))
    BY <1>6 DEF HoldInv, HoldOK, Agreed
  <2>4. /\ StockSeen(t, Hold(s))' = StockSeen(t, Hold(s)) /\ StockAt(Hold(s))' = StockAt(Hold(s))
        /\ Due(todo'[t], Hold(s)) = Due(todo[t], Hold(s))
        /\ UpToDate(t, Hold(s)) => UpToDate(t, Hold(s))'
    BY <1>3, <2>2, BalanceKept
  <2> QED BY <2>1, <2>3, <2>4 DEF Balanced, Hold
<1> QED BY <1>2, <1>4, <1>5, <1>6 DEF HoldOK, Agreed

LEMMA HoldEngine ==
  ASSUME Sound, HoldInv, NEW t \in Tx, EngineCall(t)
  PROVE  HoldOK(t)'
<1>1. Find(t) \/ Write(t)
  BY DEF EngineCall
<1>2. UNCHANGED grnVars /\ InFlight(t) /\ InFlight(t)'
  BY <1>1 DEF EngineCall, Find, Write, InFlight, Sound, StockInv, StockTypeOK
<1>3. \A s : (Owns(t, s)' <=> Owns(t, s)) /\ Change(t, s)' = Change(t, s)
  BY <1>2 DEF Owns, Change, Handled, grnVars
<1>4. Within(t)'
  BY <1>2 DEF HoldInv, HoldOK, Within, Handled, grnVars
<1>5. todo[t] # <<>> /\ todo[t] \in Seq(Op)
  BY <1>1 DEF Find, Write, Sound, StockInv, PendingCall, StockTypeOK
<1>6. CASE Find(t)
  <2>1. PICK r : /\ found' = [found EXCEPT ![t] = r] /\ read' = [read EXCEPT ![t] = Have(t, r)]
                 /\ r \in FindFirst(t, Head(todo[t]).key)
    BY <1>6 DEF Find
  <2>2. /\ live' = live /\ qty' = qty /\ todo' = todo /\ dirty' = dirty /\ val' = val
        /\ found'[t] = r /\ read'[t] = Have(t, r)
    BY <1>6, <2>1 DEF Find, Sound, StockInv, StockTypeOK
  <2>3. \A k : UpToDate(t, k)'
    BY <2>2 DEF UpToDate, Have, ValueSeen
  <2>4. Confined(t)'
    BY <1>3, <2>2 DEF HoldInv, HoldOK, Confined
  <2>5. ASSUME NEW s \in Slot, Owns(t, s) PROVE Balanced(t, Hold(s), Change(t, s))'
    <3>1. StockSeen(t, Hold(s))' = StockSeen(t, Hold(s)) /\ StockAt(Hold(s))' = StockAt(Hold(s))
      BY <2>2, SeenKept DEF Sound, StockInv, StockTypeOK
    <3>2. Balanced(t, Hold(s), Change(t, s))
      BY <2>5 DEF HoldInv, HoldOK, Agreed
    <3> QED BY <1>3, <2>2, <2>3, <3>1, <3>2 DEF Balanced, Hold
  <2> QED BY <1>3, <1>4, <2>4, <2>5 DEF HoldOK, Agreed
<1>7. CASE Write(t)
  <2> DEFINE op == Head(todo[t])
  <2>1. /\ todo'[t] = Tail(todo[t]) /\ phase'[t] = "find" /\ phase[t] = "write"
        /\ \E r \in Target(t) : dirty' = [dirty EXCEPT ![t] = @ \cup {r}]
    BY <1>7 DEF Write, Sound, StockInv, StockTypeOK
  <2>2. PICK r \in Target(t) : dirty'[t] = dirty[t] \cup {r}
    BY <2>1 DEF Sound, StockInv, StockTypeOK
  <2>3. KeyOf[r] = op.key
    BY <2>1 DEF Target, Sound, RowsInv, Matches
  <2>4. op = todo[t][1] /\ 1 \in DOMAIN todo[t]
        /\ \A i \in DOMAIN Tail(todo[t]) : i + 1 \in DOMAIN todo[t] /\ Tail(todo[t])[i] = todo[t][i + 1]
    BY <1>5
  <2>5. Confined(t)'
    <3> SUFFICES ASSUME NEW s \in Slot, ~Owns(t, s)
                 PROVE  /\ \A x \in dirty'[t] : KeyOf[x] # Hold(s)
                        /\ \A i \in DOMAIN todo'[t] : todo'[t][i].key # Hold(s)
      BY <1>3 DEF Confined, Hold
    <3>1. /\ \A x \in dirty[t] : KeyOf[x] # Hold(s)
          /\ \A i \in DOMAIN todo[t] : todo[t][i].key # Hold(s)
      BY DEF HoldInv, HoldOK, Confined
    <3> QED BY <2>1, <2>2, <2>3, <2>4, <3>1
  <2>6. ASSUME NEW s \in Slot, Owns(t, s) PROVE Balanced(t, Hold(s), Change(t, s))'
    <3>1. UpToDate(t, Hold(s)) /\ StockSeen(t, Hold(s)) + Due(todo[t], Hold(s)) = StockAt(Hold(s)) + Change(t, s)
      BY <2>6 DEF HoldInv, HoldOK, Agreed, Balanced
    <3> DEFINE d == IF op.key = Hold(s) THEN Signed(op) ELSE 0
    <3>2. StockSeen(t, Hold(s))' = StockSeen(t, Hold(s)) + d /\ StockAt(Hold(s))' = StockAt(Hold(s))
      BY <1>7, <3>1, SeenWritten DEF Sound, StockInv
    <3>3. /\ Due(todo[t], Hold(s)) \in Int /\ Due(Tail(todo[t]), Hold(s)) \in Int
          /\ Due(todo[t], Hold(s)) = d + Due(Tail(todo[t]), Hold(s))
      BY <1>5, DueTail
    <3>4. d \in Int /\ StockSeen(t, Hold(s)) \in Int
      <4>1. Signed(op) \in Int
        BY <1>5, OpFacts
      <4>2. StockSeen(t, Hold(s)) \in Int
        BY SeenTypes DEF Sound, StockInv
      <4> QED BY <4>1, <4>2
    <3> HIDE DEF d
    <3>5. StockSeen(t, Hold(s))' + Due(todo'[t], Hold(s)) = StockAt(Hold(s))' + Change(t, s)'
      BY <1>3, <2>1, <3>1, <3>2, <3>3, <3>4
    <3>6. UpToDate(t, Hold(s))'
      BY <2>1 DEF UpToDate
    <3> QED BY <3>5, <3>6 DEF Balanced, Hold
  <2> QED BY <1>3, <1>4, <2>5, <2>6 DEF HoldOK, Agreed
<1> QED BY <1>1, <1>6, <1>7

----------------------------------------------------------------------------
(* A commit hands the hold back: what its transaction saw is what is there. *)

\* No two transactions own one hold.
LEMMA OneOwner ==
  ASSUME Sound, HoldInv, NEW t \in Tx, NEW u \in Tx, t # u, NEW s, Owns(t, s), Owns(u, s)
  PROVE  FALSE
<1>1. /\ InFlight(t) /\ InFlight(u) /\ at[t] \in Working /\ at[u] \in Working
      /\ call[t].op # call[u].op
      /\ call[t].op \in {"post", "inspect"} /\ call[u].op \in {"post", "inspect"}
  BY DEF Owns, HoldInv, Turns, Sound, ReceiptInv, RequestOK, ItsStage
<1>2. ASSUME NEW x \in Tx, NEW y \in Tx, call[x].op = "post", call[y].op = "inspect",
             at[x] \in Working, at[y] \in Working, Owns(x, s), Owns(y, s)
      PROVE  FALSE
  <2>1. s \notin DOMAIN line
    BY <1>2, OwnSlot DEF Owns, Sound
  <2>2. s \in DOMAIN line
    BY <1>2, AtWork DEF Owns
  <2> QED BY <2>1, <2>2
<1> QED BY <1>1, <1>2

LEMMA FinishFacts ==
  ASSUME Sound, HoldInv, NEW t \in Tx, Finish(t)
  PROVE  /\ at[t] = "decided" /\ at[t] \in Working /\ at'[t] = "done"
         /\ call' = call /\ pos' = pos /\ seenLine' = seenLine
         /\ todo[t] = <<>> /\ Commit(t) /\ ~InFlight(t)' /\ dirty'[t] = {} /\ todo'[t] = <<>>
         /\ pos[t] = Len(call[t].lines)
         /\ live' = live \cup dirty[t] /\ live' \subseteq Row
         /\ qty' = [r \in Row |-> IF r \in dirty[t] THEN val[t][r] ELSE qty[r]]
<1>1. /\ at[t] = "decided" /\ at[t] \in Working /\ at'[t] = "done"
      /\ call' = call /\ pos' = pos /\ seenLine' = seenLine /\ Commit(t)
  BY DEF Finish, Working, Sound, ReceiptInv, Shape
<1>2. /\ todo[t] = <<>> /\ ~InFlight(t)' /\ dirty'[t] = {} /\ todo'[t] = <<>>
      /\ live' = live \cup dirty[t] /\ live' \subseteq Row
      /\ qty' = [r \in Row |-> IF r \in dirty[t] THEN val[t][r] ELSE qty[r]]
  BY <1>1 DEF Commit, InFlight, Sound, StockInv, StockTypeOK
<1>3. pos[t] = Len(call[t].lines)
  BY <1>1, AtWork DEF HoldInv, HoldOK, Within, Sound, ReceiptInv, RequestOK, ItsReceipt
<1> QED BY <1>1, <1>2, <1>3

\* A hold that its transaction does not own, a commit leaves alone.
LEMMA FinishElsewhere ==
  ASSUME Sound, HoldInv, NEW t \in Tx, Finish(t), NEW s \in Slot, ~Owns(t, s)
  PROVE  SameRows(Hold(s)) /\ StockAt(Hold(s))' = StockAt(Hold(s))
<1>1. \A r \in dirty[t] : KeyOf[r] # Hold(s)
  BY DEF HoldInv, HoldOK, Confined
<1>2. SameRows(Hold(s))
  BY <1>1, FinishFacts DEF SameRows, Sound, StockInv, StockTypeOK
<1>3. StockAt(Hold(s))' = StockAt(Hold(s))
  <2>1. \A r \in Row : KeyOf[r] = Hold(s) => r \notin dirty[t] /\ r \notin dirty'[t]
    BY <1>1, FinishFacts
  <2> QED BY <1>2, <2>1, FinishFacts, SeenKept DEF SameRows, Sound, StockInv
<1> QED BY <1>2, <1>3

LEMMA FinishOthers ==
  ASSUME Sound, HoldInv, NEW t \in Tx, Finish(t), NEW u \in Tx
  PROVE  HoldOK(u)'
<1>1. CASE u = t
  <2>1. Within(t)'
    BY FinishFacts DEF HoldInv, HoldOK, Within, Handled
  <2> QED BY <1>1, <2>1, FinishFacts, HoldIdle
<1>2. CASE u # t
  <2>1. Untouched(u) /\ Still(u)
    BY <1>2, OthersUntouched, OthersStill DEF GrnProgress, Sound
  <2>2. \A s \in Slot : Owns(u, s) => SameRows(Hold(s))
    BY <1>2, OneOwner, FinishElsewhere
  <2> QED BY <2>1, <2>2, FinishFacts, HoldOther DEF HoldInv
<1> QED BY <1>1, <1>2

LEMMA FinishTurns ==
  ASSUME Sound, HoldInv, NEW t \in Tx, Finish(t)
  PROVE  Turns'
<1>1. \A u \in Tx : InFlight(u)' => InFlight(u) /\ call'[u] = call[u]
  BY FinishFacts, OthersUntouched DEF Untouched, GrnProgress, Sound
<1> QED BY <1>1, TurnsKept DEF HoldInv

LEMMA FinishEmpty ==
  ASSUME Sound, HoldInv, NEW t \in Tx, Finish(t)
  PROVE  EmptyHolds'
<1> SUFFICES ASSUME NEW s \in Slot, s \notin DOMAIN line', NEW r \in live', KeyOf[r] = Hold(s)
             PROVE  FALSE
  BY DEF EmptyHolds, Hold
<1>1. s \notin DOMAIN line /\ s \notin DOMAIN newLine[t]
  BY CommitLines DEF Sound
<1>2. r \in dirty[t]
  BY <1>1, FinishFacts DEF HoldInv, EmptyHolds
<1>3. Owns(t, s)
  BY <1>2 DEF HoldInv, HoldOK, Confined
<1>4. call[t].op = "post"
  BY <1>1, <1>3, FinishFacts, AtWork DEF Owns
<1>5. DOMAIN newLine[t] = {SlotOf(t, i) : i \in DOMAIN call[t].lines}
  BY <1>4, FinishFacts, AtWork DEF Sound, ReceiptInv, RequestOK, ItsReceipt, Begun
<1> QED BY <1>1, <1>3, <1>4, <1>5 DEF Owns

\* What a done inspection took is what its results say, and nothing of a line
\* that it had not read.
LEMMA ReleasedFacts ==
  ASSUME NEW u \in Tx, DoneInspect(u) => call[u].lines \in Seq(Results), NEW s
  PROVE  /\ Released(u, s) \in Int
         /\ ~DoneInspect(u) => Released(u, s) = 0
         /\ DoneInspect(u) => Released(u, s) = Taken(call[u].lines, s, Len(call[u].lines))
<1>1. CASE DoneInspect(u)
  <2> DEFINE ls == call[u].lines
  <2>1. Released(u, s) = SumOver(Amounts(ls), {i \in DOMAIN ls : ls[i].slot = s})
    BY <1>1 DEF Released, DoneInspect, Amounts
  <2>2. DOMAIN ls = 1..Len(ls) /\ Len(ls) \in Nat
    BY <1>1
  <2>3. Released(u, s) = Taken(ls, s, Len(ls))
    BY <2>1, <2>2 DEF Taken
  <2>4. Taken(ls, s, Len(ls)) \in Int
    BY <1>1, <2>2, TakenFacts
  <2> QED BY <1>1, <2>3, <2>4
<1>2. CASE ~DoneInspect(u)
  BY <1>2 DEF Released, DoneInspect
<1> QED BY <1>1, <1>2

LEMMA NothingTaken ==
  ASSUME Sound, HoldInv, NEW u \in Tx, NEW s, s \notin DOMAIN seenLine[u], DoneInspect(u)
  PROVE  Released(u, s) = 0
<1>1. /\ Handled(u) = Len(call[u].lines)
      /\ \A i \in 1..Handled(u) : call[u].lines[i].slot \in DOMAIN seenLine[u]
  BY DEF DoneInspect, HoldInv, HoldOK, Within, Handled
<1>2. call[u].lines \in Seq(Results)
  BY CallFacts DEF DoneInspect, Sound, ReceiptInv, RequestOK, Request, ItsCall
<1>3. Taken(call[u].lines, s, Len(call[u].lines)) = 0
  <2>1. Len(call[u].lines) \in Nat
    BY <1>2
  <2> QED BY <1>1, <1>2, <2>1, TakenFacts
<1> QED BY <1>2, <1>3, ReleasedFacts

\* What a commit adds to what inspections took.
LEMMA FinishOuts ==
  ASSUME Sound, HoldInv, NEW t \in Tx, Finish(t), NEW s
  PROVE  /\ \A u \in Tx : Outs(s)[u] \in Int /\ Outs(s)'[u] \in Int
         /\ \A u \in Tx \ {t} : Outs(s)'[u] = Outs(s)[u]
         /\ Outs(s)[t] = 0
         /\ Outs(s)'[t] = IF call[t].op = "inspect"
                            THEN Taken(call[t].lines, s, Len(call[t].lines)) ELSE 0
         /\ call[t].op = "inspect" => Taken(call[t].lines, s, Len(call[t].lines)) \in Int
<1>1. \A u \in Tx : Outs(s)[u] = Released(u, s) /\ Outs(s)'[u] = Released(u, s)'
  BY DEF Outs
<1>2. \A u \in Tx : DoneInspect(u) => call[u].lines \in Seq(Results)
  BY CallFacts DEF DoneInspect, Sound, ReceiptInv, RequestOK, Request, ItsCall
<1>3. \A u \in Tx : Released(u, s) \in Int
  BY <1>2, ReleasedFacts
<1>4. ASSUME NEW u \in Tx \ {t} PROVE Released(u, s)' = Released(u, s)
  <2>1. ReceiptInv /\ GrnProgress(t)
    BY DEF Sound, GrnProgress
  <2>2. Untouched(u)
    BY <2>1, OthersUntouched
  <2>3. at'[u] = at[u] /\ call'[u] = call[u]
    BY <2>2 DEF Untouched
  <2> QED BY <2>3 DEF Released
<1>5. Released(t, s) = 0
  <2>1. at[t] # "done"
    BY FinishFacts
  <2> QED BY <2>1 DEF Released
<1>6. CASE call[t].op = "inspect"
  <2> DEFINE ls == call[t].lines
  <2>1. ls \in Seq(Results)
    BY <1>6, FinishFacts, AtWork
  <2>2. Released(t, s)' = SumOver(Amounts(ls), {i \in DOMAIN ls : ls[i].slot = s})
    <3>1. at'[t] = "done" /\ call' = call
      BY FinishFacts
    <3> QED BY <1>6, <3>1 DEF Released, Amounts
  <2>3. DOMAIN ls = 1..Len(ls) /\ Len(ls) \in Nat
    BY <2>1
  <2>4. Released(t, s)' = Taken(ls, s, Len(ls))
    BY <2>2, <2>3 DEF Taken
  <2>5. Taken(ls, s, Len(ls)) \in Int
    BY <2>1, <2>3, TakenFacts
  <2> QED BY <1>1, <1>3, <1>4, <1>5, <1>6, <2>4, <2>5
<1>7. CASE call[t].op # "inspect"
  <2>1. Released(t, s)' = 0
    BY <1>7, FinishFacts DEF Released
  <2> QED BY <1>1, <1>3, <1>4, <1>5, <1>7, <2>1
<1> QED BY <1>6, <1>7

LEMMA FinishHold ==
  ASSUME Sound, Sound', HoldInv, NEW t \in Tx, Finish(t)
  PROVE  HoldIsWhatIsLeft'
<1> SUFFICES ASSUME NEW s \in DOMAIN line', line'[s].qcRequired,
                    NEW f, NEW g, f = Outs(s), g = Outs(s)'
             PROVE  StockAt(Hold(s))' + SumOver(g, Tx) = PutAway(line'[s])
  BY DEF HoldIsWhatIsLeft, Hold, Outs, Units, StockAt
<1> DEFINE n == Taken(call[t].lines, s, Len(call[t].lines))
<1>1. s \in Slot /\ IsFiniteSet(Tx)
  BY BatchConstants DEF Sound, GrnTypeOK
<1>2. /\ \A u \in Tx : f[u] \in Int /\ g[u] \in Int
      /\ \A u \in Tx \ {t} : g[u] = f[u]
      /\ f[t] = 0 /\ g[t] = IF call[t].op = "inspect" THEN n ELSE 0
      /\ call[t].op = "inspect" => n \in Int
  BY FinishOuts
<1>3. /\ StockAt(Hold(s)) \in Int /\ StockSeen(t, Hold(s)) \in Int
  BY SeenTypes DEF Sound, StockInv
<1>4. s \in DOMAIN line =>
        /\ StockAt(Hold(s)) + SumOver(f, Tx) = PutAway(line[s])
        /\ PutAway(line'[s]) = PutAway(line[s])
  <2> SUFFICES ASSUME s \in DOMAIN line
               PROVE  /\ StockAt(Hold(s)) + SumOver(f, Tx) = PutAway(line[s])
                      /\ PutAway(line'[s]) = PutAway(line[s])
    OBVIOUS
  <2>1. Fixed(line'[s]) = Fixed(line[s])
    BY CommitLines DEF Sound, LinesKept
  <2>2. /\ line'[s].qcRequired = line[s].qcRequired
        /\ line'[s].qty = line[s].qty /\ line'[s].damage = line[s].damage
    BY <2>1 DEF Fixed
  <2> QED BY <2>2 DEF HoldInv, HoldIsWhatIsLeft, Hold, Outs, Units, StockAt, PutAway
<1>5. Owns(t, s) => /\ StockAt(Hold(s))' = StockSeen(t, Hold(s))
                    /\ StockAt(Hold(s))' = StockAt(Hold(s)) + Change(t, s)
  <2> SUFFICES ASSUME Owns(t, s)
               PROVE  /\ StockAt(Hold(s))' = StockSeen(t, Hold(s))
                      /\ StockAt(Hold(s))' = StockAt(Hold(s)) + Change(t, s)
    OBVIOUS
  <2>1. StockAt(Hold(s))' = StockSeen(t, Hold(s))
    BY FinishFacts, SeenInstalled DEF Sound, StockInv
  <2>2. StockSeen(t, Hold(s)) + Due(<<>>, Hold(s)) = StockAt(Hold(s)) + Change(t, s)
    BY <1>1, FinishFacts DEF HoldInv, HoldOK, Agreed, Balanced
  <2>3. Due(<<>>, Hold(s)) = 0
    BY DueEmpty
  <2> QED BY <1>3, <2>1, <2>2, <2>3
<1>6. SumOver(f, Tx) \in Int
  BY <1>1, <1>2, SumInt
<1>7. SumOver(g, Tx) = SumOver(f, Tx) + g[t]
  <2>1. IsFiniteSet(Tx) /\ \A u \in Tx : f[u] \in Int /\ g[u] \in Int
    BY <1>1, <1>2
  <2>2. \A u \in Tx \ {t} : f[u] = g[u]
    BY <1>2
  <2>3. SumOver(g, Tx) = SumOver(f, Tx) - f[t] + g[t]
    BY <2>1, <2>2, SumChange
  <2>4. f[t] = 0 /\ g[t] \in Int
    BY <1>2, <2>1
  <2> QED BY <1>6, <2>3, <2>4
<1>8. /\ at[t] = "decided" /\ at[t] \in Working /\ call[t].op \in {"post", "inspect"}
      /\ pos[t] = Len(call[t].lines)
      /\ call[t].op = "inspect" =>
           /\ DOMAIN seenLine[t] \subseteq DOMAIN line
           /\ DOMAIN newLine[t] \subseteq DOMAIN seenLine[t]
  BY FinishFacts, AtWork
<1>9. CASE ~Owns(t, s)
  <2>1. s \in DOMAIN line
    <3>1. CASE s \in DOMAIN newLine[t]
      <4>1. call[t].op # "post"
        <5>1. call[t].op = "post" => DOMAIN newLine[t] = {SlotOf(t, i) : i \in DOMAIN call[t].lines}
          BY <1>8, AtWork DEF Sound, ReceiptInv, RequestOK, ItsReceipt, Begun
        <5> QED BY <1>8, <1>9, <3>1, <5>1, AtWork DEF Owns
      <4> QED BY <1>8, <3>1, <4>1
    <3>2. CASE s \notin DOMAIN newLine[t]
      BY <3>2, CommitLines DEF Sound
    <3> QED BY <3>1, <3>2
  <2>2. g[t] = 0
    <3>1. ASSUME call[t].op = "inspect" PROVE n = 0
      <4>1. s \notin DOMAIN seenLine[t] /\ call[t].lines \in Seq(Results) /\ Len(call[t].lines) \in Nat
        BY <1>8, <1>9, <3>1, AtWork DEF Owns
      <4>2. \A i \in 1..Len(call[t].lines) : call[t].lines[i].slot # s
        BY <1>8, <3>1, <4>1 DEF HoldInv, HoldOK, Within, Handled
      <4> QED BY <4>1, <4>2, TakenFacts
    <3> QED BY <1>2, <3>1
  <2>3. StockAt(Hold(s))' = StockAt(Hold(s))
    BY <1>1, <1>9, FinishElsewhere
  <2> HIDE DEF n
  <2> QED BY <1>3, <1>4, <1>6, <1>7, <2>1, <2>2, <2>3
<1>10. CASE Owns(t, s) /\ call[t].op = "inspect"
  <2>1. s \in DOMAIN line
    BY <1>8, <1>10 DEF Owns
  <2>2. Change(t, s) = -n
    BY <1>8, <1>10 DEF Change, Handled
  <2> HIDE DEF n
  <2> QED BY <1>2, <1>3, <1>4, <1>5, <1>6, <1>7, <1>10, <2>1, <2>2
<1>11. CASE Owns(t, s) /\ call[t].op = "post"
  <2>1. /\ s \notin DOMAIN line /\ s \in DOMAIN newLine[t]
    <3>1. DOMAIN newLine[t] = {SlotOf(t, i) : i \in DOMAIN call[t].lines}
      BY <1>8, <1>11, AtWork DEF Sound, ReceiptInv, RequestOK, ItsReceipt, Begun
    <3> QED BY <1>8, <1>11, <3>1, OwnSlot DEF Owns, Sound
  <2>2. line'[s] = newLine[t][s]
    BY <2>1, CommitLines DEF Sound
  <2>3. Change(t, s) = PutAway(line'[s])
    BY <1>11, <2>1, <2>2 DEF Change
  <2>4. StockAt(Hold(s)) = 0
    <3>1. {r \in live : KeyOf[r] = Hold(s)} = {}
      BY <1>1, <2>1 DEF HoldInv, EmptyHolds
    <3> QED BY <3>1, SumEmpty DEF StockAt
  <2>5. SumOver(g, Tx) = 0
    <3>1. ASSUME NEW u \in Tx PROVE g[u] = 0
      <4>1. CASE u = t
        BY <1>2, <1>11, <4>1
      <4>2. CASE u # t
        <5>1. g[u] = Released(u, s)
          BY <1>2, <4>2 DEF Outs
        <5>2. ASSUME DoneInspect(u) PROVE s \notin DOMAIN seenLine[u]
          BY <2>1, <5>2 DEF DoneInspect, Sound, ReceiptInv, RequestOK, ItsInspection
        <5>3. Released(u, s) = 0
          BY <5>2, NothingTaken DEF Released, DoneInspect
        <5> QED BY <5>1, <5>3
      <4> QED BY <4>1, <4>2
    <3> QED BY <1>1, <3>1, SumZero
  <2>6. Change(t, s) \in Int
    BY <1>8, ChangeInt DEF HoldInv, HoldOK
  <2> QED BY <1>5, <1>11, <2>3, <2>4, <2>5, <2>6
<1> QED BY <1>8, <1>9, <1>10, <1>11

LEMMA HoldStep == Sound /\ Sound' /\ HoldInv /\ [GrnNext]_allVars => HoldInv'
<1> SUFFICES ASSUME Sound, Sound', HoldInv, [GrnNext]_allVars PROVE HoldInv'
  OBVIOUS
<1>1. live' \subseteq Row
  BY DEF Sound, StockInv, StockTypeOK
<1>2. ASSUME NEW t \in Tx, Start(t) \/ GrnProgress(t) \/ Crash(t) PROVE HoldInv'
  <2>1. CASE Finish(t)
    BY <2>1, FinishOthers, FinishTurns, FinishEmpty, FinishHold DEF HoldInv
  <2>2. CASE ~Finish(t)
    <3>1. line' = line /\ live' = live /\ qty' = qty
      BY <1>2, <2>2, OnlyFinishWrites, OnlyFinishInstalls
    <3>2. ASSUME NEW u \in Tx \ {t}
          PROVE  /\ HoldOK(u)' /\ (InFlight(u)' <=> InFlight(u)) /\ call'[u] = call[u]
                 /\ DoneInspect(u)' <=> DoneInspect(u)
      <4>1. Untouched(u) /\ Still(u)
        BY <1>2, OthersUntouched, OthersStill DEF Sound
      <4>2. \A s \in Slot : SameRows(Hold(s))
        BY <3>1 DEF SameRows
      <4>3. HoldOK(u)'
        BY <1>1, <4>1, <4>2, HoldOther DEF HoldInv
      <4> QED BY <4>1, <4>3 DEF Untouched, DoneInspect
    <3>3. /\ HoldOK(t)' /\ ~DoneInspect(t)' /\ ~DoneInspect(t)
          /\ Open(t) \/ (InFlight(t)' => InFlight(t) /\ call'[t] = call[t])
      <4>1. CASE Start(t) \/ UpdateOrder(t) \/ SaveDraft(t)
        BY <4>1, HoldStart
      <4>2. CASE LineRefused(t) \/ CallFails(t) \/ Crash(t)
        BY <4>2, HoldRollback
      <4>3. CASE Open(t) \/ ReceiveLine(t) \/ EndReceiveLine(t) \/ InspectLine(t)
                   \/ EndInspectLine(t) \/ EngineCall(t) \/ Decide(t)
        <5>1. HoldOK(t)'
          BY <4>3, HoldOpen, HoldReceive, HoldInspect, HoldBetween, HoldEngine
        <5>2. /\ at[t] # "done" /\ at'[t] # "done" /\ call' = call
              /\ Open(t) \/ InFlight(t)
          <6>1. CASE EngineCall(t)
            <7>1. InFlight(t)
              BY <6>1 DEF EngineCall, Find, Write, InFlight
            <7>2. at[t] # "done"
              BY <7>1 DEF Sound, ReceiptInv, RequestOK, ItsStage, Working
            <7> QED BY <6>1, <7>1, <7>2 DEF EngineCall, grnVars
          <6>2. CASE ~EngineCall(t)
            BY <4>3, <6>2 DEF Open, ReceiveLine, EndReceiveLine, InspectLine, EndInspectLine, Decide,
               AtLine, InFlight, Sound, ReceiptInv, Shape
          <6> QED BY <6>1, <6>2
        <5> QED BY <5>1, <5>2 DEF DoneInspect
      <4> QED BY <1>2, <2>2, <4>1, <4>2, <4>3 DEF GrnProgress
    <3>4. EmptyHolds' /\ HoldIsWhatIsLeft'
      BY <3>1, <3>2, <3>3, HoldQuiet
    <3>5. Turns'
      <4>1. CASE Open(t)
        BY <4>1, HoldOpen
      <4>2. CASE ~Open(t)
        BY <3>2, <3>3, <4>2, TurnsKept DEF HoldInv
      <4> QED BY <4>1, <4>2
    <3> QED BY <3>2, <3>3, <3>4, <3>5 DEF HoldInv
  <2> QED BY <2>1, <2>2
<1>3. CASE UNCHANGED allVars
  <2>1. \A u \in Tx : Untouched(u) /\ Still(u)
    BY <1>3 DEF allVars, Untouched, Still, InFlight
  <2>2. line' = line /\ live' = live /\ qty' = qty /\ call' = call /\ at' = at
    BY <1>3 DEF allVars
  <2>3. \A s \in Slot : SameRows(Hold(s))
    BY <2>2 DEF SameRows
  <2>4. \A u \in Tx : HoldOK(u)'
    BY <1>1, <2>1, <2>3, HoldOther DEF HoldInv
  <2>5. EmptyHolds' /\ HoldIsWhatIsLeft'
    BY <2>2, HoldQuiet DEF DoneInspect
  <2>6. Turns'
    BY <2>1, <2>2, TurnsKept DEF HoldInv, Untouched
  <2> QED BY <2>4, <2>5, <2>6 DEF HoldInv
<1> QED BY <1>2, <1>3 DEF GrnNext

\* A batch that is to be inspected has in its quality hold what was put away
\* less what inspections released, though several inspect its line at once,
\* from rows read before any of them (grn.service.ts:719-837).
THEOREM HoldAccountsForAll == GrnSpec => []HoldIsWhatIsLeft
<1>1. GrnInit => HoldInv
  <2> SUFFICES ASSUME GrnInit PROVE HoldInv
    OBVIOUS
  <2>1. \A t \in Tx : ~InFlight(t) /\ at[t] = "idle" /\ dirty[t] = {} /\ todo[t] = <<>>
    BY DEF GrnInit, StockInit, InFlight
  <2>2. EmptyHolds
    BY BatchConstants DEF GrnInit, StockInit, EmptyHolds, Hold
  <2>3. HoldIsWhatIsLeft
    BY DEF GrnInit, Nothing, HoldIsWhatIsLeft
  <2>4. Turns
    BY <2>1 DEF Turns
  <2>5. \A t \in Tx : HoldOK(t)
    <3> SUFFICES ASSUME NEW t \in Tx PROVE Confined(t) /\ Agreed(t) /\ Within(t)
      BY DEF HoldOK
    <3>1. ~InFlight(t) /\ at[t] = "idle" /\ dirty[t] = {} /\ todo[t] = <<>>
      BY <2>1
    <3>2. Confined(t)
      BY <3>1 DEF Confined
    <3>3. Agreed(t)
      BY <3>1 DEF Agreed, Owns
    <3>4. Within(t)
      BY <3>1 DEF Within, Working
    <3> QED BY <3>2, <3>3, <3>4
  <2> QED BY <2>2, <2>3, <2>4, <2>5 DEF HoldInv
<1>2. HoldInv => HoldIsWhatIsLeft
  BY DEF HoldInv
<1> QED BY <1>1, <1>2, HoldStep, AlwaysSound, PTL DEF GrnSpec
=============================================================================
