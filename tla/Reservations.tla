---------------------------- MODULE Reservations ----------------------------
(***************************************************************************)
(* Requests that take stock out of "available": planning reservations      *)
(* (create, release), material issues (which consume reserved stock before *)
(* available stock, in FIFO order, for a material request or not) and the  *)
(* shipping of dispatch orders.                                            *)
(*                                                                         *)
(* A request first checks with reads outside any transaction (Start), then *)
(* opens one and works on the stock engine and the reservation rows, and   *)
(* commits.  Issues are numbered, so that no two of them are between their *)
(* header and their commit together (OneAtATime of DocumentSeries); the    *)
(* others are not.                                                         *)
(*                                                                         *)
(* Abstractions: one material in one warehouse and location; a material    *)
(* request has one line; serial numbers, notes and traceability links are  *)
(* left out; an issue that loses the race for its number simply waits.     *)
(***************************************************************************)
EXTENDS StockEngine

CONSTANTS
  Batch,         \* batches of the material
  Age,           \* their FIFO order: lower is received earlier
  Avail,         \* the key of each batch's available stock
  Reserved,      \* the key of its reserved stock
  NoBatch,       \* no batch chosen
  Res,           \* identities of planning reservations that may ever exist
  Reservation0,  \* those that exist at the start
  ByPriority,    \* all of them by priority, then creation
  NoPO,          \* no production order
  Request,       \* the material requests
  NoRequest,
  PoOf,          \* the production order of each request, or NoPO
  Requested,     \* requestedQty of its line
  Order,         \* dispatch orders
  Call0          \* Call0[t]: the API calls t may be

\* A row of planning_reservations: what is active is of a batch, and of some units.
IsReservation(x) ==
  /\ x \in [status : {"none", "active", "released", "consumed"}, qty : Nat,
            batch : Batch \cup {NoBatch}, po : {x.po}]
  /\ x.status = "active" => x.qty > 0 /\ x.batch \in Batch

\* What the API accepts: a positive quantity, at least one line.
IsCall(c) ==
  \/ /\ c.op = "reserve" /\ c.res \in Res
     /\ c.batch \in Batch \cup {NoBatch} /\ c.qty \in Nat \ {0}
  \/ c.op = "release" /\ c.res \in Res
  \/ /\ c.op = "issue" /\ c.request \in Request \cup {NoRequest}
     /\ c.lines \in Seq([batch : Batch, qty : Nat]) /\ c.lines # <<>>
  \/ c.op = "ship" /\ c.order \in Order /\ c.lines \in Seq([batch : Batch, qty : Nat])

\* The identities of the reservations t may create.
NewRes(t) == {r \in Res : \E c \in Call0[t] : c.op = "reserve" /\ c.res = r}

ASSUME ReservationConstants ==
  /\ IsFiniteSet(Tx) /\ IsFiniteSet(Res) /\ IsFiniteSet(OpeningRow)
  /\ Age \in [Batch -> Nat]
  /\ Avail \in [Batch -> Key] /\ Reserved \in [Batch -> Key]
  /\ \A b, c \in Batch : Avail[b] # Reserved[c] /\ (b # c => Reserved[b] # Reserved[c])
  /\ NoBatch \notin Batch /\ NoRequest \notin Request
  /\ Reservation0 \in [Res -> {Reservation0[r] : r \in Res}]
  /\ \A r \in Res : IsReservation(Reservation0[r])
  /\ ByPriority \in Seq(Res) /\ \A r \in Res : \E i \in DOMAIN ByPriority : ByPriority[i] = r
  /\ \A i, j \in DOMAIN ByPriority : ByPriority[i] = ByPriority[j] => i = j
  /\ Requested \in [Request -> Nat]

ASSUME CallConstants ==
  /\ \A t \in Tx : \A c \in Call0[t] :
       /\ IsCall(c)
       /\ c.op = "issue" => \A i \in DOMAIN c.lines :
            {<<Deduct(Avail[c.lines[i].batch], c.lines[i].qty)>>,
             <<Deduct(Reserved[c.lines[i].batch], c.lines[i].qty)>>} \subseteq Further[t]
  /\ \A t \in Tx : \A r \in NewRes(t) :
       /\ Reservation0[r].status = "none"
       /\ \A u \in Tx \ {t} : r \notin NewRes(u)

\* The units of batch b that the reservation x claims.
Claim(x, b) == IF x.status = "active" /\ x.batch = b THEN x.qty ELSE 0

\* What is reserved at the start has been claimed.
ASSUME OpeningIsClaimed ==
  \A b \in Batch :
    SumOver(Opening, {r \in OpeningRow : KeyOf[r] = Reserved[b]})
      <= SumOver([r \in Res |-> Claim(Reservation0[r], b)], Res)

VARIABLES
  res,       \* committed planning reservations
  issued,    \* committed issuedQty of each material request
  shipped,   \* dispatch orders whose committed status is shipped
  at,        \* where each request is
  req,       \* the API call it is
  batch,     \* the batch its check found
  held,      \* the reservation's quantity its check read
  pos,       \* lines of an issue already done
  resVal,    \* the reservations as the open transaction sees them
  resDirty,  \* those it has written
  newIssued  \* the issuedQty it has written

resTables == <<res, issued, shipped>>
reqVars   == <<at, req, batch, held, pos, resVal, resDirty, newIssued>>
resVars   == <<res, issued, shipped, at, req, batch, held, pos, resVal, resDirty,
               newIssued>>
allVars   == <<live, qty, ledger, phase, todo, found, read, dirty, val, pend,
               res, issued, shipped, at, req, batch, held, pos, resVal, resDirty,
               newIssued>>

NoReservation == [status |-> "none", qty |-> 0, batch |-> NoBatch, po |-> NoPO]

ResSeen(t, r) == IF r \in resDirty[t] THEN resVal[t][r] ELSE res[r]
ResFree(t, r) == \A u \in Tx \ {t} : r \notin resDirty[u]

----------------------------------------------------------------------------
(* The checks, on committed rows. *)

RowsWith(k, n) == {r \in live : KeyOf[r] = k /\ qty[r] >= n}

\* suggestBatches(...).picks[0]: the oldest batch with available stock.
FirstPick ==
  LET stocked == {b \in Batch : RowsWith(Avail[b], 1) # {}}
  IN  {b \in stocked : \A c \in stocked : Age[b] <= Age[c]}

OnHand(k) == SumOver(qty, {r \in live : KeyOf[r] = k})
FullyCovered(n) == SumOver([b \in Batch |-> OnHand(Avail[b])], Batch) >= n

Closed(m) == issued[m] >= Requested[m]

\* The batches with which the call c passes its check; NoBatch if it needs none.
Admits(c) ==
  CASE c.op = "reserve" /\ c.batch = NoBatch ->
         {b \in FirstPick : FullyCovered(c.qty)}
    [] c.op = "reserve" /\ c.batch # NoBatch ->
         {b \in {c.batch} : RowsWith(Avail[b], c.qty) # {}}
    [] c.op = "release" ->
         {b \in {res[c.res].batch} : /\ res[c.res].status = "active"
                                     /\ RowsWith(Reserved[b], res[c.res].qty) # {}}
    [] c.op = "issue" ->
         {b \in {NoBatch} : c.request = NoRequest \/ ~Closed(c.request)}
    [] c.op = "ship" ->
         {b \in {NoBatch} : c.order \notin shipped}

ResInit ==
  /\ StockInit
  /\ res = Reservation0
  /\ issued = [m \in Request |-> 0]
  /\ shipped = {}
  /\ at = [t \in Tx |-> "idle"]
  /\ req = [t \in Tx |-> [op |-> "none"]]
  /\ batch = [t \in Tx |-> NoBatch]
  /\ held = [t \in Tx |-> 0]
  /\ pos = [t \in Tx |-> 0]
  /\ resVal = [t \in Tx |-> [r \in Res |-> NoReservation]]
  /\ resDirty = [t \in Tx |-> {}]
  /\ newIssued = [t \in Tx |-> 0]

\* The reads before the transaction.
Start(t) ==
  /\ at[t] = "idle"
  /\ \E c \in Call0[t] : \E b \in Admits(c) :
       /\ req'   = [req EXCEPT ![t] = c]
       /\ batch' = [batch EXCEPT ![t] = b]
       /\ held'  = [held EXCEPT ![t] = IF c.op = "release" THEN res[c.res].qty ELSE 0]
  /\ at' = [at EXCEPT ![t] = "checked"]
  /\ UNCHANGED <<stockVars, resTables, pos, resVal, resDirty, newIssued>>

----------------------------------------------------------------------------
(* The transaction. *)

Lines(t) == req[t].lines

\* The engine calls a request starts with; an issue decides line by line.
FirstCalls(t) ==
  CASE req[t].op = "reserve" -> Move(Avail[batch[t]], Reserved[batch[t]], req[t].qty)
    [] req[t].op = "release" -> Move(Reserved[batch[t]], Avail[batch[t]], held[t])
    [] req[t].op = "ship"    ->
         [i \in DOMAIN Lines(t) |-> Deduct(Avail[Lines(t)[i].batch], Lines(t)[i].qty)]
    [] req[t].op = "issue"   -> <<>>

Issuing(t) == req[t].op = "issue" /\ InFlight(t)

\* Variant: the numbers come from a sequence, and issues need not wait.
SequenceNumber(t) == TRUE

\* The next number is free for one issue at a time.
NumberFree(t) == req[t].op = "issue" => \A u \in Tx \ {t} : ~Issuing(u)

OpenRequest(t) ==
  /\ at[t] = "checked"
  /\ NumberFree(t)
  /\ Begin(t)
  /\ todo'[t] = FirstCalls(t)
  /\ at' = [at EXCEPT ![t] = IF req[t].op = "issue" THEN "line" ELSE "calls"]
  /\ UNCHANGED <<resTables, req, batch, held, pos, resVal, resDirty, newIssued>>

EngineCall(t) == (Find(t) \/ Write(t)) /\ UNCHANGED resVars

ProductionOrder(t) ==
  IF req[t].po # NoPO \/ req[t].request = NoRequest THEN req[t].po
  ELSE PoOf[req[t].request]

\* Active reservations an issue of batch b may draw on, as t sees them.
Matching(t, b) ==
  {r \in Res : /\ ResSeen(t, r).status = "active"
               /\ ResSeen(t, r).batch = b
               /\ ProductionOrder(t) \in {NoPO, ResSeen(t, r).po}}

Holds(t, k, n) == \E r \in Row : KeyOf[r] = k /\ Visible(t, r) /\ ValueSeen(t, r) >= n

\* An issue line with a reservation, or for a material request, takes reserved
\* stock if one row has enough.
TakesReserved(t, l) ==
  /\ req[t].request # NoRequest \/ Matching(t, l.batch) # {}
  /\ Holds(t, Reserved[l.batch], l.qty)

FifoAllows(t, l) == FirstPick \subseteq {l.batch} \/ req[t].override

\* The next line of an issue, with the engine call it leads to.
AtLine(t) ==
  /\ at[t] = "line" /\ phase[t] = "find" /\ todo[t] = <<>> /\ pos[t] < Len(Lines(t))

IssueReserved(t) ==
  /\ AtLine(t)
  /\ LET l == Lines(t)[pos[t] + 1]
     IN  /\ TakesReserved(t, l)
         /\ CallWith(t, <<Deduct(Reserved[l.batch], l.qty)>>)
  /\ at' = [at EXCEPT ![t] = "reserved"]
  /\ UNCHANGED <<resTables, req, batch, held, pos, resVal, resDirty, newIssued>>

IssueAvailable(t) ==
  /\ AtLine(t)
  /\ LET l == Lines(t)[pos[t] + 1]
     IN  /\ ~TakesReserved(t, l)
         /\ FifoAllows(t, l)
         /\ Holds(t, Avail[l.batch], l.qty)
         /\ CallWith(t, <<Deduct(Avail[l.batch], l.qty)>>)
  /\ at' = [at EXCEPT ![t] = "available"]
  /\ UNCHANGED <<resTables, req, batch, held, pos, resVal, resDirty, newIssued>>

\* What is left of n after the first i reservations, in order, of those in M.
LeftAfter(t, M, n) ==
  LET left[i \in 0..Len(ByPriority)] ==
        IF i = 0 THEN n
        ELSE IF ByPriority[i] \in M
               THEN Max({0, left[i-1] - ResSeen(t, ByPriority[i]).qty})
               ELSE left[i-1]
  IN  left

\* Variant: every matching reservation is consumed, whatever the quantity.
ConsumeAll(t, M, n) == [i \in DOMAIN ByPriority |->
  [ResSeen(t, ByPriority[i]) EXCEPT
     !.status = IF ByPriority[i] \in M THEN "consumed" ELSE @]]

\* Variant: a reservation that fits exactly is reduced and not consumed.
ConsumeBelow(t, M, n) ==
  LET left == LeftAfter(t, M, n)
  IN  [i \in DOMAIN ByPriority |->
         LET s == ResSeen(t, ByPriority[i])
         IN  IF ByPriority[i] \notin M \/ left[i-1] = 0 THEN s
             ELSE IF s.qty < left[i-1] THEN [s EXCEPT !.status = "consumed"]
             ELSE [s EXCEPT !.qty = @ - left[i-1]]]

\* The matching reservations after n units are taken: those that fit in what
\* is left are consumed, the next one is reduced, the others stay.
Consume(t, M, n) ==
  LET left == LeftAfter(t, M, n)
  IN  [i \in DOMAIN ByPriority |->
         LET s == ResSeen(t, ByPriority[i])
         IN  IF ByPriority[i] \notin M \/ left[i-1] = 0 THEN s
             ELSE IF s.qty <= left[i-1] THEN [s EXCEPT !.status = "consumed"]
             ELSE [s EXCEPT !.qty = @ - left[i-1]]]

\* issuedQty of the request's line as t sees it.
IssuedSeen(t) == IF pos[t] > 0 THEN newIssued[t] ELSE issued[req[t].request]

\* The end of a line: its reservations, and the line of the material request.
\* The reserved row, which the deduct has locked, keeps every other request for
\* the batch's reservations away between the reading and the writing of them.
EndLine(t) ==
  /\ at[t] \in {"reserved", "available"} /\ phase[t] = "find" /\ todo[t] = <<>>
  /\ LET l == Lines(t)[pos[t] + 1]
         M == IF at[t] = "reserved" THEN Matching(t, l.batch) ELSE {}
         after == Consume(t, M, l.qty)
         changed == {r \in M : \E i \in DOMAIN ByPriority :
                                 ByPriority[i] = r /\ after[i] # ResSeen(t, r)}
     IN  /\ \A r \in changed : ResFree(t, r)
         /\ resDirty' = [resDirty EXCEPT ![t] = @ \cup changed]
         /\ resVal' = [resVal EXCEPT ![t] = [r \in Res |->
              IF r \in changed
                THEN after[CHOOSE i \in DOMAIN ByPriority : ByPriority[i] = r]
                ELSE @[r]]]
         /\ newIssued' = [newIssued EXCEPT ![t] =
              IF req[t].request = NoRequest THEN 0 ELSE IssuedSeen(t) + l.qty]
  /\ pos' = [pos EXCEPT ![t] = @ + 1]
  /\ at' = [at EXCEPT ![t] = "line"]
  /\ UNCHANGED <<stockVars, resTables, req, batch, held>>

\* After the calls of a reservation or a release: its row is written.
SettleReservation(t) ==
  /\ at[t] = "calls" /\ phase[t] = "find" /\ todo[t] = <<>>
  /\ req[t].op \in {"reserve", "release"}
  /\ ResFree(t, req[t].res)
  /\ resDirty' = [resDirty EXCEPT ![t] = {req[t].res}]
  /\ resVal' = [resVal EXCEPT ![t][req[t].res] =
       IF req[t].op = "release"
         THEN [res[req[t].res] EXCEPT !.status = "released"]
         ELSE [status |-> "active", qty |-> req[t].qty, batch |-> batch[t],
               po |-> req[t].po]]
  /\ at' = [at EXCEPT ![t] = "settled"]
  /\ UNCHANGED <<stockVars, resTables, req, batch, held, pos, newIssued>>

\* What the request kept while it was open is gone with it.
Forget(t) ==
  /\ batch'     = [batch EXCEPT ![t] = NoBatch]
  /\ held'      = [held EXCEPT ![t] = 0]
  /\ pos'       = [pos EXCEPT ![t] = 0]
  /\ resVal'    = [resVal EXCEPT ![t] = [r \in Res |-> NoReservation]]
  /\ resDirty'  = [resDirty EXCEPT ![t] = {}]
  /\ newIssued' = [newIssued EXCEPT ![t] = 0]

Ready(t) ==
  \/ at[t] = "settled"
  \/ at[t] = "calls" /\ req[t].op = "ship"
  \/ at[t] = "line" /\ pos[t] = Len(Lines(t))

CommitRequest(t) ==
  /\ Ready(t)
  /\ Commit(t)
  /\ res' = [r \in Res |-> ResSeen(t, r)]
  /\ issued' = [m \in Request |->
                  IF req[t].op = "issue" /\ req[t].request = m
                    THEN newIssued[t] ELSE issued[m]]
  /\ shipped' = IF req[t].op = "ship" THEN shipped \cup {req[t].order} ELSE shipped
  /\ at' = [at EXCEPT ![t] = "done"]
  /\ Forget(t)
  /\ UNCHANGED req

Failed(t) ==
  /\ at' = [at EXCEPT ![t] = "failed"]
  /\ Forget(t)
  /\ UNCHANGED <<resTables, req>>

\* An engine call throws.
CallFails(t) == (Refuse(t) \/ UniqueViolation(t) \/ BreakDeadlock(t)) /\ Failed(t)

\* Variant: an issue without stock waits for it.
WaitForStock(t) ==
  /\ AtLine(t)
  /\ LET l == Lines(t)[pos[t] + 1]
     IN  ~TakesReserved(t, l) /\ ~Holds(t, Avail[l.batch], l.qty)
  /\ UNCHANGED allVars

\* "FIFO violation" or "Insufficient ... stock for issue".
IssueRefused(t) ==
  /\ AtLine(t)
  /\ LET l == Lines(t)[pos[t] + 1]
     IN  /\ ~TakesReserved(t, l)
         /\ ~FifoAllows(t, l) \/ ~Holds(t, Avail[l.batch], l.qty)
  /\ Rollback(t)
  /\ Failed(t)

\* A crash, or the transaction's timeout.
CrashRequest(t) == Abort(t) /\ Failed(t)

ReqProgress(t) ==
  \/ OpenRequest(t)
  \/ EngineCall(t)
  \/ IssueReserved(t)
  \/ IssueAvailable(t)
  \/ IssueRefused(t)
  \/ EndLine(t)
  \/ SettleReservation(t)
  \/ CommitRequest(t)
  \/ CallFails(t)

ResNext == \E t \in Tx : Start(t) \/ ReqProgress(t) \/ CrashRequest(t)

ResSpec == ResInit /\ [][ResNext]_allVars

\* A request that has passed its check is carried on by the server and the
\* database until it is answered.
FairResSpec == ResSpec /\ \A t \in Tx : WF_allVars(ReqProgress(t))

----------------------------------------------------------------------------
(* Properties. *)

\* Types; and an active reservation is always of a positive quantity.
ResTypeOK ==
  /\ StockTypeOK
  /\ \A r \in Res : IsReservation(res[r])
  /\ issued \in [Request -> Nat]
  /\ shipped \subseteq Order

\* Units of batch b that active reservations claim.
Claimed(b) == SumOver([r \in Res |-> Claim(res[r], b)], Res)

\* No orphan: by the ledger, stock never stays reserved that no active
\* reservation claims, however reservations, releases and issues interleave,
\* and whatever stale quantity a release works with (reservation.engine.ts:
\* 147-175, 242-271).
ReservedIsClaimed == \A b \in Batch : OnHandByLedger(Reserved[b]) <= Claimed(b)

Taken(c, m) == IF c.op = "issue" /\ c.request = m
                 THEN SumOver([i \in DOMAIN c.lines |-> c.lines[i].qty], DOMAIN c.lines)
                 ELSE 0

\* No issue is forgotten: what a material request's line says was issued is
\* what the posted issues took for it (issue.service.ts:328-341).
IssuedAddsUp ==
  \A m \in Request :
    issued[m] = SumOver([t \in Tx |-> IF at[t] = "done" THEN Taken(req[t], m) ELSE 0], Tx)

\* A request underway ends, though issues wait for each other's numbers and
\* all wait for stock and reservation rows (issue.service.ts:102-368).
EveryRequestEnds ==
  \A t \in Tx : (at[t] # "idle") ~> at[t] \in {"done", "failed"}

\* The engine's calls for active reservations leave their stock reserved: what
\* an issue deducts from reserved stock it takes off the matching reservations
\* (the comment of consumeForIssue, reservation.engine.ts:188-191).
ClaimsAreReserved == \A b \in Batch : Claimed(b) <= OnHandByLedger(Reserved[b])

\* "Already shipped": a dispatch order leaves the warehouse at most once
\* (dispatch.service.ts:133-135).
ShippedOnce ==
  \A t, u \in Tx :
    (/\ t # u /\ at[t] = "done" /\ at[u] = "done"
     /\ req[t].op = "ship" /\ req[u].op = "ship")
      => req[t].order # req[u].order
=============================================================================
