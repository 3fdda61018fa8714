----------------------------- MODULE Production -----------------------------
(***************************************************************************)
(* Production orders, bills of materials, material requests and the stock  *)
(* they reserve, and finished goods.                                       *)
(*                                                                         *)
(* Quantities are whole numbers of the smallest unit, 1/Scale, and so is   *)
(* the factor for scrap.  A stock row is changed in one step: what two     *)
(* transactions on one row do to each other is in StockEngine.  Materials, *)
(* warehouses and users exist; there is one warehouse.  A document's       *)
(* number, which DocumentSeries computes, may be taken; of numbers,        *)
(* priorities, notes and traceability links nothing else is modelled.      *)
(***************************************************************************)
EXTENDS Handlers

CONSTANTS
  ShelfLife,  \* the materials that have a shelf life
  Number,     \* the number of each batch that may be
  Clock,      \* the time of new receipts
  Scale,      \* units in one: 10000, to which an explosion rounds
  Batches0, Stock0, Orders0, Boms0

LineList(lines) ==
  /\ lines \in Seq({lines[i] : i \in DOMAIN lines})
  /\ \A i \in DOMAIN lines : lines[i].qty \in Int

BomList(lines) == LineList(lines) /\ \A i \in DOMAIN lines : lines[i].scrap \in Int

\* What is asked of Production has the lines and quantities that it is about.
Typed(c) ==
  /\ c.op = "request" => LineList(c.lines)
  /\ c.op = "createBom" => "lines" \in DOMAIN c
  /\ c.op \in {"createBom", "updateBom"} /\ "lines" \in DOMAIN c => BomList(c.lines)
  /\ c.op = "explode" => c.fgQty \in Int
  /\ c.op = "receiveFg" => c.qty \in Int /\ c.expiry \in Int

\* A batch was received at a time, not to come.
Dated(b) == b.received \in Int /\ b.received <= Clock /\ b.expiry \in Int

ASSUME ProductionConstants ==
  /\ IsFiniteSet(DOMAIN Stock0)
  /\ \A row \in DOMAIN Stock0 : Stock0[row] \in Nat /\ row[1] \in DOMAIN Batches0
  /\ Scale \in Nat \ {0}
  /\ Clock \in Int /\ \A x \in DOMAIN Batches0 : Dated(Batches0[x])
  /\ \A id \in DOMAIN Boms0 : \E part \in Boms0[id].parts :
       Boms0[id].parts = {part} /\ BomList(part.lines)
  /\ \A mix \in Mix0 : \A r \in Req : Typed(mix.call[r])

Never == 999999  \* no expiry date: last

VARIABLES
  settings,  \* the settings of the company
  batches,   \* inventory_batches: material, time received, time of expiry
  stock,     \* inventory_stock: <<batch, location, status>> to quantity
  orders,    \* production orders: number to status
  boms,      \* <<material, version>> to status and rows
  wanted,    \* the lines of the material request that each call created
  reserved   \* the planning reservations that each call created

prodVars == <<settings, batches, stock, orders, boms, wanted, reserved>>

ProductionInit(mix) ==
  /\ settings = mix.settings
  /\ batches = Batches0 /\ stock = Stock0 /\ orders = Orders0 /\ boms = Boms0
  /\ wanted = [r \in Req |-> <<>>]
  /\ reserved = [r \in Req |-> <<>>]

UnchangedBoms == UNCHANGED <<settings, orders, boms>>
UnchangedStock == UNCHANGED <<settings, batches, stock, wanted, reserved>>

----------------------------------------------------------------------------
(* Stock, and the picks that FifoEngine suggests. *)

Qty(row) == IF row \in DOMAIN stock THEN stock[row] ELSE 0
Available(m) == {row \in DOMAIN stock :
  row[3] = "available" /\ stock[row] > 0 /\ batches[row[1]].material = m}

\* Variant: the material is not asked.
PolicyAlone(m) == ResolveStorePolicy(settings).fefoEnabled

UsesFefo(m) == ResolveStorePolicy(settings).fefoEnabled /\ m \in ShelfLife

\* The order of the query; it says nothing of the rows of one batch.
Precedes(fefo, x, y) ==
  LET a == batches[x[1]]
      b == batches[y[1]]
  IN IF fefo
       THEN a.expiry < b.expiry \/ (a.expiry = b.expiry /\ a.received < b.received)
       ELSE \/ a.received < b.received
            \/ a.received = b.received /\ Number[x[1]] < Number[y[1]]

Quantities(list) == [i \in DOMAIN list |-> list[i].qty]
Total(list) == SumOver(Quantities(list), DOMAIN list)

\* From each row what remains to be had, until nothing does.
Picks(rows, need) ==
  LET have == [i \in DOMAIN rows |-> stock[rows[i]]]
      Rest(i) == need - SumOver(have, 1..(i - 1))
      n == Cardinality({i \in DOMAIN rows : Rest(i) > 0})
  IN  [i \in 1..n |-> [row |-> rows[i], qty |-> AtMost(have[i], Rest(i))]]

Suggestions(m, need) ==
  LET ByQuery(rows) ==
        \A i, j \in DOMAIN rows : i < j => ~Precedes(UsesFefo(m), rows[j], rows[i])
  IN  {Picks(rows, need) : rows \in {s \in SetToSeqs(Available(m)) : ByQuery(s)}}

\* Variant: a line is reserved as far as the stock goes.
AsFarAsItGoes(picks, need) == TRUE

FullyCovered(picks, need) == Total(picks) >= need

----------------------------------------------------------------------------
(* Bills of materials. *)

ValidLines(lines) == lines # <<>> /\ \A i \in DOMAIN lines : lines[i].qty > 0

\* The rows of a BOM are kept as the lists that were written together.
Written(r, lines) == [by |-> r, lines |-> lines]
LinesOf(id) == FlattenSeq(SetToSeq({part.lines : part \in boms[id].parts}))

\* POST: a BOM has no component that is its own product ...
CreateBom(r) ==
  /\ At(r, "createBom")
  /\ LET c == CallOf(r)
         id == <<c.material, c.version>>
     IN IF /\ ValidLines(c.lines)
           /\ \A i \in DOMAIN c.lines : c.lines[i].material # c.material
           /\ id \notin DOMAIN boms
          THEN /\ boms' = SetAt(boms, id, [status |-> c.status, parts |-> {Written(r, c.lines)}])
               /\ Done(r) /\ Commits(r, {<<"bom", id>>})
          ELSE Refuse(r) /\ Quiet /\ UNCHANGED boms
  /\ UnchangedStock /\ UNCHANGED orders

\* PATCH: ... until it is updated.
UpdateBom(r) ==
  /\ At(r, "updateBom")
  /\ LET c == CallOf(r) IN
       IF c.bom \in DOMAIN boms /\ ("lines" \in DOMAIN c => ValidLines(c.lines))
         THEN Go(r, "deleteLines")
         ELSE Refuse(r)
  /\ Quiet /\ UnchangedBoms /\ UNCHANGED <<batches, stock, wanted, reserved>>

\* The transaction starts.  The lines that it deletes, if it is given others, are
\* those that are committed now; it waits for others that delete them too, and does
\* not see what they have put in their place.
DeleteLines(r) ==
  /\ At(r, "deleteLines")
  /\ GoWith(r, "saveBom", boms[CallOf(r).bom].parts)
  /\ Quiet /\ UnchangedBoms /\ UNCHANGED <<batches, stock, wanted, reserved>>

StatusAfter(c, old) == IF c.status = "unchanged" THEN old ELSE c.status

\* Variant: the lines are created one by one, without a transaction.
LineByLine(r) ==
  /\ At(r, "saveBom")
  /\ LET c == CallOf(r)
         n == IF "lines" \in DOMAIN c THEN Len(c.lines) ELSE 0
     IN
       /\ boms' = [boms EXCEPT ![c.bom] =
            [status |-> StatusAfter(c, @.status),
             parts  |-> IF n = 0 THEN @.parts ELSE {Written(r, SubSeq(c.lines, 1, Pos(r)))}]]
       /\ IF Pos(r) < n
            THEN GoTo(r, "saveBom", Pos(r) + 1) /\ Quiet
            ELSE Done(r) /\ Commits(r, {<<"bom", c.bom>>})
  /\ UnchangedStock /\ UNCHANGED orders

SaveBom(r) ==
  /\ At(r, "saveBom")
  /\ LET c == CallOf(r) IN
       /\ boms' = [boms EXCEPT ![c.bom] =
            [status |-> StatusAfter(c, @.status),
             parts  |-> IF "lines" \in DOMAIN c
                          THEN (@.parts \ Saw(r)) \cup {Written(r, c.lines)}
                          ELSE @.parts]]
       /\ Done(r) /\ Commits(r, {<<"bom", c.bom>>})
  /\ UnchangedStock /\ UNCHANGED orders

\* Half a unit is rounded up.
Rounded(a, b) == (2 * a + b) \div (2 * b)

\* What n of the product need.
Exploded(lines, n) ==
  [i \in DOMAIN lines |->
     [material |-> lines[i].material,
      qty |-> Rounded(lines[i].qty * n * (Scale + AtLeast(0, lines[i].scrap)), Scale * Scale)]]

\* POST :id/explode reads the BOM, first its header ...
Explode(r) ==
  /\ At(r, "explode")
  /\ LET c == CallOf(r) IN
       IF c.fgQty > 0 /\ c.bom \in DOMAIN boms /\ boms[c.bom].status = "active"
         THEN Go(r, "explodeLines")
         ELSE Refuse(r)
  /\ Quiet /\ UnchangedBoms /\ UNCHANGED <<batches, stock, wanted, reserved>>

\* ... then its lines.
ExplodeLines(r) ==
  /\ At(r, "explodeLines")
  /\ LET c == CallOf(r) IN
       IF LinesOf(c.bom) # <<>> /\ c.order \in DOMAIN orders
         THEN GoWith(r, "insert", Exploded(LinesOf(c.bom), c.fgQty))
         ELSE Refuse(r)
  /\ Quiet /\ UnchangedBoms /\ UNCHANGED <<batches, stock, wanted, reserved>>

----------------------------------------------------------------------------
(* Material requests. *)

RequestMaterial(r) ==
  /\ At(r, "request")
  /\ LET c == CallOf(r) IN
       IF ValidLines(c.lines) /\ c.order \in DOMAIN orders \cup {"none"}
         THEN GoWith(r, "insert", c.lines)
         ELSE Refuse(r)
  /\ Quiet /\ UnchangedBoms /\ UNCHANGED <<batches, stock, wanted, reserved>>

\* The call ends if the number that it computed is taken.
InsertRequest(r) ==
  /\ At(r, "insert")
  /\ \/ wanted' = [wanted EXCEPT ![r] = Saw(r)] /\ Go(r, "suggest")
     \/ Refuse(r) /\ UNCHANGED wanted
  /\ Quiet /\ UnchangedBoms /\ UNCHANGED <<batches, stock, reserved>>

\* The next line: reserved if the stock covers it, or left alone.
Suggest(r) ==
  /\ At(r, "suggest")
  /\ IF Pos(r) > Len(wanted[r])
       THEN Done(r)
       ELSE LET line == wanted[r][Pos(r)] IN
            \E picks \in Suggestions(line.material, line.qty) :
              IF FullyCovered(picks, line.qty) /\ picks # <<>>
                THEN GoWith(r, "find", picks)
                ELSE GoTo(r, "suggest", Pos(r) + 1)
  /\ Quiet /\ UnchangedBoms /\ UNCHANGED <<batches, stock, wanted, reserved>>

\* ReservationEngine.create finds a row of the picked batch that has enough;
\* it is not told the location.
FindRow(r) ==
  /\ At(r, "find")
  /\ LET pick == Head(Saw(r))
         enough == {row \in DOMAIN stock :
                      row[1] = pick.row[1] /\ row[3] = "available" /\ stock[row] >= pick.qty}
     IN IF enough = {}
          THEN Refuse(r)
          ELSE \E row \in enough :
                 GoWith(r, "reserve", <<[pick EXCEPT !.row = row]>> \o Tail(Saw(r)))
  /\ Quiet /\ UnchangedBoms /\ UNCHANGED <<batches, stock, wanted, reserved>>

\* Variant: what was found before the transaction is trusted.
Trusted(pick) == TRUE

StillEnough(pick) == Qty(pick.row) >= pick.qty

\* Its transaction moves the stock and creates the reservation.
Reserve(r) ==
  /\ At(r, "reserve")
  /\ LET pick == Head(Saw(r))
         to == <<pick.row[1], pick.row[2], "reserved">>
         m == batches[pick.row[1]].material
     IN IF StillEnough(pick)
          THEN /\ stock' = SetAt([stock EXCEPT ![pick.row] = @ - pick.qty], to, Qty(to) + pick.qty)
               /\ reserved' = [reserved EXCEPT ![r] =
                    Append(@, [line |-> Pos(r), batch |-> pick.row[1], qty |-> pick.qty])]
               /\ IF Tail(Saw(r)) = <<>>
                    THEN GoTo(r, "suggest", Pos(r) + 1)
                    ELSE GoWith(r, "find", Tail(Saw(r)))
               /\ Commits(r, {<<"material", m>>})
          ELSE Refuse(r) /\ Quiet /\ UNCHANGED <<stock, reserved>>
  /\ UnchangedBoms /\ UNCHANGED <<batches, wanted>>

----------------------------------------------------------------------------
(* Production orders, and what they produce. *)

SaveOrder(r) ==
  /\ job[r].at \in {"createOrder", "updateOrder"}
  /\ LET c == CallOf(r) IN
       IF (c.op = "createOrder") = (c.order \in DOMAIN orders)
         THEN Refuse(r) /\ UNCHANGED orders
         ELSE orders' = SetAt(orders, c.order, c.status) /\ Done(r)
  /\ Quiet /\ UnchangedStock /\ UNCHANGED boms

\* In one transaction; the status of the order is not asked.  The batch is a new
\* one, and the transaction fails if its number is taken.
ReceiveFg(r) ==
  /\ At(r, "receiveFg")
  /\ LET c == CallOf(r)
         row == <<c.batch, c.location, "available">>
     IN
       IF c.qty > 0 /\ c.order \in DOMAIN orders /\ c.batch \notin DOMAIN batches
         THEN /\ batches' = SetAt(batches, c.batch,
                   [material |-> c.material, received |-> Clock, expiry |-> c.expiry])
              /\ stock' = SetAt(stock, row, Qty(row) + c.qty)
              /\ Done(r) /\ Commits(r, {<<"material", c.material>>})
         ELSE Refuse(r) /\ Quiet /\ UNCHANGED <<batches, stock>>
  /\ UnchangedBoms /\ UNCHANGED <<wanted, reserved>>

ProductionStep(r) ==
  \/ CreateBom(r) \/ UpdateBom(r) \/ DeleteLines(r) \/ SaveBom(r)
  \/ Explode(r) \/ ExplodeLines(r)
  \/ RequestMaterial(r) \/ InsertRequest(r) \/ Suggest(r) \/ FindRow(r) \/ Reserve(r)
  \/ SaveOrder(r) \/ ReceiveFg(r)
=============================================================================
