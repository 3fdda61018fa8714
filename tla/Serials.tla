------------------------------ MODULE Serials ------------------------------
(***************************************************************************)
(* Serial numbers: their registration, and the issues and shipments they   *)
(* leave with.  A document has one line; it works through the serials of   *)
(* the line in one transaction, after the stock it moves, of which only    *)
(* the row is kept here: see Reservations.                                 *)
(*                                                                         *)
(* A write of a row waits while another transaction has written it; when   *)
(* transactions wait for each other in a circle, the database ends one.    *)
(***************************************************************************)
EXTENDS Handlers

CONSTANTS
  SerialTracked,  \* the materials that have serial numbers
  Serials0

ASSUME SerialsConstants ==
  \A s \in DOMAIN Serials0 : Serials0[s].status \in {"available", "issued"}

VARIABLES
  serials,  \* committed rows: number to material and status
  writes,   \* what the transaction of each call has written, uncommitted
  left      \* the serials of each committed document

serVars == <<serials, writes, left>>

SerialsInit ==
  /\ serials = Serials0
  /\ writes = [r \in Req |-> Empty]
  /\ left = [r \in Req |-> {}]

NoSerial == [status |-> "none"]
Seen(r, s) ==
  IF s \in DOMAIN writes[r] THEN writes[r][s]
  ELSE IF s \in DOMAIN serials THEN serials[s] ELSE NoSerial
Writers(s) == {q \in Req : s \in DOMAIN writes[q]}

Abort(r) == Refuse(r) /\ writes' = [writes EXCEPT ![r] = Empty]

\* POST serials: one row after the other, each on its own; one that is there
\* ends the call, with the rows before it created.
Register(r) ==
  /\ At(r, "register")
  /\ LET c == CallOf(r) IN
       IF c.material \notin SerialTracked \/ c.serials = <<>>
         THEN Refuse(r) /\ Quiet /\ UNCHANGED serials
         ELSE LET s == c.serials[Pos(r)] IN
              /\ Writers(s) = {}
              /\ IF s \in DOMAIN serials
                   THEN Refuse(r) /\ Quiet /\ UNCHANGED serials
                   ELSE /\ serials' = SetAt(serials, s,
                               [material |-> c.material, status |-> "available"])
                        /\ IF Pos(r) = Len(c.serials) THEN Done(r)
                           ELSE GoTo(r, "register", Pos(r) + 1)
                        /\ Commits(r, {<<"serial", s>>})
  /\ UNCHANGED <<writes, left>>

InTransaction(r) == job[r].at \in {"findSerial", "writeSerial", "commit"}

\* A document takes the stock of its line first, and has that row to itself until
\* it ends.  Issues have their numbers, and so their transactions, one at a time
\* (OneAtATime of DocumentSeries).
Begin(r) ==
  /\ job[r].at \in {"issue", "ship"}
  /\ LET c == CallOf(r) IN
       /\ \A q \in Req : InTransaction(q) =>
            /\ CallOf(q).row # c.row
            /\ c.op = "issue" => Op(q) # "issue"
       /\ IF c.op = "ship" \/ c.material \in SerialTracked THEN Go(r, "findSerial") ELSE Refuse(r)
  /\ Quiet /\ UNCHANGED serVars

\* Variant: the shipment finds its serials by their id alone.
FoundById(row, m) == row.status # "none"

\* A shipment takes available serials of the line's material.
Shippable(row, m) == row.status = "available" /\ row.material = m

\* An issue takes them too, and creates those that nobody registered.
Issuable(row, m) == row.status = "none" \/ (row.material = m /\ row.status = "available")

FindSerial(r) ==
  /\ At(r, "findSerial")
  /\ LET c == CallOf(r) IN
       IF Pos(r) > Len(c.serials)
         THEN Go(r, "commit") /\ UNCHANGED serVars
         ELSE LET row == Seen(r, c.serials[Pos(r)]) IN
              IF IF c.op = "ship" THEN Shippable(row, c.material) ELSE Issuable(row, c.material)
                THEN GoWith(r, "writeSerial", row) /\ UNCHANGED serVars
                ELSE Abort(r) /\ UNCHANGED <<serials, left>>
  /\ Quiet

WaitsFor(r) == IF At(r, "writeSerial") THEN Writers(CallOf(r).serials[Pos(r)]) \ {r} ELSE {}

\* An update, by id; or an insert, which fails if the number is taken.
WriteSerial(r) ==
  /\ At(r, "writeSerial") /\ WaitsFor(r) = {}
  /\ LET c == CallOf(r)
         s == c.serials[Pos(r)]
     IN IF Saw(r) = NoSerial /\ s \in DOMAIN serials
          THEN Abort(r)
          ELSE /\ writes' = [writes EXCEPT ![r] =
                    SetAt(@, s, [material |-> c.material, status |-> "issued"])]
               /\ GoTo(r, "findSerial", Pos(r) + 1)
  /\ Quiet /\ UNCHANGED <<serials, left>>

\* The transactions that wait for each other in a circle with r.
InCircle(r) ==
  \E D \in SUBSET Req :
    /\ r \in D
    /\ \A q \in D : WaitsFor(q) \cap D # {}
    /\ \A q \in D : \E p \in D : q \in WaitsFor(p)

EndCircle(r) ==
  /\ InCircle(r)
  /\ Abort(r)
  /\ Quiet /\ UNCHANGED <<serials, left>>

CommitSerials(r) ==
  /\ At(r, "commit")
  /\ serials' = Overlay(writes[r], serials)
  /\ left' = [left EXCEPT ![r] = DOMAIN writes[r]]
  /\ writes' = [writes EXCEPT ![r] = Empty]
  /\ Done(r) /\ Commits(r, {<<"serial", s>> : s \in DOMAIN writes[r]})

SerialsStep(r) ==
  \/ Register(r) \/ Begin(r) \/ FindSerial(r) \/ WriteSerial(r) \/ EndCircle(r)
  \/ CommitSerials(r)
=============================================================================
