------------------------- MODULE BackOffice_proofs -------------------------
(***************************************************************************)
(* For every set of calls at work together: an invoice is booked twice,    *)
(* and a serial number leaves twice, only by calls that overlap; what is   *)
(* requested for a BOM is one of its lists unless updates overlap; a       *)
(* request reserves whole lines or nothing of them, and what goes first    *)
(* when nothing else moves its material; the report counts each unit once; *)
(* and the references hold.  Each part of the office has an inductive      *)
(* invariant of its own: BookInv, SerialInv, AccInv, BomInv, RequestInv,   *)
(* OldestInv (of requests, with what goes first) and ReportInv.            *)
(***************************************************************************)
EXTENDS BackOffice, Maps_proofs, SequenceTheorems

\* A call that is underway knows how far it is, and what it saw last.
Shape(j) ==
  /\ {"at", "call"} \subseteq DOMAIN j
  /\ j.at \notin {"waiting", "done", "refused"} => {"pos", "saw"} \subseteq DOMAIN j

\* What every step keeps: each call has a place and what it was asked.
Placed ==
  /\ DOMAIN job = Req /\ DOMAIN disturbed = Req
  /\ \A r \in Req : Shape(job[r]) /\ Op(r) \in Operations

\* The bookings are a list, of calls.
BookingsListed ==
  /\ bookings \in Seq({bookings[k] : k \in DOMAIN bookings})
  /\ \A k \in DOMAIN bookings : bookings[k].by \in Req

\* A call that is about to book had found no booking: those that are there now
\* were committed while it was underway.
Found(r) ==
  At(r, "saveBooking") =>
    \A k \in BookingsOf(CallOf(r).number) : <<"invoice", CallOf(r).number>> \in disturbed[r]

BookInv == Placed /\ BookingsListed /\ (\A r \in Req : Found(r)) /\ LiabilityOnce

\* A step of r leaves the other calls alone and takes r to one of the places P.
StepsTo(r, P) ==
  /\ DOMAIN job' = Req
  /\ \A q \in Req \ {r} : job'[q] = job[q]
  /\ Shape(job'[r])
  /\ job'[r].call = job[r].call /\ job'[r].at \in P

\* What others have committed is not forgotten.
Remembers ==
  /\ DOMAIN disturbed' = Req
  /\ \A q \in Req : disturbed[q] \subseteq disturbed'[q]

\* The control operators of Handlers.
LEMMA ControlSteps ==
  ASSUME Placed, NEW r \in Req, Underway(r), NEW p, NEW STATE x, NEW STATE n
  PROVE  /\ Refuse(r) => StepsTo(r, {"refused"})
         /\ Done(r) => StepsTo(r, {"done"})
         /\ Go(r, p) => StepsTo(r, {p})
         /\ GoWith(r, p, x) => StepsTo(r, {p})
         /\ GoTo(r, p, n) => StepsTo(r, {p})
<1>1. Refuse(r) => StepsTo(r, {"refused"})
  BY DEF Placed, Refuse, StepsTo, Shape, Underway
<1>2. Done(r) => StepsTo(r, {"done"})
  BY DEF Placed, Done, StepsTo, Shape, Underway
<1>3. Go(r, p) => StepsTo(r, {p})
  BY DEF Placed, Go, StepsTo, Shape, Underway
<1>4. GoWith(r, p, x) => StepsTo(r, {p})
  BY DEF Placed, GoWith, StepsTo, Shape, Underway
<1>5. GoTo(r, p, n) => StepsTo(r, {p})
  BY DEF Placed, GoTo, StepsTo, Shape, Underway
<1> QED BY <1>1, <1>2, <1>3, <1>4, <1>5

LEMMA ObservationSteps ==
  ASSUME Placed, NEW r \in Req, NEW STATE cells
  PROVE  (Commits(r, cells) \/ Quiet) => Remembers
BY DEF Placed, Commits, Quiet, Remembers

\* A step from one place to one of others.
Hop(r, p, P) == At(r, p) /\ StepsTo(r, P) /\ Remembers

ProductionHop(r) ==
  \/ \E p \in {"createBom", "saveBom", "createOrder", "updateOrder", "receiveFg"} :
       Hop(r, p, {"done", "refused"})
  \/ Hop(r, "updateBom", {"deleteLines", "refused"})
  \/ Hop(r, "deleteLines", {"saveBom"})
  \/ Hop(r, "explode", {"explodeLines", "refused"})
  \/ \E p \in {"explodeLines", "request"} : Hop(r, p, {"insert", "refused"})
  \/ Hop(r, "insert", {"suggest", "refused"})
  \/ Hop(r, "suggest", {"suggest", "find", "done"})
  \/ Hop(r, "find", {"reserve", "refused"})
  \/ Hop(r, "reserve", {"suggest", "find", "refused"})

AccountsHop(r) ==
  \/ Hop(r, "attach", {"connect", "refused"})
  \/ Hop(r, "verify", {"setVerified", "refused"})
  \/ Hop(r, "book", {"readReceipts", "refused"})
  \/ Hop(r, "readReceipts", {"readBookings"})
  \/ Hop(r, "readBookings", {"saveBooking", "refused"})
  \/ Hop(r, "mark", {"setBooked", "refused"})
  \/ \E p \in {"connect", "setVerified", "saveBooking", "setBooked"} : Hop(r, p, {"done", "refused"})

SerialsHop(r) ==
  \/ Hop(r, "register", {"register", "done", "refused"})
  \/ Hop(r, "issue", {"findSerial", "refused"})
  \/ Hop(r, "ship", {"findSerial", "refused"})
  \/ Hop(r, "findSerial", {"writeSerial", "commit", "refused"})
  \/ Hop(r, "writeSerial", {"findSerial", "refused"})
  \/ Hop(r, "commit", {"done"})

LEMMA EnterHop ==
  ASSUME Placed, NEW r \in Req, Enter(r)
  PROVE  Hop(r, "waiting", {Op(r)})
<1>1. StepsTo(r, {Op(r)})
  BY DEF Placed, Enter, StepsTo, Op, CallOf, Shape
<1> QED BY <1>1, ObservationSteps DEF Enter, Hop

LEMMA ProductionHops ==
  ASSUME Placed, NEW r \in Req, ProductionStep(r)
  PROVE  ProductionHop(r)
<1> USE DEF ProductionHop, Hop
<1>1. CASE CreateBom(r)
  BY <1>1, ControlSteps, ObservationSteps DEF CreateBom, StepsTo, At, Underway
<1>2. CASE UpdateBom(r)
  BY <1>2, ControlSteps, ObservationSteps DEF UpdateBom, StepsTo, At, Underway
<1>13. CASE DeleteLines(r)
  BY <1>13, ControlSteps, ObservationSteps DEF DeleteLines, StepsTo, At, Underway
<1>3. CASE SaveBom(r)
  BY <1>3, ControlSteps, ObservationSteps DEF SaveBom, StepsTo, At, Underway
<1>4. CASE Explode(r)
  BY <1>4, ControlSteps, ObservationSteps DEF Explode, StepsTo, At, Underway
<1>5. CASE ExplodeLines(r)
  BY <1>5, ControlSteps, ObservationSteps DEF ExplodeLines, StepsTo, At, Underway
<1>6. CASE RequestMaterial(r)
  BY <1>6, ControlSteps, ObservationSteps DEF RequestMaterial, StepsTo, At, Underway
<1>7. CASE InsertRequest(r)
  BY <1>7, ControlSteps, ObservationSteps DEF InsertRequest, StepsTo, At, Underway
<1>8. CASE Suggest(r)
  <2>1. StepsTo(r, {"suggest", "find", "done"})
    <3>1. /\ At(r, "suggest")
          /\ Done(r) \/ (\E x : GoWith(r, "find", x)) \/ (\E n : GoTo(r, "suggest", n))
      BY <1>8 DEF Suggest
    <3> QED BY <3>1, ControlSteps DEF StepsTo, At, Underway
  <2> QED BY <1>8, <2>1, ObservationSteps DEF Suggest
<1>9. CASE FindRow(r)
  BY <1>9, ControlSteps, ObservationSteps DEF FindRow, StepsTo, At, Underway
<1>10. CASE Reserve(r)
  BY <1>10, ControlSteps, ObservationSteps DEF Reserve, StepsTo, At, Underway
<1>11. CASE SaveOrder(r)
  BY <1>11, ControlSteps, ObservationSteps DEF SaveOrder, StepsTo, At, Underway
<1>12. CASE ReceiveFg(r)
  BY <1>12, ControlSteps, ObservationSteps DEF ReceiveFg, StepsTo, At, Underway
<1> QED BY <1>1, <1>2, <1>3, <1>4, <1>5, <1>6, <1>7, <1>8, <1>9, <1>10, <1>11, <1>12,
      <1>13 DEF ProductionStep

LEMMA ReportHops ==
  ASSUME Placed, NEW r \in Req, Analyze(r)
  PROVE  Hop(r, "aging", {"done"})
BY ControlSteps, ObservationSteps DEF Analyze, Hop, At, Underway

LEMMA AccountsHops ==
  ASSUME Placed, NEW r \in Req, AccountsStep(r)
  PROVE  AccountsHop(r)
<1> USE DEF AccountsHop, Hop
<1>1. CASE AttachInvoice(r)
  BY <1>1, ControlSteps, ObservationSteps DEF AttachInvoice, StepsTo, At, Underway
<1>2. CASE ConnectReceipts(r)
  BY <1>2, ControlSteps, ObservationSteps DEF ConnectReceipts, StepsTo, At, Underway
<1>3. CASE VerifyInvoice(r)
  BY <1>3, ControlSteps, ObservationSteps DEF VerifyInvoice, StepsTo, At, Underway
<1>4. CASE SetVerified(r)
  BY <1>4, ControlSteps, ObservationSteps DEF SetVerified, StepsTo, At, Underway
<1>5. CASE BookPurchase(r)
  BY <1>5, ControlSteps, ObservationSteps DEF BookPurchase, StepsTo, At, Underway
<1>6. CASE SaveBooking(r)
  BY <1>6, ControlSteps, ObservationSteps DEF SaveBooking, StepsTo, At, Underway
<1>7. CASE MarkBooked(r)
  BY <1>7, ControlSteps, ObservationSteps DEF MarkBooked, StepsTo, At, Underway
<1>8. CASE SetBooked(r)
  BY <1>8, ControlSteps, ObservationSteps DEF SetBooked, StepsTo, At, Underway
<1>9. CASE ReadReceipts(r)
  BY <1>9, ControlSteps, ObservationSteps DEF ReadReceipts, StepsTo, At, Underway
<1>10. CASE ReadBookings(r)
  BY <1>10, ControlSteps, ObservationSteps DEF ReadBookings, StepsTo, At, Underway
<1> QED BY <1>1, <1>2, <1>3, <1>4, <1>5, <1>6, <1>7, <1>8, <1>9, <1>10 DEF AccountsStep

LEMMA SerialsHops ==
  ASSUME Placed, NEW r \in Req, SerialsStep(r)
  PROVE  SerialsHop(r)
<1> USE DEF SerialsHop, Hop
<1>1. CASE Register(r)
  BY <1>1, ControlSteps, ObservationSteps DEF Register, StepsTo, At, Underway
<1>2. CASE Begin(r)
  BY <1>2, ControlSteps, ObservationSteps DEF Begin, StepsTo, At, Underway
<1>3. CASE FindSerial(r)
  BY <1>3, ControlSteps, ObservationSteps DEF FindSerial, StepsTo, Abort, At, Underway
<1>4. CASE WriteSerial(r)
  BY <1>4, ControlSteps, ObservationSteps DEF WriteSerial, StepsTo, Abort, At, Underway
<1>5. CASE EndCircle(r)
  <2>1. At(r, "writeSerial")
    BY <1>5 DEF EndCircle, InCircle, WaitsFor
  <2> QED BY <1>5, <2>1, ControlSteps, ObservationSteps DEF EndCircle, Abort, StepsTo, At, Underway
<1>6. CASE CommitSerials(r)
  BY <1>6, ControlSteps, ObservationSteps DEF CommitSerials, StepsTo, At, Underway
<1> QED BY <1>1, <1>2, <1>3, <1>4, <1>5, <1>6 DEF SerialsStep

----------------------------------------------------------------------------
(* Steps that do not concern bookings. *)

\* Every place but the one before a booking.
Elsewhere ==
  Operations \cup
  {"deleteLines", "saveBom", "explodeLines", "insert", "suggest", "find", "reserve", "connect",
   "setVerified", "readReceipts", "readBookings", "setBooked", "findSerial", "writeSerial", "commit", "done", "refused"}

Aside(r) == StepsTo(r, Elsewhere) /\ Remembers /\ UNCHANGED bookings

LEMMA AsideKeeps ==
  ASSUME BookInv, NEW r \in Req, Aside(r)
  PROVE  BookInv'
<1>1. Placed'
  BY DEF BookInv, Placed, Aside, StepsTo, Remembers, Op, CallOf
<1>2. BookingsListed'
  BY DEF BookInv, BookingsListed, Aside
<1>3. ASSUME NEW q \in Req PROVE Found(q)'
  <2>1. CASE q = r
    BY <2>1 DEF Aside, StepsTo, Found, At, Elsewhere, Operations
  <2>2. CASE q # r
    BY <2>2 DEF BookInv, Found, At, CallOf, BookingsOf, Aside, StepsTo, Remembers
  <2> QED BY <2>1, <2>2
<1>4. LiabilityOnce'
  BY DEF BookInv, LiabilityOnce, BookingsListed, Aside, Remembers
<1> QED BY <1>1, <1>2, <1>3, <1>4 DEF BookInv

LEMMA OthersAside ==
  ASSUME Placed, NEW r \in Req, UNCHANGED bookings,
         Hop(r, "waiting", {Op(r)}) \/ ProductionHop(r) \/ Hop(r, "aging", {"done"}) \/ SerialsHop(r)
  PROVE  Aside(r)
<1>1. Op(r) \in Elsewhere
  BY DEF Placed, Elsewhere
<1> USE DEF Aside, Elsewhere, Hop, StepsTo
<1>2. CASE Hop(r, "waiting", {Op(r)}) \/ Hop(r, "aging", {"done"})
  BY <1>1, <1>2
<1>3. CASE ProductionHop(r)
  BY <1>3 DEF ProductionHop
<1>4. CASE SerialsHop(r)
  BY <1>4 DEF SerialsHop, Operations
<1> QED BY <1>2, <1>3, <1>4

----------------------------------------------------------------------------
(* Accounts. *)

LEMMA ReadBookingsKeeps ==
  ASSUME BookInv, NEW r \in Req, ReadBookings(r)
  PROVE  BookInv'
<1>1. Placed /\ Remembers /\ UNCHANGED bookings
  BY ObservationSteps DEF BookInv, ReadBookings, accVars
<1>2. CASE Unbooked(CallOf(r).number)
  <2>1. StepsTo(r, {"saveBooking"})
    BY <1>1, <1>2, ControlSteps DEF ReadBookings, At, Underway
  <2>2. Placed'
    BY <1>1, <2>1 DEF Placed, StepsTo, Remembers, Op, CallOf
  <2>3. BookingsListed'
    BY <1>1 DEF BookInv, BookingsListed
  <2>4. ASSUME NEW q \in Req PROVE Found(q)'
    <3>1. CASE q = r
      BY <1>1, <1>2, <2>1, <3>1 DEF Found, StepsTo, Unbooked, BookingsOf, CallOf
    <3>2. CASE q # r
      BY <1>1, <2>1, <3>2 DEF BookInv, Found, At, CallOf, BookingsOf, StepsTo, Remembers
    <3> QED BY <3>1, <3>2
  <2>5. LiabilityOnce'
    BY <1>1 DEF BookInv, LiabilityOnce, BookingsListed, Remembers
  <2> QED BY <2>2, <2>3, <2>4, <2>5 DEF BookInv
<1>3. CASE ~Unbooked(CallOf(r).number)
  <2>1. Aside(r)
    BY <1>1, <1>3, ControlSteps DEF ReadBookings, Aside, StepsTo, Elsewhere, At, Underway
  <2> QED BY <2>1, AsideKeeps
<1> QED BY <1>2, <1>3

\* The list after a booking.
LEMMA Booked ==
  ASSUME BookingsListed, NEW STATE e, bookings' = Append(bookings, e), e.by \in Req
  PROVE  /\ BookingsListed'
         /\ DOMAIN bookings = 1..Len(bookings) /\ Len(bookings) \in Nat
         /\ DOMAIN bookings' = 1..(Len(bookings) + 1)
         /\ bookings'[Len(bookings) + 1] = e
         /\ \A k \in DOMAIN bookings : bookings'[k] = bookings[k]
<1> DEFINE T == {bookings[k] : k \in DOMAIN bookings} \cup {e}
<1>1. bookings \in Seq(T)
  BY SeqMonotonic DEF BookingsListed
<1> HIDE DEF T
<1>2. e \in T
  BY DEF T
<1>3. /\ bookings' \in Seq(T)
      /\ Len(bookings) \in Nat /\ DOMAIN bookings = 1..Len(bookings)
      /\ Len(bookings') = Len(bookings) + 1 /\ DOMAIN bookings' = 1..(Len(bookings) + 1)
      /\ bookings'[Len(bookings) + 1] = e
      /\ \A k \in 1..Len(bookings) : bookings'[k] = bookings[k]
  BY <1>1, <1>2
<1>4. bookings' \in [1..Len(bookings') -> T]
  BY <1>3, LenProperties
<1>5. bookings' \in [1..Len(bookings') -> {bookings'[k] : k \in DOMAIN bookings'}]
  BY <1>3, <1>4
<1>6. bookings' \in Seq({bookings'[k] : k \in DOMAIN bookings'})
  BY <1>3, <1>5, SeqDef
<1>7. \A k \in DOMAIN bookings' : bookings'[k].by \in Req
  BY <1>3 DEF BookingsListed
<1> QED BY <1>3, <1>6, <1>7 DEF BookingsListed

LEMMA SaveBookingKeeps ==
  ASSUME BookInv, NEW r \in Req, SaveBooking(r)
  PROVE  BookInv'
<1> DEFINE i == CallOf(r).number
           e == [invoice |-> i, receipts |-> Saw(r), by |-> r]
<1>1. /\ Placed /\ BookingsListed /\ At(r, "saveBooking")
      /\ bookings' = Append(bookings, e)
      /\ StepsTo(r, {"done"}) /\ Commits(r, {<<"invoice", i>>}) /\ Remembers
  BY ControlSteps, ObservationSteps DEF BookInv, SaveBooking, At, Underway
<1>2. /\ BookingsListed'
      /\ DOMAIN bookings = 1..Len(bookings) /\ Len(bookings) \in Nat
      /\ DOMAIN bookings' = 1..(Len(bookings) + 1)
      /\ bookings'[Len(bookings) + 1] = e
      /\ \A k \in DOMAIN bookings : bookings'[k] = bookings[k]
  BY <1>1, Booked
<1>3. Placed'
  BY <1>1 DEF Placed, StepsTo, Remembers, Op, CallOf
<1>4. ASSUME NEW q \in Req PROVE Found(q)'
  <2>1. CASE q = r
    BY <1>1, <2>1 DEF Found, At, StepsTo
  <2>2. CASE q # r /\ At(q, "saveBooking")
    <3>1. job'[q] = job[q]
      BY <1>1, <2>2 DEF StepsTo
    <3>2. <<"invoice", i>> \in disturbed'[q]
      BY <1>1, <2>2 DEF Commits, Underway, At
    <3>3. ASSUME NEW k \in BookingsOf(CallOf(q).number)'
          PROVE  <<"invoice", CallOf(q).number>> \in disturbed'[q]
      <4>1. CASE k \in DOMAIN bookings
        BY <1>1, <1>2, <2>2, <3>1, <3>3, <4>1
           DEF BookInv, Found, BookingsOf, CallOf, Remembers
      <4>2. CASE k = Len(bookings) + 1
        BY <1>2, <3>1, <3>2, <3>3, <4>2 DEF BookingsOf, CallOf
      <4> QED BY <1>2, <3>3, <4>1, <4>2 DEF BookingsOf
    <3> QED BY <3>1, <3>3 DEF Found, CallOf
  <2>3. CASE q # r /\ ~At(q, "saveBooking")
    BY <1>1, <2>3 DEF Found, At, StepsTo
  <2> QED BY <2>1, <2>2, <2>3
<1>5. LiabilityOnce'
  <2> SUFFICES ASSUME NEW j \in DOMAIN bookings', NEW k \in DOMAIN bookings', j < k,
                      bookings'[j].invoice = bookings'[k].invoice
               PROVE  <<"invoice", bookings'[k].invoice>> \in disturbed'[bookings'[k].by]
    BY DEF LiabilityOnce
  <2>1. j \in DOMAIN bookings
    BY <1>2
  <2>2. CASE k \in DOMAIN bookings
    BY <1>1, <1>2, <2>1, <2>2 DEF BookInv, LiabilityOnce, BookingsListed, Remembers
  <2>3. CASE k = Len(bookings) + 1
    <3>1. bookings'[k].invoice = i /\ bookings'[k].by = r
      BY <1>2, <2>3
    <3>2. <<"invoice", i>> \in disturbed[r]
      BY <1>1, <1>2, <2>1, <3>1 DEF BookInv, Found, BookingsOf
    <3> QED BY <1>1, <3>1, <3>2 DEF Remembers
  <2> QED BY <1>2, <2>2, <2>3
<1> QED BY <1>2, <1>3, <1>4, <1>5 DEF BookInv

LEMMA AccountsKeeps ==
  ASSUME BookInv, NEW r \in Req, AccountsStep(r)
  PROVE  BookInv'
<1> USE DEF Aside, StepsTo, Elsewhere
<1>0. Placed
  BY DEF BookInv
<1>1. CASE AttachInvoice(r)
  BY <1>0, <1>1, AsideKeeps, ControlSteps, ObservationSteps DEF AttachInvoice, accVars, At, Underway
<1>2. CASE ConnectReceipts(r)
  BY <1>0, <1>2, AsideKeeps, ControlSteps, ObservationSteps DEF ConnectReceipts, At, Underway
<1>3. CASE VerifyInvoice(r)
  BY <1>0, <1>3, AsideKeeps, ControlSteps, ObservationSteps DEF VerifyInvoice, accVars, At, Underway
<1>4. CASE SetVerified(r)
  BY <1>0, <1>4, AsideKeeps, ControlSteps, ObservationSteps DEF SetVerified, At, Underway
<1>5. CASE MarkBooked(r)
  BY <1>0, <1>5, AsideKeeps, ControlSteps, ObservationSteps DEF MarkBooked, accVars, At, Underway
<1>6. CASE SetBooked(r)
  BY <1>0, <1>6, AsideKeeps, ControlSteps, ObservationSteps DEF SetBooked, At, Underway
<1>7. CASE BookPurchase(r)
  BY <1>0, <1>7, AsideKeeps, ControlSteps, ObservationSteps DEF BookPurchase, accVars, At, Underway
<1>8. CASE ReadReceipts(r)
  BY <1>0, <1>8, AsideKeeps, ControlSteps, ObservationSteps DEF ReadReceipts, accVars, At, Underway
<1> QED BY <1>1, <1>2, <1>3, <1>4, <1>5, <1>6, <1>7, <1>8, ReadBookingsKeeps, SaveBookingKeeps
        DEF AccountsStep

----------------------------------------------------------------------------
(* Bookings: the theorem. *)

LEMMA BookInvInit == BackOfficeInit => BookInv
<1> SUFFICES ASSUME BackOfficeInit PROVE BookInv
  OBVIOUS
<1>1. PICK mix \in Mix0 : HandlersInit(mix)
  BY DEF BackOfficeInit
<1>2. bookings = <<>>
  BY DEF BackOfficeInit, AccountsInit
<1>3. Placed
  BY <1>1, BackOfficeConstants DEF HandlersInit, Placed, Shape, Op, CallOf
<1>4. BookingsListed
  BY <1>2 DEF BookingsListed
<1> QED BY <1>1, <1>2, <1>3, <1>4
        DEF BookInv, Found, HandlersInit, At, LiabilityOnce

LEMMA BookInvStep == BookInv /\ [Next]_vars => BookInv'
<1> SUFFICES ASSUME BookInv, [Next]_vars PROVE BookInv'
  OBVIOUS
<1>0. Placed
  BY DEF BookInv
<1>1. ASSUME NEW r \in Req, Step(r) PROVE BookInv'
  <2>1. \/ AccountsStep(r)
        \/ /\ Enter(r) \/ ProductionStep(r) \/ Analyze(r) \/ SerialsStep(r)
           /\ UNCHANGED bookings
    BY <1>1 DEF Step, accVars
  <2>2. CASE UNCHANGED bookings /\ (Enter(r) \/ ProductionStep(r) \/ Analyze(r) \/ SerialsStep(r))
    BY <1>0, <2>2, AsideKeeps, OthersAside, EnterHop, ProductionHops, ReportHops, SerialsHops
  <2> QED BY <2>1, <2>2, AccountsKeeps
<1>2. CASE UNCHANGED vars
  BY <1>2 DEF vars, BookInv, Placed, BookingsListed, Found, LiabilityOnce, At, CallOf, Op,
              BookingsOf
<1> QED BY <1>1, <1>2 DEF Next, Finished

\* An invoice that is booked twice was booked by calls that overlapped: the second
\* found no booking before the first was committed (accounts.service.ts:183-185).
THEOREM OverlapBooksTwice == Spec => []LiabilityOnce
<1>1. BookInv => LiabilityOnce
  BY DEF BookInv
<1> QED BY <1>1, BookInvInit, BookInvStep, PTL DEF Spec

----------------------------------------------------------------------------
(* Serial numbers: the steps of the other parts. *)

\* The places of the transaction of a document.
Transaction == {"findSerial", "writeSerial", "commit"}

\* The places that the other parts go on to.
Desk ==
  {"deleteLines", "saveBom", "explodeLines", "insert", "suggest", "find", "reserve", "connect",
   "setVerified", "readReceipts", "readBookings", "saveBooking", "setBooked", "done", "refused"}

\* A step of r that is not of its transaction, and leads to none.
AtDesk(r) ==
  /\ job[r].at \notin Transaction /\ job'[r].at \notin Transaction
  /\ StepsTo(r, Operations \cup Desk)
  /\ Remembers

LEMMA DeskSteps ==
  ASSUME Placed, NEW r \in Req, job[r].at \notin Transaction, StepsTo(r, Desk), Remembers
  PROVE  AtDesk(r)
BY DEF AtDesk, StepsTo, Desk, Transaction

LEMMA EnterAtDesk ==
  ASSUME Placed, NEW r \in Req, Enter(r)
  PROVE  AtDesk(r)
<1>1. Hop(r, "waiting", {Op(r)}) /\ Op(r) \in Operations
  BY EnterHop DEF Placed
<1> QED BY <1>1 DEF AtDesk, Hop, At, StepsTo, Transaction, Operations

LEMMA OthersAtDesk ==
  ASSUME Placed, NEW r \in Req, ProductionHop(r) \/ Hop(r, "aging", {"done"}) \/ AccountsHop(r)
  PROVE  AtDesk(r)
<1>1. job[r].at \notin Transaction
  BY DEF ProductionHop, AccountsHop, Hop, At, Transaction
<1>2. StepsTo(r, Desk) /\ Remembers
  BY DEF ProductionHop, AccountsHop, Hop, StepsTo, Desk
<1> QED BY <1>1, <1>2, DeskSteps

----------------------------------------------------------------------------
(* What the transactions keep. *)

\* The serial numbers that r has written, or has found free and is about to write.
Taking(r, s) == s \in DOMAIN writes[r] \/ (At(r, "writeSerial") /\ s = CallOf(r).serials[Pos(r)])

\* Nobody writes outside a transaction, and what is written leaves.
WritesLeave ==
  /\ DOMAIN writes = Req /\ DOMAIN left = Req
  /\ \A r \in Req :
       /\ ~InTransaction(r) => writes[r] = Empty
       /\ \A s \in DOMAIN writes[r] : writes[r][s].status = "issued"

\* What has left is issued, and stays so.
LeftIssued ==
  \A r \in Req : \A s \in left[r] : s \in DOMAIN serials /\ serials[s].status = "issued"

\* Each transaction has the row of stock that it moves to itself.
RowsApart ==
  \A q, r \in Req : q # r /\ InTransaction(q) /\ InTransaction(r) => CallOf(q).row # CallOf(r).row

\* A transaction that takes what has left began before that left, and found it free.
TakenMeanwhile ==
  \A q, r \in Req : q # r /\ InTransaction(r) =>
    \A s \in left[q] : Taking(r, s) =>
      CallOf(q).row # CallOf(r).row /\ <<"serial", s>> \in disturbed[r]

SerialInv ==
  Placed /\ WritesLeave /\ LeftIssued /\ RowsApart /\ TakenMeanwhile /\ SerialLeavesOnce

\* What is kept of the calls by any step of r.
LEMMA PlacedKept ==
  ASSUME Placed, NEW r \in Req, NEW P, StepsTo(r, P), Remembers
  PROVE  /\ Placed'
         /\ \A q \in Req : CallOf(q)' = CallOf(q)
         /\ \A q \in Req \ {r} : /\ job'[q] = job[q]
                                 /\ InTransaction(q)' = InTransaction(q)
<1>1. \A q \in Req : CallOf(q)' = CallOf(q)
  BY DEF StepsTo, CallOf
<1>2. Placed'
  BY <1>1 DEF Placed, StepsTo, Remembers, Op
<1> QED BY <1>1, <1>2 DEF StepsTo, InTransaction

LEMMA NothingLeaves ==
  ASSUME SerialLeavesOnce, Remembers, UNCHANGED left, \A q \in Req : CallOf(q)' = CallOf(q)
  PROVE  SerialLeavesOnce'
<1> SUFFICES ASSUME NEW q \in Req, NEW r \in Req, q # r, NEW s \in left[q] \cap left[r]
             PROVE  /\ CallOf(q)'.row # CallOf(r)'.row
                    /\ <<"serial", s>> \in disturbed'[q] \cup disturbed'[r]
  BY DEF SerialLeavesOnce
<1>1. CallOf(q)' = CallOf(q) /\ CallOf(r)' = CallOf(r)
  OBVIOUS
<1>2. CallOf(q).row # CallOf(r).row /\ <<"serial", s>> \in disturbed[q] \cup disturbed[r]
  BY DEF SerialLeavesOnce
<1> QED BY <1>1, <1>2 DEF Remembers

\* A step outside the transactions that writes nothing keeps it all, and so does
\* an end without a commit.
LEMMA NothingTaken ==
  ASSUME SerialInv, NEW r \in Req, NEW P, StepsTo(r, P), Remembers,
         ~InTransaction(r)',
         DOMAIN writes' = Req, writes'[r] = Empty, \A q \in Req \ {r} : writes'[q] = writes[q],
         UNCHANGED <<serials, left>>
  PROVE  SerialInv'
<1>0. /\ Placed'
      /\ \A q \in Req : CallOf(q)' = CallOf(q)
      /\ \A q \in Req \ {r} : /\ job'[q] = job[q]
                              /\ InTransaction(q)' = InTransaction(q)
  BY PlacedKept DEF SerialInv
<1>1. WritesLeave'
  BY <1>0 DEF SerialInv, WritesLeave, Empty
<1>2. LeftIssued'
  BY DEF SerialInv, LeftIssued
<1>3. RowsApart'
  BY <1>0 DEF SerialInv, RowsApart
<1>4. \A q \in Req \ {r} : \A s : Taking(q, s)' = Taking(q, s)
  BY <1>0 DEF Taking, At, Pos
<1>5. TakenMeanwhile'
  BY <1>0, <1>4 DEF SerialInv, TakenMeanwhile, Remembers
<1>6. SerialLeavesOnce'
  BY <1>0, NothingLeaves DEF SerialInv
<1> QED BY <1>0, <1>1, <1>2, <1>3, <1>5, <1>6 DEF SerialInv

LEMMA AtDeskKeeps ==
  ASSUME SerialInv, NEW r \in Req, AtDesk(r), UNCHANGED serVars
  PROVE  SerialInv'
<1>1. StepsTo(r, Operations \cup Desk) /\ Remembers
  BY DEF AtDesk
<1>2. ~InTransaction(r) /\ ~InTransaction(r)'
  BY DEF AtDesk, InTransaction, Transaction
<1>3. writes[r] = Empty /\ DOMAIN writes = Req
  BY <1>2 DEF SerialInv, WritesLeave
<1> QED BY <1>1, <1>2, <1>3, NothingTaken DEF serVars

LEMMA AbortKeeps ==
  ASSUME SerialInv, NEW r \in Req, Underway(r), Abort(r), Quiet, UNCHANGED <<serials, left>>
  PROVE  SerialInv'
<1>1. StepsTo(r, {"refused"}) /\ Remembers
  BY ControlSteps, ObservationSteps DEF SerialInv, Abort
<1>2. ~InTransaction(r)'
  BY <1>1 DEF StepsTo, InTransaction, Transaction
<1>3. /\ DOMAIN writes' = Req /\ writes'[r] = Empty
      /\ \A q \in Req \ {r} : writes'[q] = writes[q]
  BY DEF SerialInv, WritesLeave, Abort
<1> QED BY <1>1, <1>2, <1>3, NothingTaken

\* A registration makes no number that has left available.
LEMMA RegisterKeeps ==
  ASSUME SerialInv, NEW r \in Req, Register(r)
  PROVE  SerialInv'
<1>1. StepsTo(r, {"register", "done", "refused"}) /\ Remembers
  BY ControlSteps, ObservationSteps DEF SerialInv, Register, StepsTo, At, Underway
<1>2. /\ ~InTransaction(r) /\ ~InTransaction(r)'
      /\ UNCHANGED <<writes, left>>
  BY <1>1 DEF Register, At, StepsTo, InTransaction, Transaction
<1>3. /\ Placed'
      /\ \A q \in Req : CallOf(q)' = CallOf(q)
      /\ \A q \in Req \ {r} : /\ job'[q] = job[q]
                              /\ InTransaction(q)' = InTransaction(q)
  BY <1>1, PlacedKept DEF SerialInv
<1>4. WritesLeave'
  BY <1>2, <1>3 DEF SerialInv, WritesLeave
<1>5. \A s \in DOMAIN serials : s \in DOMAIN serials' /\ serials'[s] = serials[s]
  BY DEF Register, SetAt
<1>6. LeftIssued'
  BY <1>2, <1>5 DEF SerialInv, LeftIssued
<1>7. RowsApart'
  BY <1>2, <1>3 DEF SerialInv, RowsApart
<1>8. \A q \in Req \ {r} : \A s : Taking(q, s)' = Taking(q, s)
  BY <1>2, <1>3 DEF Taking, At, Pos
<1>9. TakenMeanwhile'
  BY <1>1, <1>2, <1>3, <1>8 DEF SerialInv, TakenMeanwhile, Remembers
<1>10. SerialLeavesOnce'
  BY <1>1, <1>2, <1>3, NothingLeaves DEF SerialInv
<1> QED BY <1>3, <1>4, <1>6, <1>7, <1>9, <1>10 DEF SerialInv

\* A step within the transactions that writes at most one number, which r was
\* taking, and takes at most one that has not left.
LEMMA TransactionKeeps ==
  ASSUME SerialInv, NEW r \in Req, StepsTo(r, Transaction), Quiet,
         UNCHANGED <<serials, left>>,
         DOMAIN writes' = Req, \A q \in Req \ {r} : writes'[q] = writes[q],
         \A s \in DOMAIN writes'[r] : writes'[r][s].status = "issued",
         \A q \in Req \ {r} : InTransaction(q) => CallOf(q).row # CallOf(r).row,
         \A q \in Req \ {r} : \A s \in left[q] :
           Taking(r, s)' => InTransaction(r) /\ Taking(r, s)
  PROVE  SerialInv'
<1>1. Remembers
  BY ObservationSteps DEF SerialInv
<1>2. /\ Placed'
      /\ \A q \in Req : CallOf(q)' = CallOf(q)
      /\ \A q \in Req \ {r} : /\ job'[q] = job[q]
                              /\ InTransaction(q)' = InTransaction(q)
  BY <1>1, PlacedKept DEF SerialInv
<1>3. InTransaction(r)'
  BY DEF StepsTo, InTransaction, Transaction
<1>4. WritesLeave'
  BY <1>2, <1>3 DEF SerialInv, WritesLeave
<1>5. LeftIssued'
  BY DEF SerialInv, LeftIssued
<1>6. RowsApart'
  BY <1>2 DEF SerialInv, RowsApart
<1>7. TakenMeanwhile'
  <2> SUFFICES ASSUME NEW q \in Req, NEW p \in Req, q # p, InTransaction(p)',
                      NEW s \in left[q], Taking(p, s)'
               PROVE  (CallOf(q).row # CallOf(p).row /\ <<"serial", s>> \in disturbed[p])'
    BY DEF TakenMeanwhile
  <2>1. CASE p = r
    <3>1. InTransaction(p) /\ Taking(p, s)
      BY <2>1
    <3> QED BY <1>1, <1>2, <3>1 DEF SerialInv, TakenMeanwhile, Remembers
  <2>2. CASE p # r
    <3>1. InTransaction(p) /\ Taking(p, s)
      BY <1>2, <2>2 DEF Taking, At, Pos
    <3> QED BY <1>1, <1>2, <3>1 DEF SerialInv, TakenMeanwhile, Remembers
  <2> QED BY <2>1, <2>2
<1>8. SerialLeavesOnce'
  BY <1>1, <1>2, NothingLeaves DEF SerialInv
<1> QED BY <1>2, <1>4, <1>5, <1>6, <1>7, <1>8 DEF SerialInv

LEMMA BeginKeeps ==
  ASSUME SerialInv, NEW r \in Req, Begin(r)
  PROVE  SerialInv'
<1>0. /\ Placed /\ WritesLeave /\ Quiet /\ UNCHANGED <<serials, writes, left>>
      /\ job[r].at \in {"issue", "ship"} /\ "pos" \in DOMAIN job[r]
  BY DEF SerialInv, Begin, serVars, WritesLeave, Placed, Shape
<1>1. CASE Refuse(r)
  <2>1. AtDesk(r)
    BY <1>0, <1>1, DeskSteps, ControlSteps, ObservationSteps
       DEF StepsTo, Desk, Transaction, Underway
  <2> QED BY <1>0, <2>1, AtDeskKeeps DEF serVars
<1>2. CASE Go(r, "findSerial")
  <2>1. StepsTo(r, Transaction)
    BY <1>0, <1>2, ControlSteps DEF StepsTo, Transaction, Go, Placed, At, Underway
  <2>2. ~InTransaction(r) /\ writes[r] = Empty
    BY <1>0 DEF WritesLeave, InTransaction
  <2>3. \A s : ~Taking(r, s)'
    BY <1>0, <2>1, <2>2, <1>2 DEF Taking, At, Empty, Go, Placed
  <2>4. \A q \in Req : InTransaction(q) => CallOf(q).row # CallOf(r).row
    BY DEF Begin
  <2> QED BY <1>0, <2>1, <2>2, <2>3, <2>4, TransactionKeeps DEF WritesLeave, Empty
<1> QED BY <1>1, <1>2 DEF Begin

\* What r finds free has not left: nothing that has is available, or unknown.
LEMMA FindSerialKeeps ==
  ASSUME SerialInv, NEW r \in Req, FindSerial(r)
  PROVE  SerialInv'
<1> DEFINE c == CallOf(r)
           found == Seen(r, c.serials[Pos(r)])
<1>0. /\ Placed /\ WritesLeave /\ LeftIssued /\ RowsApart /\ Quiet
      /\ At(r, "findSerial") /\ InTransaction(r) /\ "pos" \in DOMAIN job[r]
  BY DEF SerialInv, FindSerial, At, InTransaction, WritesLeave, Transaction, Placed, Shape
<1>1. \A q \in Req \ {r} : InTransaction(q) => CallOf(q).row # CallOf(r).row
  BY <1>0 DEF RowsApart
<1>2. CASE Abort(r) /\ UNCHANGED <<serials, left>>
  BY <1>0, <1>2, AbortKeeps DEF At, Underway
<1>3. CASE Go(r, "commit") /\ UNCHANGED serVars
  <2>1. StepsTo(r, Transaction) /\ job'[r].at = "commit"
    BY <1>0, <1>3, ControlSteps DEF StepsTo, Transaction, Go, Placed, At, Underway
  <2>2. UNCHANGED <<serials, writes, left>>
    BY <1>3 DEF serVars
  <2>3. \A s : Taking(r, s)' => Taking(r, s)
    BY <2>1, <2>2 DEF Taking, At
  <2> QED BY <1>0, <1>1, <2>1, <2>2, <2>3, TransactionKeeps DEF WritesLeave
<1>4. CASE /\ GoWith(r, "writeSerial", found) /\ UNCHANGED serVars
           /\ Shippable(found, c.material) \/ Issuable(found, c.material)
  <2>1. /\ StepsTo(r, Transaction)
        /\ CallOf(r)' = CallOf(r) /\ Pos(r)' = Pos(r)
    BY <1>0, <1>4, ControlSteps DEF StepsTo, Transaction, GoWith, Placed, CallOf, Pos, At, Underway
  <2>2. UNCHANGED <<serials, writes, left>>
    BY <1>4 DEF serVars
  <2>3. found.status # "issued"
    BY <1>4 DEF Shippable, Issuable
  <2>4. ASSUME NEW q \in Req \ {r}, NEW s \in left[q], Taking(r, s)'
        PROVE  Taking(r, s)
    <3>1. CASE s = c.serials[Pos(r)]
      <4>1. serials[s].status = "issued" /\ s \in DOMAIN serials
        BY <1>0 DEF LeftIssued
      <4>2. s \in DOMAIN writes[r] => writes[r][s].status = "issued"
        BY <1>0 DEF WritesLeave
      <4> QED BY <2>3, <3>1, <4>1, <4>2 DEF Seen
    <3>2. CASE s # c.serials[Pos(r)]
      BY <2>1, <2>2, <2>4, <3>2 DEF Taking
    <3> QED BY <3>1, <3>2
  <2> QED BY <1>0, <1>1, <2>1, <2>2, <2>4, TransactionKeeps DEF WritesLeave
<1> QED BY <1>2, <1>3, <1>4 DEF FindSerial

LEMMA WriteSerialKeeps ==
  ASSUME SerialInv, NEW r \in Req, WriteSerial(r)
  PROVE  SerialInv'
<1> DEFINE c == CallOf(r)
           s == c.serials[Pos(r)]
           w == [material |-> c.material, status |-> "issued"]
<1>0. /\ Placed /\ WritesLeave /\ RowsApart /\ Quiet /\ UNCHANGED <<serials, left>>
      /\ At(r, "writeSerial") /\ InTransaction(r) /\ "pos" \in DOMAIN job[r]
  BY DEF SerialInv, WriteSerial, At, InTransaction, WritesLeave, Transaction, Placed, Shape
<1>1. CASE Abort(r)
  BY <1>0, <1>1, AbortKeeps DEF At, Underway
<1>2. CASE /\ writes' = [writes EXCEPT ![r] = SetAt(@, s, w)]
           /\ GoTo(r, "findSerial", Pos(r) + 1)
  <2>1. /\ StepsTo(r, Transaction) /\ job'[r].at = "findSerial"
    BY <1>0, <1>2, ControlSteps DEF StepsTo, Transaction, GoTo, Placed, At, Underway
  <2>2. /\ DOMAIN writes' = Req
        /\ \A q \in Req \ {r} : writes'[q] = writes[q]
        /\ writes'[r] = SetAt(writes[r], s, w)
    BY <1>0, <1>2 DEF WritesLeave
  <2>3. DOMAIN writes'[r] = DOMAIN writes[r] \cup {s}
    BY <2>2 DEF SetAt
  <2>4. \A x \in DOMAIN writes'[r] : writes'[r][x].status = "issued"
    BY <1>0, <2>2, <2>3 DEF SetAt, WritesLeave
  <2>5. \A x : Taking(r, x)' => Taking(r, x)
    BY <1>0, <2>1, <2>3 DEF Taking, At
  <2>6. \A q \in Req \ {r} : InTransaction(q) => CallOf(q).row # CallOf(r).row
    BY <1>0 DEF RowsApart
  <2> QED BY <1>0, <2>1, <2>2, <2>4, <2>5, <2>6, TransactionKeeps
<1> QED BY <1>1, <1>2 DEF WriteSerial

\* A commit: what another has left with by then was found free before, and what
\* another is taking is now known to have left meanwhile.
LEMMA CommitSerialsKeeps ==
  ASSUME SerialInv, NEW r \in Req, CommitSerials(r)
  PROVE  SerialInv'
<1> DEFINE mine == DOMAIN writes[r]
<1>0. /\ Placed /\ WritesLeave /\ LeftIssued /\ RowsApart /\ TakenMeanwhile /\ SerialLeavesOnce
      /\ At(r, "commit") /\ InTransaction(r)
  BY DEF SerialInv, CommitSerials, At, InTransaction
<1>1. StepsTo(r, {"done"}) /\ Remembers
  BY <1>0, ControlSteps, ObservationSteps DEF CommitSerials, At, Underway
<1>2. ~InTransaction(r)'
  BY <1>1 DEF StepsTo, InTransaction, Transaction
<1>3. /\ Placed'
      /\ \A q \in Req : CallOf(q)' = CallOf(q)
      /\ \A q \in Req \ {r} : /\ job'[q] = job[q]
                              /\ InTransaction(q)' = InTransaction(q)
  BY <1>0, <1>1, PlacedKept
<1>4. /\ DOMAIN writes' = Req /\ writes'[r] = Empty /\ DOMAIN left' = Req /\ left'[r] = mine
      /\ \A q \in Req \ {r} : writes'[q] = writes[q] /\ left'[q] = left[q]
      /\ serials' = Overlay(writes[r], serials)
  BY <1>0 DEF WritesLeave, CommitSerials
<1>5. /\ DOMAIN serials' = mine \cup DOMAIN serials
      /\ \A s \in DOMAIN serials' : serials'[s] = IF s \in mine THEN writes[r][s] ELSE serials[s]
  BY <1>4 DEF Overlay
<1>6. WritesLeave'
  BY <1>0, <1>2, <1>3, <1>4 DEF WritesLeave, Empty
<1>7. LeftIssued'
  <2>1. \A s \in mine : writes[r][s].status = "issued"
    BY <1>0 DEF WritesLeave
  <2> QED BY <1>0, <1>4, <1>5, <2>1 DEF LeftIssued
<1>8. RowsApart'
  BY <1>0, <1>2, <1>3 DEF RowsApart
<1>9. TakenMeanwhile'
  <2> SUFFICES ASSUME NEW q \in Req, NEW p \in Req, q # p, InTransaction(p)',
                      NEW s \in left'[q], Taking(p, s)'
               PROVE  (CallOf(q).row # CallOf(p).row /\ <<"serial", s>> \in disturbed[p])'
    BY DEF TakenMeanwhile
  <2>1. p # r /\ InTransaction(p)
    BY <1>2, <1>3
  <2>2. Taking(p, s)
    BY <1>3, <1>4, <2>1 DEF Taking, At, Pos
  <2>3. CASE q = r
    <3>1. s \in mine /\ Underway(p)
      BY <1>4, <2>1, <2>3 DEF InTransaction, Underway
    <3>2. <<"serial", s>> \in disturbed'[p]
      BY <2>1, <3>1 DEF CommitSerials, Commits
    <3> QED BY <1>0, <1>3, <2>1, <2>3, <3>2 DEF RowsApart
  <2>4. CASE q # r
    BY <1>0, <1>1, <1>3, <1>4, <2>1, <2>2, <2>4 DEF TakenMeanwhile, Remembers
  <2> QED BY <2>3, <2>4
<1>10. SerialLeavesOnce'
  <2>1. ASSUME NEW q \in Req, q # r, NEW s \in left[q] \cap mine
        PROVE  CallOf(q).row # CallOf(r).row /\ <<"serial", s>> \in disturbed'[r]
    <3>1. Taking(r, s)
      BY <2>1 DEF Taking
    <3> QED BY <1>0, <1>1, <2>1, <3>1 DEF TakenMeanwhile, Remembers
  <2> SUFFICES ASSUME NEW q \in Req, NEW p \in Req, q # p, NEW s \in left'[q] \cap left'[p]
               PROVE  /\ CallOf(q).row # CallOf(p).row
                      /\ <<"serial", s>> \in disturbed'[q] \cup disturbed'[p]
    BY <1>3 DEF SerialLeavesOnce
  <2>2. CASE q = r
    BY <1>4, <2>1, <2>2
  <2>3. CASE p = r
    BY <1>4, <2>1, <2>3
  <2>4. CASE q # r /\ p # r
    BY <1>0, <1>1, <1>4, <2>4 DEF SerialLeavesOnce, Remembers
  <2> QED BY <2>2, <2>3, <2>4
<1> QED BY <1>3, <1>6, <1>7, <1>8, <1>9, <1>10 DEF SerialInv

----------------------------------------------------------------------------
(* The theorem. *)

LEMMA SerialInvInit == BackOfficeInit => SerialInv
<1> SUFFICES ASSUME BackOfficeInit PROVE SerialInv
  OBVIOUS
<1>1. PICK mix \in Mix0 : HandlersInit(mix)
  BY DEF BackOfficeInit
<1>2. writes = [r \in Req |-> Empty] /\ left = [r \in Req |-> {}]
  BY DEF BackOfficeInit, SerialsInit
<1>3. Placed
  BY <1>1, BackOfficeConstants DEF HandlersInit, Placed, Shape, Op, CallOf
<1>4. \A r \in Req : job[r].at = "waiting"
  BY <1>1 DEF HandlersInit
<1>5. WritesLeave
  BY <1>2, <1>4 DEF WritesLeave, Transaction, Empty
<1>6. RowsApart /\ TakenMeanwhile
  BY <1>4 DEF RowsApart, TakenMeanwhile, InTransaction
<1> QED BY <1>2, <1>3, <1>5, <1>6 DEF SerialInv, LeftIssued, SerialLeavesOnce

LEMMA SerialInvStep == SerialInv /\ [Next]_vars => SerialInv'
<1> SUFFICES ASSUME SerialInv, [Next]_vars PROVE SerialInv'
  OBVIOUS
<1>0. Placed
  BY DEF SerialInv
<1>1. ASSUME NEW r \in Req, Step(r) PROVE SerialInv'
  <2>1. \/ SerialsStep(r)
        \/ /\ Enter(r) \/ ProductionStep(r) \/ Analyze(r) \/ AccountsStep(r)
           /\ UNCHANGED serVars
    BY <1>1 DEF Step
  <2>2. CASE SerialsStep(r)
    <3>1. CASE EndCircle(r)
      <4>1. Underway(r)
        BY <3>1 DEF EndCircle, InCircle, WaitsFor, At, Underway
      <4> QED BY <3>1, <4>1, AbortKeeps DEF EndCircle
    <3> QED BY <2>2, <3>1, RegisterKeeps, BeginKeeps, FindSerialKeeps, WriteSerialKeeps,
               CommitSerialsKeeps DEF SerialsStep
  <2>3. CASE /\ Enter(r) \/ ProductionStep(r) \/ Analyze(r) \/ AccountsStep(r)
             /\ UNCHANGED serVars
    BY <1>0, <2>3, AtDeskKeeps, EnterAtDesk, OthersAtDesk, ProductionHops, ReportHops, AccountsHops
  <2> QED BY <2>1, <2>2, <2>3
<1>2. CASE UNCHANGED vars
  BY <1>2 DEF vars, SerialInv, Placed, WritesLeave, LeftIssued, RowsApart, TakenMeanwhile,
              SerialLeavesOnce, Taking, InTransaction, At, CallOf, Op, Pos
<1> QED BY <1>1, <1>2 DEF Next, Finished

\* A serial number leaves with two documents only if they moved different rows of
\* stock and one was committed while the other was underway
\* (dispatch.service.ts:193-211, issue.service.ts:268-301).
THEOREM LeavesOnceUnlessOverlap == Spec => []SerialLeavesOnce
<1>1. SerialInv => SerialLeavesOnce
  BY DEF SerialInv
<1> QED BY <1>1, SerialInvInit, SerialInvStep, PTL DEF Spec

----------------------------------------------------------------------------
(* What is booked. *)

\* A receipt is on a known invoice or on none.
ReceiptsKnown ==
  receipts \in [DOMAIN Receipts0 -> [invoice : DOMAIN invoices \cup {"none"}, booked : BOOLEAN]]

\* The places of a booking: what r is about to book had been verified, and still is.
Booking == {"readReceipts", "readBookings", "saveBooking"}

Checked(r) ==
  /\ job[r].at \in Booking => IsVerified(CallOf(r).number)
  /\ job[r].at \in Booking \ {"readReceipts"} => Saw(r) \subseteq DOMAIN receipts

\* What is booked is verified and marked, and stays so.
BookedAndMarked ==
  \A k \in DOMAIN bookings :
    /\ IsVerified(bookings[k].invoice)
    /\ \A g \in bookings[k].receipts : g \in DOMAIN receipts /\ receipts[g].booked

AccInv == BookInv /\ ReceiptsKnown /\ (\A r \in Req : Checked(r)) /\ BookedAndMarked

\* Nothing is unmarked, and no invoice loses its verification.
NothingUndone ==
  /\ DOMAIN receipts' = DOMAIN receipts
  /\ \A g \in DOMAIN receipts : receipts[g].booked => receipts'[g].booked
  /\ \A i : IsVerified(i) => IsVerified(i)'

LEMMA UndoneKeeps ==
  ASSUME AccInv, BookInv', NEW r \in Req, NEW P, StepsTo(r, P), job'[r].at \notin Booking,
         ReceiptsKnown', NothingUndone, UNCHANGED bookings
  PROVE  AccInv'
<1>1. ASSUME NEW q \in Req, q # r PROVE Checked(q)'
  BY <1>1 DEF AccInv, Checked, StepsTo, CallOf, Saw, NothingUndone
<1>2. Checked(r)'
  BY DEF Checked
<1>3. BookedAndMarked'
  BY DEF AccInv, BookedAndMarked, NothingUndone
<1> QED BY <1>1, <1>2, <1>3 DEF AccInv

LEMMA OthersUndo ==
  ASSUME AccInv, BookInv', NEW r \in Req, NEW P, StepsTo(r, P), job'[r].at \notin Booking,
         UNCHANGED accVars
  PROVE  AccInv'
BY UndoneKeeps DEF accVars, AccInv, ReceiptsKnown, NothingUndone, IsVerified

\* A receipt that changes keeps its shape.
LEMMA ReceiptChange ==
  ASSUME NEW x, NEW I, x \in [invoice : I \cup {"none"}, booked : BOOLEAN], NEW i \in I
  PROVE  /\ [x EXCEPT !.booked = TRUE] \in [invoice : I \cup {"none"}, booked : BOOLEAN]
         /\ [x EXCEPT !.booked = TRUE].booked
         /\ [x EXCEPT !.invoice = i] \in [invoice : I \cup {"none"}, booked : BOOLEAN]
         /\ [x EXCEPT !.invoice = i].booked = x.booked
OBVIOUS

LEMMA AccountsUndo ==
  ASSUME AccInv, BookInv', NEW r \in Req, AccountsStep(r)
  PROVE  AccInv'
<1> DEFINE I == DOMAIN invoices
           R == [invoice : I \cup {"none"}, booked : BOOLEAN]
           i == CallOf(r).number
<1>0. /\ Placed /\ AccountsHop(r)
      /\ receipts \in [DOMAIN Receipts0 -> R] /\ DOMAIN receipts = DOMAIN Receipts0
  BY AccountsHops DEF AccInv, BookInv, ReceiptsKnown
<1>1. CASE AttachInvoice(r) \/ VerifyInvoice(r) \/ MarkBooked(r)
  <2>1. At(r, "attach") \/ At(r, "verify") \/ At(r, "mark")
    BY <1>1 DEF AttachInvoice, VerifyInvoice, MarkBooked
  <2>2. StepsTo(r, {"connect", "setVerified", "setBooked", "refused"})
    BY <1>0, <2>1 DEF AccountsHop, Hop, StepsTo, At
  <2>3. UNCHANGED accVars
    BY <1>1 DEF AttachInvoice, VerifyInvoice, MarkBooked
  <2> QED BY <2>2, <2>3, OthersUndo DEF StepsTo, Booking
<1>2. CASE ConnectReceipts(r)
  <2>1. StepsTo(r, {"done", "refused"})
    BY <1>0, <1>2, ControlSteps DEF ConnectReceipts, StepsTo, At, Underway
  <2>2. CASE i \in DOMAIN invoices
    BY <1>2, <2>1, <2>2, OthersUndo DEF ConnectReceipts, accVars, StepsTo, Booking
  <2>3. CASE i \notin DOMAIN invoices
    <3>1. /\ DOMAIN invoices' = I \cup {i}
          /\ \A j \in I : invoices'[j] = invoices[j]
      BY <1>2, <2>3 DEF ConnectReceipts, SetAt
    <3>2. /\ UNCHANGED bookings
          /\ receipts' = [g \in DOMAIN receipts |->
                            IF g \in CallOf(r).receipts THEN [receipts[g] EXCEPT !.invoice = i]
                            ELSE receipts[g]]
      BY <1>2, <2>3 DEF ConnectReceipts
    <3>3. \A g \in DOMAIN receipts :
            /\ receipts'[g] \in [invoice : DOMAIN invoices' \cup {"none"}, booked : BOOLEAN]
            /\ receipts'[g].booked = receipts[g].booked
      BY <1>0, <3>1, <3>2
    <3>4. ReceiptsKnown'
      BY <1>0, <3>2, <3>3 DEF ReceiptsKnown
    <3>5. NothingUndone
      BY <3>1, <3>2, <3>3 DEF NothingUndone, IsVerified
    <3> QED BY <2>1, <3>2, <3>4, <3>5, UndoneKeeps DEF StepsTo, Booking
  <2> QED BY <2>2, <2>3
<1>3. CASE SetVerified(r)
  <2>1. StepsTo(r, {"done"})
    BY <1>0, <1>3, ControlSteps DEF SetVerified, At, Underway
  <2>2. /\ UNCHANGED <<receipts, bookings>> /\ DOMAIN invoices' = DOMAIN invoices
        /\ \A j \in I : invoices'[j] = invoices[j] \/ invoices'[j] = "verified"
    BY <1>3 DEF SetVerified
  <2> QED BY <1>0, <2>1, <2>2, UndoneKeeps
          DEF StepsTo, Booking, ReceiptsKnown, NothingUndone, IsVerified
<1>4. CASE BookPurchase(r) \/ ReadReceipts(r) \/ ReadBookings(r)
  <2>0. UNCHANGED accVars
    BY <1>4 DEF BookPurchase, ReadReceipts, ReadBookings
  <2>1. StepsTo(r, Booking \cup {"refused"})
    BY <1>0, <1>4 DEF AccountsHop, Hop, At, StepsTo, Booking, BookPurchase, ReadReceipts, ReadBookings
  <2>2. UNCHANGED <<receipts, invoices, bookings>>
    BY <2>0 DEF accVars
  <2>3. Checked(r)'
    <3>1. CASE BookPurchase(r)
      <4>1. (job'[r].at = "readReceipts" /\ IsVerified(i)) \/ job'[r].at = "refused"
        BY <1>0, <3>1, ControlSteps DEF BookPurchase, At, Underway, StepsTo
      <4> QED BY <2>1, <2>2, <4>1 DEF Checked, Booking, IsVerified, StepsTo, CallOf
    <3>2. CASE ReadReceipts(r)
      <4>1. Saw(r)' = ReceiptsOf(i) /\ CallOf(r)' = CallOf(r) /\ IsVerified(i)
        BY <1>0, <3>2 DEF ReadReceipts, GoWith, Saw, CallOf, Placed, Shape, At, AccInv, Checked, Booking
      <4> QED BY <2>2, <4>1 DEF Checked, IsVerified, ReceiptsOf
    <3>3. CASE ReadBookings(r)
      <4>1. CASE Refuse(r)
        BY <1>0, <3>3, <4>1, ControlSteps DEF ReadBookings, At, Underway, StepsTo, Checked, Booking
      <4>2. CASE Go(r, "saveBooking")
        <5>1. Saw(r)' = Saw(r) /\ CallOf(r)' = CallOf(r)
          BY <1>0, <3>3, <4>2 DEF ReadBookings, Go, Saw, CallOf, Placed, Shape, At
        <5> QED BY <2>2, <3>3, <5>1 DEF AccInv, Checked, ReadBookings, At, Booking, IsVerified
      <4> QED BY <3>3, <4>1, <4>2 DEF ReadBookings
    <3> QED BY <1>4, <3>1, <3>2, <3>3
  <2>4. ASSUME NEW q \in Req, q # r PROVE Checked(q)'
    BY <2>1, <2>2, <2>4 DEF AccInv, Checked, StepsTo, CallOf, Saw, IsVerified
  <2>5. ReceiptsKnown' /\ BookedAndMarked'
    BY <2>2 DEF AccInv, ReceiptsKnown, BookedAndMarked, IsVerified
  <2> QED BY <2>3, <2>4, <2>5 DEF AccInv
<1>5. CASE SaveBooking(r)
  <2> DEFINE e == [invoice |-> i, receipts |-> Saw(r), by |-> r]
  <2>1. StepsTo(r, {"done"})
    BY <1>0, <1>5, ControlSteps DEF SaveBooking, At, Underway
  <2>2. /\ bookings' = Append(bookings, e) /\ UNCHANGED invoices
        /\ receipts' = [g \in DOMAIN receipts |->
                          IF g \in Saw(r) THEN [receipts[g] EXCEPT !.booked = TRUE]
                          ELSE receipts[g]]
        /\ IsVerified(i) /\ Saw(r) \subseteq DOMAIN receipts
    BY <1>5 DEF SaveBooking, AccInv, Checked, At, Booking
  <2>3. /\ DOMAIN bookings' = 1..(Len(bookings) + 1) /\ DOMAIN bookings = 1..Len(bookings)
        /\ Len(bookings) \in Nat /\ bookings'[Len(bookings) + 1] = e
        /\ \A k \in DOMAIN bookings : bookings'[k] = bookings[k]
    BY <2>2, Booked DEF AccInv, BookInv
  <2>4. \A g \in DOMAIN receipts :
          /\ receipts'[g] \in R
          /\ receipts[g].booked \/ g \in Saw(r) => receipts'[g].booked
    BY <1>0, <2>2
  <2>5. ReceiptsKnown'
    BY <1>0, <2>2, <2>4 DEF ReceiptsKnown
  <2>6. \A j : IsVerified(j) => IsVerified(j)'
    BY <2>2 DEF IsVerified
  <2>7. BookedAndMarked'
    <3> SUFFICES ASSUME NEW k \in DOMAIN bookings'
                 PROVE  (/\ IsVerified(bookings[k].invoice)
                         /\ \A g \in bookings[k].receipts : g \in DOMAIN receipts /\ receipts[g].booked)'
      BY DEF BookedAndMarked
    <3>1. CASE k \in DOMAIN bookings
      BY <2>2, <2>3, <2>4, <2>6, <3>1 DEF AccInv, BookedAndMarked
    <3>2. CASE k = Len(bookings) + 1
      BY <2>2, <2>3, <2>4, <2>6, <3>2
    <3> QED BY <2>3, <3>1, <3>2
  <2>8. ASSUME NEW q \in Req PROVE Checked(q)'
    <3>1. CASE q = r
      BY <2>1, <3>1 DEF Checked, StepsTo, Booking
    <3>2. CASE q # r
      BY <2>1, <2>2, <2>6, <3>2 DEF AccInv, Checked, StepsTo, CallOf, Saw
    <3> QED BY <3>1, <3>2
  <2> QED BY <2>5, <2>7, <2>8 DEF AccInv
<1>6. CASE SetBooked(r)
  <2>1. StepsTo(r, {"done"})
    BY <1>0, <1>6, ControlSteps DEF SetBooked, At, Underway
  <2>2. /\ UNCHANGED <<invoices, bookings>>
        /\ DOMAIN receipts' = DOMAIN receipts
        /\ \A g \in DOMAIN receipts :
             receipts'[g] = receipts[g] \/ receipts'[g] = [receipts[g] EXCEPT !.booked = TRUE]
    BY <1>6 DEF SetBooked
  <2>3. \A g \in DOMAIN receipts : receipts'[g] \in R /\ (receipts[g].booked => receipts'[g].booked)
    BY <1>0, <2>2
  <2>4. receipts' = [g \in DOMAIN receipts |-> receipts'[g]]
    BY <1>6 DEF SetBooked
  <2>5. ReceiptsKnown'
    BY <1>0, <2>2, <2>3, <2>4 DEF ReceiptsKnown
  <2> QED BY <2>1, <2>2, <2>3, <2>5, UndoneKeeps DEF StepsTo, Booking, NothingUndone, IsVerified
<1> QED BY <1>1, <1>2, <1>3, <1>4, <1>5, <1>6
        DEF AccountsStep

LEMMA AccInvInit == BackOfficeInit => AccInv
<1> SUFFICES ASSUME BackOfficeInit PROVE AccInv
  OBVIOUS
<1>1. receipts = Receipts0 /\ invoices = Invoices0 /\ bookings = <<>>
  BY DEF BackOfficeInit, AccountsInit
<1>2. \A r \in Req : job[r].at = "waiting"
  BY DEF BackOfficeInit, HandlersInit
<1> QED BY <1>1, <1>2, BookInvInit, AccountsConstants
        DEF AccInv, ReceiptsKnown, Checked, Booking, BookedAndMarked

LEMMA AccInvStep == AccInv /\ [Next]_vars => AccInv'
<1> SUFFICES ASSUME AccInv, [Next]_vars PROVE AccInv'
  OBVIOUS
<1>0. Placed /\ BookInv'
  BY BookInvStep DEF AccInv, BookInv
<1>1. ASSUME NEW r \in Req, Step(r) PROVE AccInv'
  <2>1. \/ AccountsStep(r)
        \/ /\ Enter(r) \/ ProductionStep(r) \/ Analyze(r) \/ SerialsStep(r)
           /\ UNCHANGED accVars
    BY <1>1 DEF Step
  <2>2. CASE /\ Enter(r) \/ ProductionStep(r) \/ Analyze(r) \/ SerialsStep(r)
             /\ UNCHANGED accVars
    <3>1. Aside(r)
      BY <1>0, <2>2, OthersAside, EnterHop, ProductionHops, ReportHops, SerialsHops DEF accVars
    <3>2. \/ Hop(r, "waiting", {Op(r)}) /\ Op(r) \in Operations
          \/ ProductionHop(r) \/ Hop(r, "aging", {"done"}) \/ SerialsHop(r)
      BY <1>0, <2>2, EnterHop, ProductionHops, ReportHops, SerialsHops DEF Placed
    <3>3. job'[r].at \notin Booking
      BY <3>2 DEF Hop, ProductionHop, SerialsHop, StepsTo, Booking, Operations
    <3> QED BY <1>0, <2>2, <3>1, <3>3, OthersUndo DEF Aside
  <2> QED BY <1>0, <2>1, <2>2, AccountsUndo
<1>2. CASE UNCHANGED vars
  BY <1>0, <1>2 DEF vars, AccInv, ReceiptsKnown, Checked, At, CallOf, Saw, IsVerified,
                    BookedAndMarked
<1> QED BY <1>1, <1>2 DEF Next, Finished

----------------------------------------------------------------------------
(* Quantities of picks and of reservations. *)

\* The sum over a list is that over its numbers.
LEMMA QuantitiesOf ==
  ASSUME NEW s, s \in Seq({s[i] : i \in DOMAIN s}), \A i \in DOMAIN s : s[i].qty \in Int
  PROVE  /\ DOMAIN s = 1..Len(s) /\ Len(s) \in Nat /\ IsFiniteSet(DOMAIN s)
         /\ DOMAIN Quantities(s) = DOMAIN s
         /\ \A i \in DOMAIN s : Quantities(s)[i] = s[i].qty
         /\ Total(s) \in Int
<1>1. DOMAIN s = 1..Len(s) /\ Len(s) \in Nat
  BY LenProperties
<1>2. IsFiniteSet(DOMAIN s)
  BY <1>1, FS_Interval
<1>3. \A i \in DOMAIN s : Quantities(s)[i] \in Int
  BY DEF Quantities
<1>4. Total(s) \in Int
  BY <1>2, <1>3, SumInt DEF Total
<1> QED BY <1>1, <1>2, <1>4 DEF Quantities

\* A list is one of its own members.
LEMMA OwnMembers ==
  ASSUME NEW T, NEW s \in Seq(T)
  PROVE  /\ s \in Seq({s[i] : i \in DOMAIN s})
         /\ DOMAIN s = 1..Len(s) /\ Len(s) \in Nat
         /\ \A i \in DOMAIN s : s[i] \in T
<1>1. DOMAIN s = 1..Len(s) /\ Len(s) \in Nat /\ s \in [1..Len(s) -> T]
  BY LenProperties
<1>2. s \in [1..Len(s) -> {s[i] : i \in DOMAIN s}]
  BY <1>1
<1> QED BY <1>1, <1>2, SeqDef

LEMMA TotalTail ==
  ASSUME NEW T, \A x \in T : x.qty \in Int, NEW s \in Seq(T), s # <<>>
  PROVE  Total(s) = Head(s).qty + Total(Tail(s)) /\ Total(Tail(s)) \in Int
<1> DEFINE t == Tail(s)
           n == Len(t)
<1>1. /\ Len(s) \in Nat /\ n \in Nat /\ Len(s) = n + 1 /\ t \in Seq(T)
      /\ DOMAIN s = 1..(n + 1) /\ DOMAIN t = 1..n
      /\ \A i \in 1..n : t[i] = s[i + 1]
      /\ Head(s) = s[1]
  BY HeadTailProperties, LenProperties
<1> HIDE DEF n, t
<1>2. /\ s \in Seq({s[i] : i \in DOMAIN s}) /\ t \in Seq({t[i] : i \in DOMAIN t})
      /\ (\A i \in DOMAIN s : s[i].qty \in Int) /\ (\A i \in DOMAIN t : t[i].qty \in Int)
  BY <1>1, OwnMembers
<1>3. Total(t) \in Int
  BY <1>2, QuantitiesOf
<1>4. /\ \A i \in 1..(n + 1) : Quantities(s)[i] = s[i].qty /\ Quantities(s)[i] \in Int
      /\ \A i \in 1..n : Quantities(t)[i] = Quantities(s)[i + 1]
  <2>1. \A i \in 1..(n + 1) : Quantities(s)[i] = s[i].qty /\ Quantities(s)[i] \in Int
    BY <1>1, <1>2 DEF Quantities
  <2>2. \A i \in 1..n : Quantities(t)[i] = t[i].qty
    BY <1>1 DEF Quantities
  <2>3. \A i \in 1..n : i + 1 \in 1..(n + 1)
    BY <1>1
  <2> QED BY <1>1, <2>1, <2>2, <2>3
<1>5. SumOver(Quantities(s), 1..(n + 1)) = Quantities(s)[1] + SumOver(Quantities(t), 1..n)
  BY <1>1, <1>4, SumShift
<1>6. Quantities(s)[1] = Head(s).qty
  BY <1>1, <1>4
<1> QED BY <1>1, <1>3, <1>5, <1>6 DEF Total, t

\* A pick that keeps its quantity keeps the sum.
LEMMA TotalRowFound ==
  ASSUME NEW T, \A x \in T : x.qty \in Int, NEW s \in Seq(T), s # <<>>,
         NEW y \in T, y.qty = Head(s).qty
  PROVE  /\ <<y>> \o Tail(s) \in Seq(T) /\ <<y>> \o Tail(s) # <<>>
         /\ Head(<<y>> \o Tail(s)) = y
         /\ Total(<<y>> \o Tail(s)) = Total(s)
<1> DEFINE u == <<y>> \o Tail(s)
<1>1. /\ u \in Seq(T) /\ u # <<>> /\ Head(u) = y
      /\ DOMAIN u = 1..Len(s) /\ DOMAIN s = 1..Len(s)
      /\ u[1] = y /\ s[1] = Head(s) /\ \A i \in 2..Len(s) : u[i] = s[i]
  OBVIOUS
<1>2. Quantities(u) = Quantities(s)
  <2>1. \A i \in DOMAIN s : u[i].qty = s[i].qty
    BY <1>1
  <2> QED BY <1>1, <2>1 DEF Quantities
<1> QED BY <1>1, <1>2 DEF Total

\* What precedes more picks is no less.
LEMMA PrefixMonotone ==
  ASSUME NEW f, NEW i \in Nat, NEW j \in Nat, i <= j, \A k \in 1..j : f[k] \in Nat
  PROVE  /\ SumOver(f, 1..i) \in Int /\ SumOver(f, 1..j) \in Int
         /\ SumOver(f, 1..i) <= SumOver(f, 1..j)
<1> DEFINE z == [k \in 1..j |-> 0]
<1>1. /\ 1..j = (1..i) \cup ((i + 1)..j) /\ (1..i) \cap ((i + 1)..j) = {}
      /\ IsFiniteSet(1..i) /\ IsFiniteSet((i + 1)..j) /\ IsFiniteSet(1..j)
  BY FS_Interval
<1>2. \A k \in (1..i) \cup ((i + 1)..j) : f[k] \in Int
  BY <1>1
<1>3. SumOver(f, 1..j) = SumOver(f, 1..i) + SumOver(f, (i + 1)..j)
  BY <1>1, <1>2, SumUnion
<1>4. SumOver(z, (i + 1)..j) = 0
  <2>1. \A k \in (i + 1)..j : z[k] = 0
    BY <1>1
  <2> QED BY <1>1, <2>1, SumZero
<1>5. SumOver(z, (i + 1)..j) <= SumOver(f, (i + 1)..j)
  <2>1. \A k \in (i + 1)..j : z[k] \in Int /\ f[k] \in Int /\ z[k] <= f[k]
    BY <1>1
  <2> HIDE DEF z
  <2> QED BY <1>1, <2>1, SumMonotone
<1>6. SumOver(f, 1..i) \in Int /\ SumOver(f, (i + 1)..j) \in Int
  BY <1>1, <1>2, SumInt
<1> QED BY <1>3, <1>4, <1>5, <1>6

\* The first rows are picked in order, and all but the last wholly.
InOrder(p, rows, m) ==
  \E n \in 0..m :
    /\ DOMAIN p = 1..n
    /\ \A i \in 1..n : p[i].row = rows[i]
    /\ \A i \in 1..(n - 1) : p[i].qty = stock[rows[i]]

\* The picks are from the first rows, of all but the last of which they leave
\* nothing; together, if they cover the quantity, they take no more than that.
LEMMA PicksSound ==
  ASSUME NEW T, \A row \in T : stock[row] \in Nat,
         NEW m \in Nat, NEW rows \in [1..m -> T], NEW need \in Int
  PROVE  /\ Picks(rows, need) \in Seq([row : T, qty : Nat])
         /\ Picks(rows, need) # <<>> /\ Total(Picks(rows, need)) >= need =>
              Total(Picks(rows, need)) = need
         /\ InOrder(Picks(rows, need), rows, m)
<1> DEFINE have == [i \in DOMAIN rows |-> stock[rows[i]]]
           Rest(i) == need - SumOver(have, 1..(i - 1))
           C == {i \in DOMAIN rows : Rest(i) > 0}
           n == Cardinality(C)
           p == [i \in 1..n |-> [row |-> rows[i], qty |-> AtMost(have[i], Rest(i))]]
<1>1. DOMAIN rows = 1..m /\ \A i \in 1..m : have[i] \in Nat /\ rows[i] \in T
  OBVIOUS
<1>0. p = Picks(rows, need)
  BY DEF Picks
<1> HIDE DEF have, n, C
<1>2. ASSUME NEW i \in 1..m, NEW j \in 1..m, i <= j
      PROVE  /\ SumOver(have, 1..(i - 1)) \in Int
             /\ Rest(i) \in Int /\ Rest(j) \in Int /\ Rest(j) <= Rest(i)
  <2>1. i \in Nat /\ j \in Nat /\ i >= 1 /\ j >= 1
    OBVIOUS
  <2>0. i - 1 \in Nat /\ j - 1 \in Nat /\ i - 1 <= j - 1
    BY <2>1, <1>2
  <2>2. \A k \in 1..(j - 1) : have[k] \in Nat
    BY <1>1
  <2>3. /\ SumOver(have, 1..(i - 1)) \in Int /\ SumOver(have, 1..(j - 1)) \in Int
        /\ SumOver(have, 1..(i - 1)) <= SumOver(have, 1..(j - 1))
    BY <2>0, <2>2, PrefixMonotone
  <2> QED BY <2>3
<1>3. IsFiniteSet(C) /\ C \subseteq 1..m /\ n \in Nat /\ n <= m
  <2>1. IsFiniteSet(1..m) /\ Cardinality(1..m) = m
    BY FS_Interval
  <2> QED BY <1>1, <2>1, FS_Subset, FS_CardinalityType DEF C, n
<1>4. ASSUME NEW i \in 1..n PROVE i \in 1..m /\ Rest(i) > 0
  <2>1. i \in 1..m
    BY <1>3
  <2> SUFFICES ASSUME ~(Rest(i) > 0) PROVE FALSE
    BY <2>1
  <2>2. C \subseteq 1..(i - 1)
    <3> SUFFICES ASSUME NEW j \in C, ~(j < i) PROVE FALSE
      BY <1>3
    <3>1. j \in 1..m /\ i <= j /\ Rest(j) > 0
      BY <1>3, <2>1 DEF C
    <3>2. Rest(i) \in Int /\ Rest(j) \in Int /\ Rest(j) <= Rest(i)
      BY <1>2, <2>1, <3>1
    <3> QED BY <3>1, <3>2
  <2>3. IsFiniteSet(1..(i - 1)) /\ Cardinality(1..(i - 1)) = i - 1
    BY FS_Interval
  <2>4. n <= i - 1
    <3>1. Cardinality(C) <= Cardinality(1..(i - 1))
      BY <2>2, <2>3, FS_Subset
    <3> QED BY <2>3, <3>1 DEF n
  <2> QED BY <1>3, <2>4
<1>5. \A i \in 1..n : /\ p[i].row \in T /\ p[i].qty \in Nat
                      /\ p[i].qty <= have[i] /\ p[i].qty <= Rest(i)
                      /\ p[i] \in [row : T, qty : Nat]
  <2> SUFFICES ASSUME NEW i \in 1..n
               PROVE  /\ p[i].row \in T /\ p[i].qty \in Nat
                      /\ p[i].qty <= have[i] /\ p[i].qty <= Rest(i)
                      /\ p[i] \in [row : T, qty : Nat]
    OBVIOUS
  <2>1. i \in 1..m /\ Rest(i) > 0 /\ Rest(i) \in Int /\ have[i] \in Nat /\ rows[i] \in T
    BY <1>1, <1>2, <1>4
  <2> HIDE DEF Rest
  <2>2. p[i] = [row |-> rows[i], qty |-> AtMost(have[i], Rest(i))]
    BY DEF p
  <2>3. /\ AtMost(have[i], Rest(i)) \in Nat
        /\ AtMost(have[i], Rest(i)) <= have[i] /\ AtMost(have[i], Rest(i)) <= Rest(i)
    BY <2>1 DEF AtMost
  <2> QED BY <2>1, <2>2, <2>3
<1>9. ASSUME NEW i \in 1..(n - 1) PROVE p[i].qty = stock[rows[i]]
  <2>1. /\ i \in Nat /\ i >= 1 /\ i \in 1..n /\ i + 1 \in 1..n
        /\ i \in 1..m /\ i + 1 \in 1..m
    BY <1>3
  <2>2. Rest(i + 1) > 0 /\ SumOver(have, 1..(i - 1)) \in Int /\ have[i] \in Nat
    <3>1. Rest(i + 1) > 0
      BY <1>4, <2>1
    <3>2. SumOver(have, 1..(i - 1)) \in Int
      BY <1>2, <2>1
    <3> QED BY <1>1, <2>1, <3>1, <3>2
  <2>3. 1..i = (1..(i - 1)) \cup {i} /\ i \notin 1..(i - 1) /\ IsFiniteSet(1..(i - 1))
    <3>1. 1..i = (1..(i - 1)) \cup {i} /\ i \notin 1..(i - 1)
      BY <2>1
    <3>2. i - 1 \in Int
      BY <2>1
    <3> QED BY <3>1, <3>2, FS_Interval
  <2>4. \A k \in (1..(i - 1)) \cup {i} : have[k] \in Int
    BY <1>1, <2>1
  <2>5. SumOver(have, 1..i) = have[i] + SumOver(have, 1..(i - 1))
    BY <2>3, <2>4, SumAdd
  <2>6. Rest(i + 1) = need - SumOver(have, 1..i) /\ Rest(i) = need - SumOver(have, 1..(i - 1))
    <3>1. (i + 1) - 1 = i
      BY <2>1
    <3> QED BY <3>1
  <2>7. have[i] <= Rest(i)
    BY <2>2, <2>5, <2>6
  <2>8. p[i].qty = AtMost(have[i], Rest(i)) /\ have[i] = stock[rows[i]]
    BY <2>1 DEF have
  <2> HIDE DEF Rest, p
  <2> QED BY <2>7, <2>8 DEF AtMost
<1>10. \A i \in 1..n : p[i].row = rows[i]
  OBVIOUS
<1> HIDE DEF Rest
<1>6. p \in Seq([row : T, qty : Nat]) /\ DOMAIN p = 1..n /\ Len(p) = n
  <2>1. p \in [1..n -> [row : T, qty : Nat]]
    BY <1>3, <1>5
  <2> HIDE DEF p
  <2>2. p \in Seq([row : T, qty : Nat])
    <3> DEFINE X == [row : T, qty : Nat]
    <3>1. p \in [1..n -> X]
      BY <2>1
    <3> HIDE DEF X
    <3>2. p \in Seq(X)
      BY <1>3, <3>1, SeqDef
    <3> QED BY <3>2 DEF X
  <2> QED BY <1>3, <2>1, <2>2, LenProperties
<1> HIDE DEF p
<1>7. ASSUME n # 0 PROVE Total(p) \in Int /\ Total(p) <= need
  <2> DEFINE q == Quantities(p)
  <2>1. \A i \in 1..n : q[i] = p[i].qty
    BY <1>6 DEF Quantities
  <2>2. \A i \in 1..n : q[i] \in Int /\ have[i] \in Int /\ q[i] <= have[i]
    BY <1>1, <1>3, <1>5, <2>1
  <2> HIDE DEF q
  <2>3. /\ 1..n = (1..(n - 1)) \cup {n} /\ n \notin 1..(n - 1) /\ IsFiniteSet(1..(n - 1))
    BY <1>3, <1>7, FS_Interval
  <2>4. SumOver(q, 1..n) = q[n] + SumOver(q, 1..(n - 1))
    BY <2>2, <2>3, SumAdd
  <2>5. SumOver(q, 1..(n - 1)) <= SumOver(have, 1..(n - 1)) /\ SumOver(q, 1..(n - 1)) \in Int
    BY <2>2, <2>3, SumMonotone, SumInt
  <2>6. n \in 1..n /\ q[n] \in Int /\ q[n] <= need - SumOver(have, 1..(n - 1))
    BY <1>3, <1>5, <1>7, <2>1, <2>2 DEF Rest
  <2>7. SumOver(have, 1..(n - 1)) \in Int
    BY <1>2, <1>4, <2>6
  <2>8. Total(p) = SumOver(q, 1..n)
    BY <1>6 DEF Total, q
  <2> QED BY <2>4, <2>5, <2>6, <2>7, <2>8
<1>8. n = 0 => p = <<>>
  BY <1>6
<1> HIDE DEF n
<1>11. n \in 0..m
  BY <1>3
<1>12. InOrder(p, rows, m)
  BY <1>6, <1>9, <1>10, <1>11 DEF InOrder
<1>13. /\ p \in Seq([row : T, qty : Nat])
       /\ p # <<>> /\ Total(p) >= need => Total(p) = need
  BY <1>6, <1>7, <1>8
<1> QED BY <1>0, <1>12, <1>13

----------------------------------------------------------------------------
(* The lines of a BOM. *)

\* What the list of the first n lists flattens to, for each n.
Flattens(f, s, n) == f = [i \in 1..n |-> IF i = 1 THEN s[i] ELSE f[i - 1] \o s[i]]

LEMMA FlattenExists ==
  ASSUME NEW s, NEW n \in Nat
  PROVE  \E f : Flattens(f, s, n)
<1> DEFINE G == {k \in 0..n : \E f : Flattens(f, s, k)}
<1>1. 0 \in G
  <2>1. Flattens(<<>>, s, 0)
    BY DEF Flattens
  <2> QED BY <2>1
<1>2. ASSUME NEW k \in 0..n, k \in G, k < n PROVE k + 1 \in G
  <2>1. PICK f : Flattens(f, s, k)
    BY <1>2
  <2> DEFINE g == [i \in 1..(k + 1) |-> IF i = 1 THEN s[i]
                                        ELSE IF i = k + 1 THEN f[k] \o s[i] ELSE f[i]]
  <2>2. \A i \in 1..k : g[i] = f[i]
    BY <2>1 DEF Flattens
  <2>3. g = [i \in 1..(k + 1) |-> IF i = 1 THEN s[i] ELSE g[i - 1] \o s[i]]
    <3> SUFFICES ASSUME NEW i \in 1..(k + 1), i # 1
                 PROVE  (IF i = k + 1 THEN f[k] \o s[i] ELSE f[i]) = g[i - 1] \o s[i]
      BY Zenon
    <3>1. i - 1 \in 1..k
      OBVIOUS
    <3>2. g[i - 1] = f[i - 1]
      BY <2>2, <3>1
    <3>3. CASE i = k + 1
      <4>1. i - 1 = k
        BY <3>3
      <4> QED BY <3>2, <3>3, <4>1
    <3>4. CASE i # k + 1
      <4>1. i \in 1..k
        BY <3>4
      <4>2. f[i] = f[i - 1] \o s[i]
        BY <2>1, <4>1 DEF Flattens
      <4> QED BY <3>2, <3>4, <4>2
    <3> QED BY <3>3, <3>4
  <2>4. Flattens(g, s, k + 1)
    BY <2>3 DEF Flattens
  <2> HIDE DEF g
  <2>5. k + 1 \in 0..n
    BY <1>2
  <2> QED BY <2>4, <2>5
<1> HIDE DEF G
<1>3. 0..n \subseteq G
  BY <1>1, <1>2, CountInduction
<1> QED BY <1>3 DEF G

LEMMA FlattenIs ==
  ASSUME NEW X, NEW s \in Seq(Seq(X))
  PROVE  /\ FlattenSeq(s) \in Seq(X)
         /\ Len(s) = 1 => FlattenSeq(s) = s[1]
<1> DEFINE n == Len(s)
           f == CHOOSE e : Flattens(e, s, n)
<1>1. n \in Nat /\ \A i \in 1..n : s[i] \in Seq(X)
  OBVIOUS
<1>2. n = 0 => FlattenSeq(s) = <<>>
  BY DEF FlattenSeq
<1>3. n # 0 => FlattenSeq(s) = f[n]
  BY DEF FlattenSeq, Flattens
<1>4. Flattens(f, s, n)
  BY <1>1, FlattenExists
<1> HIDE DEF f, n
<1>5. \A i \in 1..n : f[i] = IF i = 1 THEN s[i] ELSE f[i - 1] \o s[i]
  BY <1>4 DEF Flattens
<1> DEFINE G == {k \in 0..n : k = 0 \/ f[k] \in Seq(X)}
<1>6. 0 \in G
  BY <1>1
<1>7. ASSUME NEW k \in 0..n, k \in G, k < n PROVE k + 1 \in G
  <2>1. k + 1 \in 1..n /\ (k + 1) - 1 = k
    BY <1>1, <1>7
  <2>2. CASE k = 0
    BY <1>1, <1>5, <2>1, <2>2
  <2>3. CASE k # 0
    <3>0. f[k + 1] = IF k + 1 = 1 THEN s[k + 1] ELSE f[(k + 1) - 1] \o s[k + 1]
      BY <1>5, <2>1
    <3>1. f[k + 1] = f[k] \o s[k + 1]
      <4>1. k + 1 # 1
        BY <2>3
      <4> QED BY <2>1, <3>0, <4>1
    <3>2. f[k] \in Seq(X) /\ s[k + 1] \in Seq(X)
      BY <1>1, <1>7, <2>1, <2>3
    <3>3. f[k] \o s[k + 1] \in Seq(X)
      BY <3>2, ConcatProperties
    <3>4. k + 1 \in 0..n
      BY <1>1, <2>1
    <3> QED BY <3>1, <3>3, <3>4
  <2> QED BY <2>2, <2>3
<1> HIDE DEF G
<1>8. 0..n \subseteq G
  BY <1>1, <1>6, <1>7, CountInduction
<1>9. n # 0 => f[n] \in Seq(X)
  BY <1>1, <1>8 DEF G
<1>10. n = 1 => f[1] = s[1]
  BY <1>5
<1> QED BY <1>1, <1>2, <1>3, <1>9, <1>10 DEF n

\* The lines of a BOM, whose rows are lists, are a list, and that one if there is
\* no other.
LEMMA ListsFlatten ==
  ASSUME NEW P, IsFiniteSet(P), \A l \in P : BomList(l)
  PROVE  /\ BomList(FlattenSeq(SetToSeq(P)))
         /\ \A l : P = {l} => FlattenSeq(SetToSeq(P)) = l
<1> DEFINE X == UNION {{l[i] : i \in DOMAIN l} : l \in P}
           s == SetToSeq(P)
           c == Cardinality(P)
<1>1. c \in Nat
  BY FS_CardinalityType
<1>2. s \in [1..c -> P]
  <2>1. PICK b : b \in Bijection(1..c, P)
    BY FS_CardinalityType DEF ExistsBijection
  <2>2. b \in [1..c -> P] /\ IsInjective(b)
    BY <2>1 DEF Bijection, Injection
  <2> QED BY <2>2 DEF SetToSeq
<1>3. \A l \in P : l \in Seq(X)
  <2> SUFFICES ASSUME NEW l \in P PROVE l \in Seq(X)
    OBVIOUS
  <2> DEFINE Y == {l[i] : i \in DOMAIN l}
  <2>1. l \in Seq(Y) /\ Y \subseteq X
    BY DEF BomList, LineList
  <2> HIDE DEF X, Y
  <2> QED BY <2>1, SeqMonotonic
<1>4. \A x \in X : x.qty \in Int /\ x.scrap \in Int
  BY DEF BomList, LineList
<1> HIDE DEF X, s, c
<1>5. s \in Seq(Seq(X)) /\ Len(s) = c
  <2>1. s \in [1..c -> Seq(X)]
    BY <1>2, <1>3
  <2>2. s \in Seq(Seq(X))
    BY <1>1, <2>1, SeqDef
  <2> QED BY <1>1, <2>1, <2>2, LenProperties
<1> DEFINE t == FlattenSeq(s)
<1>6. t \in Seq(X) /\ (Len(s) = 1 => t = s[1])
  BY <1>5, FlattenIs
<1> HIDE DEF t
<1>7. BomList(t)
  <2>1. t \in Seq({t[i] : i \in DOMAIN t}) /\ \A i \in DOMAIN t : t[i] \in X
    BY <1>6, OwnMembers
  <2> QED BY <1>4, <2>1 DEF BomList, LineList
<1>8. ASSUME NEW l, P = {l} PROVE t = l
  <2>1. c = 1
    BY <1>8, FS_Singleton DEF c
  <2> QED BY <1>2, <1>5, <1>6, <1>8, <2>1
<1> QED BY <1>7, <1>8 DEF t, s

----------------------------------------------------------------------------
(* The way of each call. *)

AtWork == {"suggest", "find", "reserve"}

\* A call is where its operation has led it.
Route(r) ==
  /\ Typed(CallOf(r))
  /\ job[r].at \in Operations => Op(r) = job[r].at
  /\ job[r].at \in {"deleteLines", "saveBom"} => Op(r) = "updateBom"
  /\ At(r, "explodeLines") => Op(r) = "explode"
  /\ job[r].at \in {"insert"} \cup AtWork => Op(r) \in {"explode", "request"}
  /\ Op(r) = "explode" =>
       job[r].at \in {"waiting", "explode", "explodeLines", "insert", "done", "refused"} \cup AtWork

PlaceInv == Placed /\ \A r \in Req : Route(r)

\* What a step does to the place of its call, and that no call is resumed.
LEMMA StepPlaces ==
  ASSUME PlaceInv, NEW r \in Req, Step(r)
  PROVE  /\ PlaceInv' /\ Remembers
         /\ job[r].at \notin {"done", "refused"}
         /\ \A q \in Req : CallOf(q)' = CallOf(q)
         /\ \A q \in Req \ {r} : job'[q] = job[q]
<1>1. \/ Hop(r, "waiting", {Op(r)}) \/ Hop(r, "aging", {"done"})
      \/ ProductionHop(r) \/ AccountsHop(r) \/ SerialsHop(r)
  BY EnterHop, ProductionHops, ReportHops, AccountsHops, SerialsHops DEF Step, PlaceInv
<1>2. /\ StepsTo(r, {job'[r].at}) /\ Remembers /\ job[r].at \notin {"done", "refused"}
  BY <1>1 DEF Hop, StepsTo, At, ProductionHop, AccountsHop, SerialsHop
<1>3. Placed' /\ \A q \in Req : CallOf(q)' = CallOf(q)
  BY <1>2, PlacedKept DEF PlaceInv
<1>4. \A q \in Req \ {r} : job'[q] = job[q]
  BY <1>2 DEF StepsTo
<1>5. ASSUME NEW q \in Req, q # r PROVE Route(q)'
  BY <1>3, <1>4, <1>5 DEF PlaceInv, Route, At, Op, CallOf
<1>6. Route(r)'
  <2>1. CallOf(r)' = CallOf(r) /\ Op(r)' = Op(r) /\ Op(r) \in Operations /\ Route(r)
    BY <1>3 DEF Op, PlaceInv, Placed
  <2> DEFINE Moved == /\ job'[r].at \in Operations => Op(r) = job'[r].at
                      /\ job'[r].at \in {"deleteLines", "saveBom"} => Op(r) = "updateBom"
                      /\ job'[r].at = "explodeLines" => Op(r) = "explode"
                      /\ job'[r].at \in {"insert"} \cup AtWork => Op(r) \in {"explode", "request"}
                      /\ Op(r) = "explode" =>
                           job'[r].at \in {"waiting", "explode", "explodeLines", "insert",
                                           "done", "refused"} \cup AtWork
  <2> SUFFICES Moved
    BY <2>1 DEF Route, At
  <2> USE DEF Hop, StepsTo, At, Route, AtWork, Operations
  <2>2. CASE Hop(r, "waiting", {Op(r)}) \/ Hop(r, "aging", {"done"})
    BY <2>1, <2>2
  <2>3. CASE ProductionHop(r)
    BY <2>1, <2>3 DEF ProductionHop
  <2>4. CASE AccountsHop(r)
    BY <2>1, <2>4 DEF AccountsHop
  <2>5. CASE SerialsHop(r)
    BY <2>1, <2>5 DEF SerialsHop
  <2> QED BY <1>1, <2>2, <2>3, <2>4, <2>5
<1> QED BY <1>2, <1>3, <1>4, <1>5, <1>6 DEF PlaceInv

LEMMA PlaceInvInit == BackOfficeInit => PlaceInv
<1> SUFFICES ASSUME BackOfficeInit PROVE PlaceInv
  OBVIOUS
<1>1. PICK mix \in Mix0 : HandlersInit(mix)
  BY DEF BackOfficeInit
<1>2. Placed
  BY BookInvInit DEF BookInv
<1>3. \A r \in Req : job[r].at = "waiting" /\ CallOf(r) = mix.call[r]
  BY <1>1 DEF HandlersInit, CallOf
<1> QED BY <1>2, <1>3, ProductionConstants DEF PlaceInv, Route, Operations, At, AtWork

----------------------------------------------------------------------------
(* Bills of materials. *)

\* Two updates of the BOM have overlapped.
Overlapped(id) ==
  \E q \in Req : At(q, "done") /\ Op(q) = "updateBom" /\ <<"bom", id>> \in disturbed[q]

\* A BOM has one of the lists that it was given, or, if updates overlapped, some.
BomsWhole ==
  \A id \in DOMAIN boms :
    /\ IsFiniteSet(boms[id].parts)
    /\ \A part \in boms[id].parts : BomList(part.lines) /\ part.lines \in Lists(id)
    /\ (\E part \in boms[id].parts : boms[id].parts = {part}) \/ Overlapped(id)

\* What an update is about to delete is all there is, or another was committed
\* meanwhile.
SeenWhole(r) ==
  /\ job[r].at \in {"deleteLines", "saveBom", "explodeLines"} => CallOf(r).bom \in DOMAIN boms
  /\ At(r, "saveBom") => \/ boms[CallOf(r).bom].parts = Saw(r)
                         \/ <<"bom", CallOf(r).bom>> \in disturbed[r]

\* What is requested for a BOM is one of its lists.
FromOneList(r, lines) ==
  \/ \E list \in Lists(CallOf(r).bom) : lines = Exploded(list, CallOf(r).fgQty)
  \/ Overlapped(CallOf(r).bom)

RequestedWhole(r) ==
  Op(r) = "explode" =>
    /\ At(r, "insert") => FromOneList(r, Saw(r))
    /\ job[r].at \in {"done"} \cup AtWork => FromOneList(r, wanted[r])

BomInv ==
  /\ PlaceInv /\ DOMAIN wanted = Req
  /\ BomsWhole
  /\ \A r \in Req : SeenWhole(r) /\ RequestedWhole(r)

\* Lists that were given stay given, and an overlap stays one.
LEMMA ListsGrow ==
  ASSUME NEW r \in Req, PlaceInv, Step(r)
  PROVE  \A id : Lists(id) \subseteq Lists(id)' /\ (Overlapped(id) => Overlapped(id)')
<1>1. /\ \A q \in Req : CallOf(q)' = CallOf(q) /\ Op(q)' = Op(q)
      /\ \A q \in Req : At(q, "done") => At(q, "done")'
      /\ Remembers
  BY StepPlaces DEF At, Op
<1> SUFFICES ASSUME NEW id
             PROVE  Lists(id) \subseteq Lists(id)' /\ (Overlapped(id) => Overlapped(id)')
  OBVIOUS
<1>2. Lists(id) \subseteq Lists(id)'
  <2> DEFINE Given(q) == /\ At(q, "done") /\ "lines" \in DOMAIN CallOf(q)
                         /\ \/ Op(q) = "updateBom" /\ CallOf(q).bom = id
                            \/ Op(q) = "createBom"
  <2>1. \A q \in Req : Given(q) => Given(q)'
    BY <1>1
  <2> QED BY <1>1, <2>1 DEF Lists
<1>3. Overlapped(id) => Overlapped(id)'
  BY <1>1 DEF Overlapped, Remembers
<1> QED BY <1>2, <1>3

\* The requests of the others, and what they are about to delete.
LEMMA OthersWhole ==
  ASSUME BomInv, NEW r \in Req, Step(r), NEW q \in Req \ {r}
  PROVE  /\ wanted'[q] = wanted[q] => RequestedWhole(q)'
         /\ UNCHANGED boms => SeenWhole(q)'
<1>1. /\ Remembers /\ job'[q] = job[q] /\ CallOf(q)' = CallOf(q) /\ Op(q)' = Op(q)
      /\ Saw(q)' = Saw(q) /\ PlaceInv
      /\ \A p : At(q, p)' = At(q, p)
  BY StepPlaces DEF BomInv, Op, Saw, At
<1>2. \A lines : FromOneList(q, lines) => FromOneList(q, lines)'
  BY <1>1, ListsGrow DEF FromOneList
<1>3. wanted'[q] = wanted[q] => RequestedWhole(q)'
  BY <1>1, <1>2 DEF BomInv, RequestedWhole
<1>4. UNCHANGED boms => SeenWhole(q)'
  BY <1>1 DEF BomInv, SeenWhole, Remembers
<1> QED BY <1>3, <1>4

LEMMA BomsStay ==
  ASSUME BomInv, NEW r \in Req, Step(r), UNCHANGED boms, DOMAIN wanted' = Req,
         \A q \in Req \ {r} : wanted'[q] = wanted[q],
         SeenWhole(r)', RequestedWhole(r)'
  PROVE  BomInv'
<1>1. PlaceInv'
  BY StepPlaces DEF BomInv
<1>2. \A id : Lists(id) \subseteq Lists(id)' /\ (Overlapped(id) => Overlapped(id)')
  BY ListsGrow DEF BomInv
<1>3. BomsWhole'
  BY <1>2 DEF BomInv, BomsWhole
<1>4. \A q \in Req : SeenWhole(q)' /\ RequestedWhole(q)'
  BY OthersWhole
<1> QED BY <1>1, <1>3, <1>4 DEF BomInv

\* The steps that neither read nor write a BOM.
LEMMA BomsAside ==
  ASSUME BomInv, NEW r \in Req, Step(r), UNCHANGED <<boms, wanted>>,
         job'[r].at \notin {"deleteLines", "saveBom", "explodeLines"},
         Op(r) = "explode" /\ job'[r].at \in {"done"} \cup AtWork => job[r].at \in AtWork,
         Op(r) = "explode" => job'[r].at # "insert"
  PROVE  BomInv'
<1>1. CallOf(r)' = CallOf(r) /\ Op(r)' = Op(r)
  BY StepPlaces DEF BomInv, Op
<1>2. SeenWhole(r)'
  BY DEF SeenWhole, At
<1>3. \A lines : FromOneList(r, lines) => FromOneList(r, lines)'
  BY <1>1, ListsGrow DEF FromOneList, BomInv
<1>4. RequestedWhole(r)'
  BY <1>1, <1>3 DEF BomInv, RequestedWhole, At
<1> QED BY <1>2, <1>4, BomsStay DEF BomInv

LEMMA HopsAside ==
  ASSUME BomInv, NEW r \in Req, Step(r), UNCHANGED <<boms, wanted>>,
         \/ Hop(r, "waiting", {Op(r)}) \/ Hop(r, "aging", {"done"})
         \/ AccountsHop(r) \/ SerialsHop(r)
         \/ /\ ProductionHop(r)
            /\ job[r].at \in {"request", "createOrder", "updateOrder", "receiveFg"} \cup AtWork
  PROVE  BomInv'
<1>1. Route(r) /\ Op(r) \in Operations
  BY DEF BomInv, PlaceInv, Placed
<1>2. Op(r) = "explode" =>
        \/ job[r].at = "waiting" /\ job'[r].at = "explode"
        \/ job[r].at \in AtWork
        \/ job'[r].at = "refused"
  BY <1>1 DEF Hop, At, StepsTo, AccountsHop, SerialsHop, ProductionHop, Route, AtWork, Operations
<1>3. job'[r].at \notin {"deleteLines", "saveBom", "explodeLines"}
  BY <1>1 DEF Hop, At, StepsTo, AccountsHop, SerialsHop, ProductionHop, Operations, AtWork
<1>4. job[r].at \in AtWork => job'[r].at # "insert"
  BY DEF Hop, At, StepsTo, AccountsHop, SerialsHop, ProductionHop, AtWork
<1> QED BY <1>2, <1>3, <1>4, BomsAside DEF AtWork

LEMMA CreateBomKeeps ==
  ASSUME BomInv, NEW r \in Req, Step(r), CreateBom(r)
  PROVE  BomInv'
<1> DEFINE c == CallOf(r)
           id == <<c.material, c.version>>
           new == Written(r, c.lines)
<1>1. /\ PlaceInv /\ Placed /\ PlaceInv' /\ Remembers /\ At(r, "createBom")
      /\ Op(r) = "createBom" /\ Op(r)' = "createBom" /\ CallOf(r)' = c
      /\ DOMAIN wanted' = Req /\ UNCHANGED wanted
  BY StepPlaces DEF BomInv, PlaceInv, Route, At, Op, CreateBom, UnchangedStock, Operations
<1>2. StepsTo(r, {"done", "refused"})
  BY <1>1, ControlSteps DEF CreateBom, StepsTo, At, Underway
<1>3. RequestedWhole(r)' /\ SeenWhole(r)'
  BY <1>1, <1>2 DEF RequestedWhole, SeenWhole, StepsTo, At
<1>4. CASE UNCHANGED boms
  BY <1>1, <1>3, <1>4, BomsStay
<1>5. CASE /\ id \notin DOMAIN boms /\ Done(r)
           /\ boms' = SetAt(boms, id, [status |-> c.status, parts |-> {new}])
  <2>1. At(r, "done")'
    BY <1>1, <1>5, ControlSteps DEF StepsTo, At, Underway
  <2>2. BomList(c.lines) /\ "lines" \in DOMAIN c
    BY <1>1 DEF PlaceInv, Route, Typed, Op
  <2>3. c.lines \in Lists(id)'
    BY <1>1, <2>1, <2>2 DEF Lists
  <2>4. /\ DOMAIN boms' = DOMAIN boms \cup {id}
        /\ boms'[id].parts = {new} /\ \A x \in DOMAIN boms : boms'[x] = boms[x]
    BY <1>5 DEF SetAt
  <2>5. \A x : Lists(x) \subseteq Lists(x)' /\ (Overlapped(x) => Overlapped(x)')
    BY <1>1, ListsGrow
  <2>6. BomsWhole'
    <3> SUFFICES ASSUME NEW x \in DOMAIN boms'
                 PROVE  /\ IsFiniteSet(boms'[x].parts)
                        /\ \A part \in boms'[x].parts : BomList(part.lines) /\ part.lines \in Lists(x)'
                        /\ (\E part \in boms'[x].parts : boms'[x].parts = {part}) \/ Overlapped(x)'
      BY DEF BomsWhole
    <3>1. CASE x = id
      <4>1. new.lines = c.lines /\ IsFiniteSet({new})
        BY FS_Singleton DEF Written
      <4> HIDE DEF new
      <4>2. \A part \in {new} : BomList(part.lines) /\ part.lines \in Lists(id)'
        BY <2>2, <2>3, <4>1
      <4> QED BY <1>1, <2>4, <3>1, <4>1, <4>2
    <3>2. CASE x # id
      BY <2>4, <2>5, <3>2 DEF BomInv, BomsWhole
    <3> QED BY <3>1, <3>2
  <2>7. ASSUME NEW q \in Req, q # r PROVE SeenWhole(q)' /\ RequestedWhole(q)'
    <3>1. RequestedWhole(q)'
      BY <1>1, <2>7, OthersWhole
    <3>2. job'[q] = job[q] /\ CallOf(q)' = CallOf(q) /\ Saw(q)' = Saw(q)
      BY <1>1, <2>7, StepPlaces DEF Saw
    <3>3. SeenWhole(q)'
      BY <1>1, <2>4, <3>2 DEF BomInv, SeenWhole, At, Remembers
    <3> QED BY <3>1, <3>3
  <2> QED BY <1>1, <1>3, <2>6, <2>7 DEF BomInv
<1> QED BY <1>4, <1>5 DEF CreateBom

LEMMA SaveBomKeeps ==
  ASSUME BomInv, NEW r \in Req, Step(r), SaveBom(r)
  PROVE  BomInv'
<1> DEFINE c == CallOf(r)
           id == c.bom
           new == Written(r, c.lines)
           old == boms[id].parts
<1>0. /\ PlaceInv /\ Placed /\ PlaceInv' /\ Remembers /\ At(r, "saveBom")
      /\ CallOf(r)' = c /\ Op(r) = "updateBom"
  BY StepPlaces DEF BomInv, PlaceInv, Route, SaveBom, At
<1>1. /\ PlaceInv /\ Placed /\ PlaceInv' /\ Remembers /\ At(r, "saveBom")
      /\ Op(r) = "updateBom" /\ Op(r)' = "updateBom" /\ CallOf(r)' = c
      /\ DOMAIN wanted' = Req /\ UNCHANGED wanted
      /\ id \in DOMAIN boms /\ (old = Saw(r) \/ <<"bom", id>> \in disturbed[r])
  BY <1>0 DEF BomInv, SeenWhole, At, Op, SaveBom, UnchangedStock
<1>2. At(r, "done")' /\ Commits(r, {<<"bom", id>>})
  BY <1>1, ControlSteps DEF SaveBom, StepsTo, At, Underway
<1>3. RequestedWhole(r)' /\ SeenWhole(r)'
  BY <1>1, <1>2 DEF RequestedWhole, SeenWhole, At
<1>4. /\ DOMAIN boms' = DOMAIN boms /\ \A x \in DOMAIN boms : x # id => boms'[x] = boms[x]
      /\ boms'[id].parts = IF "lines" \in DOMAIN c THEN (old \ Saw(r)) \cup {new} ELSE old
  BY <1>1 DEF SaveBom
<1>5. \A x : Lists(x) \subseteq Lists(x)' /\ (Overlapped(x) => Overlapped(x)')
  BY <1>1, ListsGrow
<1>6. ASSUME "lines" \in DOMAIN c PROVE BomList(new.lines) /\ new.lines \in Lists(id)'
  <2>1. BomList(c.lines)
    BY <1>1, <1>6 DEF PlaceInv, Route, Typed, Op
  <2>2. c.lines \in Lists(id)'
    BY <1>1, <1>2, <1>6 DEF Lists
  <2> QED BY <2>1, <2>2 DEF Written
<1>7. ASSUME <<"bom", id>> \in disturbed[r] PROVE Overlapped(id)'
  BY <1>1, <1>2, <1>7 DEF Overlapped, Remembers
<1>8. BomsWhole'
  <2> SUFFICES ASSUME NEW x \in DOMAIN boms
               PROVE  /\ IsFiniteSet(boms'[x].parts)
                      /\ \A part \in boms'[x].parts : BomList(part.lines) /\ part.lines \in Lists(x)'
                      /\ (\E part \in boms'[x].parts : boms'[x].parts = {part}) \/ Overlapped(x)'
    BY <1>4 DEF BomsWhole
  <2>1. /\ IsFiniteSet(boms[x].parts)
        /\ \A part \in boms[x].parts : BomList(part.lines) /\ part.lines \in Lists(x)'
        /\ (\E part \in boms[x].parts : boms[x].parts = {part}) \/ Overlapped(x)'
    BY <1>5 DEF BomInv, BomsWhole
  <2>2. CASE x # id \/ "lines" \notin DOMAIN c
    BY <1>4, <2>1, <2>2
  <2>3. CASE x = id /\ "lines" \in DOMAIN c
    <3>1. boms'[x].parts = (old \ Saw(r)) \cup {new}
      BY <1>4, <2>3
    <3>2. IsFiniteSet(boms'[x].parts)
      <4>1. IsFiniteSet(old \ Saw(r))
        <5>1. IsFiniteSet(old) /\ old \ Saw(r) \in SUBSET old
          BY <2>1, <2>3
        <5> HIDE DEF old
        <5> QED BY <5>1, FS_Subset
      <4> HIDE DEF new, old
      <4>2. IsFiniteSet((old \ Saw(r)) \cup {new})
        BY <4>1, FS_AddElement
      <4> QED BY <3>1, <4>2
    <3>3. old = Saw(r) => boms'[x].parts = {new}
      BY <3>1
    <3> QED BY <1>1, <1>6, <1>7, <2>1, <2>3, <3>1, <3>2, <3>3
  <2> QED BY <2>2, <2>3
<1>9. ASSUME NEW q \in Req, q # r PROVE SeenWhole(q)' /\ RequestedWhole(q)'
  <2>1. RequestedWhole(q)'
    BY <1>1, <1>9, OthersWhole
  <2>2. job'[q] = job[q] /\ CallOf(q)' = CallOf(q) /\ Saw(q)' = Saw(q)
    BY <1>1, <1>9, StepPlaces DEF Saw
  <2>3. At(q, "saveBom") => <<"bom", id>> \in disturbed'[q]
    BY <1>2, <1>9 DEF Commits, Underway, At
  <2>4. SeenWhole(q)'
    BY <1>1, <1>4, <2>2, <2>3 DEF BomInv, SeenWhole, At, Remembers
  <2> QED BY <2>1, <2>4
<1> QED BY <1>1, <1>3, <1>8, <1>9 DEF BomInv

LEMMA UpdateBomKeeps ==
  ASSUME BomInv, NEW r \in Req, Step(r), UpdateBom(r)
  PROVE  BomInv'
<1> DEFINE c == CallOf(r)
<1>1. /\ PlaceInv /\ Placed /\ At(r, "updateBom") /\ CallOf(r)' = c /\ Op(r)' = "updateBom"
      /\ UNCHANGED <<boms, wanted>> /\ DOMAIN wanted = Req
  BY StepPlaces DEF BomInv, PlaceInv, Route, At, Op, UpdateBom, UnchangedBoms, Operations
<1>2. RequestedWhole(r)'
  BY <1>1 DEF RequestedWhole
<1>3. SeenWhole(r)'
  <2>1. CASE Refuse(r)
    <3>1. job'[r].at = "refused"
      BY <1>1, <2>1, ControlSteps DEF StepsTo, At, Underway
    <3> QED BY <3>1 DEF SeenWhole, At
  <2>2. CASE Go(r, "deleteLines") /\ c.bom \in DOMAIN boms
    <3>1. job'[r].at = "deleteLines"
      BY <1>1, <2>2, ControlSteps DEF StepsTo, At, Underway
    <3> QED BY <1>1, <2>2, <3>1 DEF SeenWhole, At
  <2> QED BY <2>1, <2>2 DEF UpdateBom
<1> QED BY <1>1, <1>2, <1>3, BomsStay

LEMMA DeleteLinesKeeps ==
  ASSUME BomInv, NEW r \in Req, Step(r), DeleteLines(r)
  PROVE  BomInv'
<1> DEFINE c == CallOf(r)
<1>1. /\ PlaceInv /\ Placed /\ At(r, "deleteLines") /\ CallOf(r)' = c /\ Op(r)' = "updateBom"
      /\ UNCHANGED <<boms, wanted>> /\ DOMAIN wanted = Req
  BY StepPlaces DEF BomInv, PlaceInv, Route, At, Op, DeleteLines, UnchangedBoms
<1>2. RequestedWhole(r)'
  BY <1>1 DEF RequestedWhole
<1>3. c.bom \in DOMAIN boms
  BY <1>1 DEF BomInv, SeenWhole, At
<1>4. Saw(r)' = boms[c.bom].parts
  BY <1>1 DEF DeleteLines, GoWith, Saw, Placed, Shape, At
<1>5. SeenWhole(r)'
  BY <1>1, <1>3, <1>4 DEF SeenWhole
<1> QED BY <1>1, <1>2, <1>5, BomsStay

LEMMA ExplodeKeeps ==
  ASSUME BomInv, NEW r \in Req, Step(r), Explode(r)
  PROVE  BomInv'
<1> DEFINE c == CallOf(r)
<1>1. /\ PlaceInv /\ Placed /\ At(r, "explode") /\ CallOf(r)' = c
      /\ UNCHANGED <<boms, wanted>> /\ DOMAIN wanted = Req
  BY StepPlaces DEF BomInv, PlaceInv, Explode, UnchangedBoms
<1>2. job'[r].at = "refused" \/ (job'[r].at = "explodeLines" /\ c.bom \in DOMAIN boms)
  BY <1>1, ControlSteps DEF Explode, StepsTo, At, Underway
<1>3. RequestedWhole(r)' /\ SeenWhole(r)'
  BY <1>1, <1>2 DEF RequestedWhole, SeenWhole, At, AtWork
<1> QED BY <1>1, <1>3, BomsStay

\* One list is exploded, unless updates of it have overlapped.
LEMMA ExplodeLinesKeeps ==
  ASSUME BomInv, NEW r \in Req, Step(r), ExplodeLines(r)
  PROVE  BomInv'
<1> DEFINE c == CallOf(r)
           lines == Exploded(LinesOf(c.bom), c.fgQty)
<1>1. /\ PlaceInv /\ Placed /\ At(r, "explodeLines") /\ CallOf(r)' = c
      /\ UNCHANGED <<boms, wanted>> /\ DOMAIN wanted = Req /\ c.bom \in DOMAIN boms
  BY StepPlaces DEF BomInv, PlaceInv, ExplodeLines, UnchangedBoms, SeenWhole, At
<1>2. job'[r].at = "refused" \/ (job'[r].at = "insert" /\ GoWith(r, "insert", lines))
  BY <1>1, ControlSteps DEF ExplodeLines, StepsTo, At, Underway
<1>3. SeenWhole(r)'
  BY <1>1, <1>2 DEF SeenWhole, At
<1>4. CASE job'[r].at = "refused"
  <2>1. RequestedWhole(r)'
    BY <1>4 DEF RequestedWhole, At, AtWork
  <2> QED BY <1>1, <1>3, <2>1, BomsStay
<1>5. CASE job'[r].at = "insert" /\ GoWith(r, "insert", lines)
  <2>1. Saw(r)' = lines
    BY <1>1, <1>5 DEF GoWith, Saw, Placed, Shape, At
  <2>2. FromOneList(r, lines)
    <3>1. CASE Overlapped(c.bom)
      BY <3>1 DEF FromOneList
    <3>2. CASE ~Overlapped(c.bom)
      <4>1. PICK part \in boms[c.bom].parts : boms[c.bom].parts = {part}
        BY <1>1, <3>2 DEF BomInv, BomsWhole
      <4>2. BomList(part.lines) /\ part.lines \in Lists(c.bom)
        BY <1>1 DEF BomInv, BomsWhole
      <4> DEFINE P == {p.lines : p \in boms[c.bom].parts}
      <4>3. P = {part.lines}
        BY <4>1
      <4>4. IsFiniteSet(P) /\ \A l \in P : BomList(l)
        BY <4>2, <4>3, FS_Singleton
      <4>5. LinesOf(c.bom) = FlattenSeq(SetToSeq(P))
        BY DEF LinesOf
      <4> HIDE DEF P
      <4>6. LinesOf(c.bom) = part.lines
        BY <4>3, <4>4, <4>5, ListsFlatten
      <4> QED BY <4>2, <4>6 DEF FromOneList
    <3> QED BY <3>1, <3>2
  <2>3. FromOneList(r, lines)'
    <3>1. \A x : FromOneList(r, x) => FromOneList(r, x)'
      BY <1>1, ListsGrow DEF FromOneList
    <3>2. lines' = lines
      BY <1>1 DEF LinesOf
    <3> QED BY <2>2, <3>1, <3>2
  <2>4. RequestedWhole(r)'
    <3>1. At(r, "insert")' => FromOneList(r, Saw(r))'
      BY <1>1, <2>1, <2>3 DEF LinesOf
    <3> QED BY <1>5, <3>1 DEF RequestedWhole, At, AtWork
  <2> QED BY <1>1, <1>3, <2>4, BomsStay
<1> QED BY <1>2, <1>4, <1>5

LEMMA InsertKeeps ==
  ASSUME BomInv, NEW r \in Req, Step(r), InsertRequest(r)
  PROVE  BomInv'
<1>1. /\ PlaceInv /\ Placed /\ At(r, "insert") /\ CallOf(r)' = CallOf(r) /\ Op(r)' = Op(r)
      /\ UNCHANGED boms /\ DOMAIN wanted' = Req
      /\ \A q \in Req \ {r} : wanted'[q] = wanted[q]
  BY StepPlaces DEF BomInv, PlaceInv, InsertRequest, UnchangedBoms, Op
<1>2. job'[r].at = "refused" \/ (job'[r].at = "suggest" /\ wanted'[r] = Saw(r))
  BY <1>1, ControlSteps DEF InsertRequest, StepsTo, At, Underway
<1>3. SeenWhole(r)'
  BY <1>2 DEF SeenWhole, At
<1>4. \A x : FromOneList(r, x) => FromOneList(r, x)'
  BY <1>1, ListsGrow DEF FromOneList
<1>5. RequestedWhole(r)'
  BY <1>1, <1>2, <1>4 DEF BomInv, RequestedWhole, At, AtWork
<1> QED BY <1>1, <1>3, <1>5, BomsStay

LEMMA BomInvInit == BackOfficeInit => BomInv
<1> SUFFICES ASSUME BackOfficeInit PROVE BomInv
  OBVIOUS
<1>1. /\ PlaceInv /\ boms = Boms0 /\ DOMAIN wanted = Req
      /\ \A r \in Req : job[r].at = "waiting"
  BY PlaceInvInit DEF BackOfficeInit, ProductionInit, HandlersInit
<1>2. BomsWhole
  <2> SUFFICES ASSUME NEW id \in DOMAIN Boms0
               PROVE  /\ IsFiniteSet(Boms0[id].parts)
                      /\ \A part \in Boms0[id].parts : BomList(part.lines) /\ part.lines \in Lists(id)
                      /\ \E part \in Boms0[id].parts : Boms0[id].parts = {part}
    BY <1>1 DEF BomsWhole
  <2>1. PICK part \in Boms0[id].parts : Boms0[id].parts = {part} /\ BomList(part.lines)
    BY ProductionConstants
  <2>2. IsFiniteSet(Boms0[id].parts)
    BY <2>1, FS_Singleton
  <2> QED BY <2>1, <2>2 DEF Lists
<1> QED BY <1>1, <1>2 DEF BomInv, SeenWhole, RequestedWhole, At, AtWork

LEMMA BomInvStep == BomInv /\ [Next]_vars => BomInv'
<1> SUFFICES ASSUME BomInv, [Next]_vars PROVE BomInv'
  OBVIOUS
<1>1. ASSUME NEW r \in Req, Step(r) PROVE BomInv'
  <2>0. Placed
    BY DEF BomInv, PlaceInv
  <2>1. CASE /\ Enter(r) \/ Analyze(r) \/ AccountsStep(r) \/ SerialsStep(r)
             /\ UNCHANGED prodVars
    <3>1. UNCHANGED <<boms, wanted>>
      BY <2>1 DEF prodVars
    <3>2. \/ Hop(r, "waiting", {Op(r)}) \/ Hop(r, "aging", {"done"})
          \/ AccountsHop(r) \/ SerialsHop(r)
      BY <2>0, <2>1, EnterHop, ReportHops, AccountsHops, SerialsHops
    <3> QED BY <1>1, <3>1, <3>2, HopsAside
  <2>2. CASE RequestMaterial(r) \/ Suggest(r) \/ FindRow(r) \/ Reserve(r) \/ SaveOrder(r) \/ ReceiveFg(r)
    <3>1. /\ UNCHANGED <<boms, wanted>>
          /\ job[r].at \in {"request", "createOrder", "updateOrder", "receiveFg"} \cup AtWork
      BY <2>2 DEF RequestMaterial, Suggest, FindRow, Reserve, SaveOrder, ReceiveFg,
                  UnchangedBoms, UnchangedStock, At, AtWork
    <3>2. ProductionHop(r)
      BY <2>0, <2>2, ProductionHops DEF ProductionStep
    <3> QED BY <1>1, <3>1, <3>2, HopsAside
  <2> QED BY <1>1, <2>1, <2>2, CreateBomKeeps, UpdateBomKeeps, DeleteLinesKeeps, SaveBomKeeps,
             ExplodeKeeps, ExplodeLinesKeeps, InsertKeeps DEF Step, ProductionStep, Analyze
<1>2. CASE UNCHANGED vars
  <2>1. PlaceInv' /\ DOMAIN wanted' = Req
    BY <1>2 DEF vars, BomInv, PlaceInv, Placed, Route, At, CallOf, Op
  <2>2. BomsWhole'
    BY <1>2 DEF vars, BomInv, BomsWhole, Overlapped, Lists, At, CallOf, Op
  <2>3. ASSUME NEW r \in Req PROVE SeenWhole(r)' /\ RequestedWhole(r)'
    <3>1. SeenWhole(r) /\ RequestedWhole(r)
      BY DEF BomInv
    <3>2. SeenWhole(r)'
      BY <1>2, <3>1 DEF vars, SeenWhole, At, CallOf, Saw
    <3>3. RequestedWhole(r)'
      BY <1>2, <3>1 DEF vars, RequestedWhole, FromOneList, Overlapped, Lists, At, CallOf, Op, Saw
    <3> QED BY <3>2, <3>3
  <2> QED BY <2>1, <2>2, <2>3 DEF BomInv
<1> QED BY <1>1, <1>2 DEF Next, Finished

\* What is requested for a BOM is one of the lists that it was given, unless two
\* updates of its lines overlapped (bom.service.ts:155-178).
THEOREM ExplodesOneList == Spec => []ExplodedWhole
<1>1. BomInv => ExplodedWhole
  BY DEF BomInv, RequestedWhole, FromOneList, Overlapped, ExplodedWhole, At
<1> QED BY <1>1, BomInvInit, BomInvStep, PTL DEF Spec

----------------------------------------------------------------------------
(* What requests reserve. *)

\* The sum over the entries of a list for line i.
GotIn(s, i) == SumOver(Quantities(s), {k \in DOMAIN s : s[k].line = i})

Reservations(s) ==
  /\ s \in Seq({s[k] : k \in DOMAIN s})
  /\ \A k \in DOMAIN s : s[k].line \in Nat /\ s[k].qty \in Nat

LEMMA GotAppend ==
  ASSUME NEW s, Reservations(s), NEW e, e.line \in Nat, e.qty \in Nat, NEW i
  PROVE  /\ Reservations(Append(s, e))
         /\ GotIn(s, i) \in Int
         /\ GotIn(Append(s, e), i) = IF i = e.line THEN GotIn(s, i) + e.qty ELSE GotIn(s, i)
<1> DEFINE T == {s[k] : k \in DOMAIN s} \cup {e}
           u == Append(s, e)
           n == Len(s)
           old == {k \in DOMAIN s : s[k].line = i}
           all == {k \in DOMAIN u : u[k].line = i}
<1>1. s \in Seq(T) /\ e \in T
  BY SeqMonotonic DEF Reservations
<1> HIDE DEF T
<1>2. /\ u \in Seq(T) /\ n \in Nat /\ DOMAIN s = 1..n
      /\ DOMAIN u = 1..(n + 1) /\ u[n + 1] = e /\ \A k \in 1..n : u[k] = s[k]
  BY <1>1
<1> HIDE DEF u, n
<1>3. Reservations(u)
  <2>1. u \in Seq({u[k] : k \in DOMAIN u})
    BY <1>2, OwnMembers
  <2>2. \A k \in DOMAIN u : u[k].line \in Nat /\ u[k].qty \in Nat
    BY <1>2 DEF Reservations
  <2> QED BY <2>1, <2>2 DEF Reservations
<1>4. IsFiniteSet(old) /\ old \subseteq 1..n /\ n + 1 \notin old
  <2>1. IsFiniteSet(1..n) /\ old \subseteq 1..n
    BY <1>2, FS_Interval
  <2> QED BY <1>2, <2>1, FS_Subset
<1>5. /\ \A k \in 1..n : Quantities(s)[k] = s[k].qty /\ Quantities(s)[k] \in Int
      /\ \A k \in 1..(n + 1) : Quantities(u)[k] = u[k].qty /\ Quantities(u)[k] \in Int
  <2>1. /\ \A k \in 1..n : Quantities(s)[k] = s[k].qty
        /\ \A k \in 1..(n + 1) : Quantities(u)[k] = u[k].qty
    BY <1>2 DEF Quantities
  <2>2. \A k \in 1..n : s[k].qty \in Int
    BY <1>2 DEF Reservations
  <2>3. \A k \in 1..(n + 1) : u[k].qty \in Int
    BY <1>2, <1>3 DEF Reservations
  <2> QED BY <2>1, <2>2, <2>3
<1>6. GotIn(s, i) = SumOver(Quantities(u), old) /\ GotIn(s, i) \in Int
  <2>1. \A k \in old : Quantities(s)[k] \in Int /\ Quantities(s)[k] = Quantities(u)[k]
    BY <1>2, <1>4, <1>5
  <2> HIDE DEF old
  <2>2. SumOver(Quantities(s), old) = SumOver(Quantities(u), old) /\ SumOver(Quantities(s), old) \in Int
    BY <1>4, <2>1, SumEqual, SumInt
  <2> QED BY <2>2 DEF GotIn, old
<1>7. CASE i = e.line
  <2>1. all = old \cup {n + 1}
    BY <1>2, <1>4, <1>7
  <2>2. \A k \in old \cup {n + 1} : Quantities(u)[k] \in Int
    BY <1>2, <1>4, <1>5
  <2> HIDE DEF old, all
  <2>3. SumOver(Quantities(u), old \cup {n + 1}) = Quantities(u)[n + 1] + SumOver(Quantities(u), old)
    BY <1>4, <2>2, SumAdd
  <2>4. Quantities(u)[n + 1] = e.qty
    BY <1>2, <1>5
  <2>5. GotIn(u, i) = SumOver(Quantities(u), old \cup {n + 1})
    BY <2>1 DEF GotIn, all
  <2>6. GotIn(u, i) = GotIn(s, i) + e.qty
    BY <1>6, <2>3, <2>4, <2>5
  <2> QED BY <1>3, <1>6, <1>7, <2>6 DEF u
<1>8. CASE i # e.line
  <2>1. all = old
    BY <1>2, <1>4, <1>8
  <2>2. GotIn(u, i) = SumOver(Quantities(u), old)
    BY <2>1 DEF GotIn
  <2> QED BY <1>3, <1>6, <1>8, <2>2 DEF u
<1> QED BY <1>7, <1>8

LEMMA GotNothing == \A i : GotIn(<<>>, i) = 0
<1> SUFFICES ASSUME NEW i PROVE GotIn(<<>>, i) = 0
  OBVIOUS
<1>1. {k \in DOMAIN <<>> : <<>>[k].line = i} = {}
  OBVIOUS
<1> QED BY <1>1, SumEmpty DEF GotIn

----------------------------------------------------------------------------
(* The stock, and how far each request is. *)

PickList == Seq([row : DOMAIN stock, qty : Nat])

\* There is no stock of unknown batches, and none that is owed.
StockKnown ==
  /\ IsFiniteSet(DOMAIN stock)
  /\ \A row \in DOMAIN stock : stock[row] \in Nat /\ row[1] \in DOMAIN batches

\* What r has got of each line: before Pos all or nothing, then what it is about
\* to, then nothing.
Reserving(r) ==
  \A i \in DOMAIN wanted[r] :
    /\ i < Pos(r) => GotIn(reserved[r], i) \in {0, wanted[r][i].qty}
    /\ i > Pos(r) \/ (i = Pos(r) /\ At(r, "suggest")) => GotIn(reserved[r], i) = 0
    /\ i = Pos(r) /\ ~At(r, "suggest") =>
         GotIn(reserved[r], i) + Total(Saw(r)) = wanted[r][i].qty

Working(r) ==
  /\ LineList(wanted[r]) /\ Reservations(reserved[r])
  /\ job[r].at \in {"request", "explode", "explodeLines", "insert"} \cup AtWork => Pos(r) \in Nat \ {0}
  /\ At(r, "insert") => LineList(Saw(r))
  /\ job[r].at \notin AtWork \cup {"done", "refused"} => wanted[r] = <<>> /\ reserved[r] = <<>>
  /\ job[r].at \in {"find", "reserve"} =>
       Saw(r) \in PickList /\ Saw(r) # <<>> /\ Pos(r) \in DOMAIN wanted[r]
  /\ job[r].at \in AtWork => Reserving(r)
  /\ At(r, "done") =>
       \A i \in DOMAIN wanted[r] : GotIn(reserved[r], i) \in {0, wanted[r][i].qty}

RequestInv ==
  /\ BomInv /\ DOMAIN reserved = Req
  /\ StockKnown
  /\ \A r \in Req : Working(r)

\* The requests of the others, while rows are only added.
LEMMA OthersWork ==
  ASSUME RequestInv, NEW r \in Req, Step(r), NEW q \in Req \ {r},
         wanted'[q] = wanted[q], reserved'[q] = reserved[q], DOMAIN stock \subseteq DOMAIN stock'
  PROVE  Working(q)'
<1>1. job'[q] = job[q]
  BY StepPlaces DEF RequestInv, BomInv
<1>2. /\ Pos(q)' = Pos(q) /\ Saw(q)' = Saw(q) /\ job'[q].at = job[q].at
      /\ \A p : At(q, p)' = At(q, p)
  BY <1>1 DEF Pos, Saw, At
<1>3. PickList \subseteq PickList'
  <2> DEFINE X == [row : DOMAIN stock, qty : Nat]
             Y == [row : DOMAIN stock', qty : Nat]
  <2>1. X \subseteq Y
    OBVIOUS
  <2> HIDE DEF X, Y
  <2>2. Seq(X) \subseteq Seq(Y)
    BY <2>1, SeqMonotonic
  <2> QED BY <2>2 DEF PickList, X, Y
<1>4. Working(q)
  BY DEF RequestInv
<1>5. Reserving(q) => Reserving(q)'
  BY <1>2 DEF Reserving
<1> QED BY <1>2, <1>3, <1>4, <1>5 DEF Working

LEMMA RequestKept ==
  ASSUME RequestInv, NEW r \in Req, Step(r), DOMAIN reserved' = Req,
         \A q \in Req \ {r} : wanted'[q] = wanted[q] /\ reserved'[q] = reserved[q],
         DOMAIN stock \subseteq DOMAIN stock', StockKnown', Working(r)'
  PROVE  RequestInv'
<1>1. BomInv'
  BY BomInvStep DEF RequestInv, Next
<1>2. \A q \in Req \ {r} : Working(q)'
  BY OthersWork
<1> QED BY <1>1, <1>2 DEF RequestInv

\* A call that is not at work on a request has none.
LEMMA IdleWorks ==
  ASSUME RequestInv, NEW r \in Req, Step(r), wanted'[r] = wanted[r], reserved'[r] = reserved[r],
         job[r].at \notin AtWork, job'[r].at \notin {"insert"} \cup AtWork,
         job'[r].at \in {"request", "explode", "explodeLines"} => Pos(r)' \in Nat \ {0}
  PROVE  Working(r)'
<1>1. /\ wanted[r] = <<>> /\ reserved[r] = <<>> /\ LineList(wanted[r]) /\ Reservations(reserved[r])
  BY StepPlaces DEF RequestInv, BomInv, Working
<1>2. DOMAIN wanted'[r] = {}
  BY <1>1
<1> QED BY <1>1, <1>2 DEF Working, At, AtWork

LEMMA StockKept ==
  ASSUME RequestInv, UNCHANGED <<stock, batches>>
  PROVE  StockKnown' /\ DOMAIN stock \subseteq DOMAIN stock'
BY DEF RequestInv, StockKnown

LEMMA EnterWorks ==
  ASSUME RequestInv, NEW r \in Req, Step(r), Enter(r), UNCHANGED prodVars
  PROVE  RequestInv'
<1>1. Placed /\ Op(r) \in Operations /\ job[r].at = "waiting"
  BY DEF RequestInv, BomInv, PlaceInv, Placed, Enter, At
<1>2. job'[r].at = Op(r) /\ Pos(r)' = 1
  BY <1>1 DEF Enter, Placed, Op, CallOf, Pos
<1>3. Working(r)'
  BY <1>1, <1>2, IdleWorks DEF prodVars, Operations, AtWork
<1> QED BY <1>3, RequestKept, StockKept DEF prodVars, RequestInv

\* The steps that are not of a request, and lead to none.
LEMMA HopsAsideWork ==
  ASSUME RequestInv, NEW r \in Req, Step(r), UNCHANGED <<wanted, reserved>>,
         DOMAIN stock \subseteq DOMAIN stock', StockKnown',
         \/ Hop(r, "aging", {"done"}) \/ AccountsHop(r) \/ SerialsHop(r)
         \/ /\ ProductionHop(r)
            /\ job[r].at \in {"createBom", "updateBom", "deleteLines", "saveBom", "createOrder", "updateOrder", "receiveFg"}
  PROVE  RequestInv'
<1>1. /\ job[r].at \notin AtWork
      /\ job'[r].at \notin {"request", "explode", "explodeLines", "insert"} \cup AtWork
  BY DEF Hop, At, StepsTo, AccountsHop, SerialsHop, ProductionHop, AtWork
<1>2. Working(r)'
  BY <1>1, IdleWorks
<1> QED BY <1>2, RequestKept DEF RequestInv

LEMMA ReceiveFgWorks ==
  ASSUME RequestInv, NEW r \in Req, Step(r), ReceiveFg(r)
  PROVE  RequestInv'
<1> DEFINE c == CallOf(r)
           row == <<c.batch, c.location, "available">>
<1>1. /\ PlaceInv /\ Placed /\ At(r, "receiveFg") /\ UNCHANGED <<wanted, reserved>>
  BY DEF RequestInv, BomInv, PlaceInv, ReceiveFg
<1>2. StockKnown' /\ DOMAIN stock \subseteq DOMAIN stock'
  <2>1. CASE UNCHANGED <<batches, stock>>
    BY <2>1, StockKept
  <2>2. CASE /\ c.qty > 0 /\ stock' = SetAt(stock, row, Qty(row) + c.qty)
             /\ \E b : batches' = SetAt(batches, c.batch, b)
    <3>1. c.qty \in Int /\ Qty(row) \in Nat
      BY <1>1 DEF PlaceInv, Route, Typed, Op, At, Operations, Qty, RequestInv, StockKnown
    <3>2. /\ DOMAIN stock' = DOMAIN stock \cup {row} /\ stock'[row] = Qty(row) + c.qty
          /\ \A x \in DOMAIN stock : x # row => stock'[x] = stock[x]
          /\ DOMAIN batches' = DOMAIN batches \cup {c.batch} /\ row[1] = c.batch
      BY <2>2 DEF SetAt
    <3>3. IsFiniteSet(DOMAIN stock) /\ IsFiniteSet(DOMAIN stock \cup {row})
      BY FS_AddElement DEF RequestInv, StockKnown
    <3> HIDE DEF row
    <3> QED BY <2>2, <3>1, <3>2, <3>3 DEF RequestInv, StockKnown
  <2> QED BY <2>1, <2>2 DEF ReceiveFg
<1>3. ProductionHop(r)
  BY <1>1, ProductionHops DEF ProductionStep
<1> QED BY <1>1, <1>2, <1>3, HopsAsideWork DEF At

----------------------------------------------------------------------------
(* The steps of a request. *)

LEMMA ExplodeWorks ==
  ASSUME RequestInv, NEW r \in Req, Step(r), Explode(r)
  PROVE  RequestInv'
<1>1. /\ PlaceInv /\ Placed /\ At(r, "explode") /\ UNCHANGED <<wanted, reserved, stock, batches>>
      /\ Pos(r) \in Nat \ {0}
  BY DEF RequestInv, BomInv, PlaceInv, Explode, Working, At
<1>2. job'[r].at = "refused" \/ (job'[r].at = "explodeLines" /\ Pos(r)' = Pos(r))
  BY <1>1, ControlSteps DEF Explode, StepsTo, At, Underway, Go, Pos, Placed, Shape
<1>3. Working(r)'
  BY <1>1, <1>2, IdleWorks DEF At, AtWork
<1> QED BY <1>1, <1>3, RequestKept, StockKept DEF RequestInv

\* A request is made of a list.
LEMMA AskedWorks ==
  ASSUME RequestInv, NEW r \in Req, Step(r), NEW lines, LineList(lines),
         job[r].at \in {"request", "explodeLines"},
         UNCHANGED <<wanted, reserved, stock, batches>>,
         Refuse(r) \/ GoWith(r, "insert", lines)
  PROVE  RequestInv'
<1>1. /\ Placed /\ Pos(r) \in Nat \ {0} /\ wanted[r] = <<>> /\ reserved[r] = <<>>
      /\ LineList(wanted[r]) /\ Reservations(reserved[r])
  BY DEF RequestInv, BomInv, PlaceInv, Working, AtWork
<1>2. CASE Refuse(r)
  <2>1. job'[r].at = "refused"
    BY <1>1, <1>2, ControlSteps DEF StepsTo, Underway
  <2>2. Working(r)'
    BY <2>1, IdleWorks DEF AtWork
  <2> QED BY <2>2, RequestKept, StockKept DEF RequestInv
<1>3. CASE GoWith(r, "insert", lines)
  <2>1. job'[r].at = "insert" /\ Saw(r)' = lines /\ Pos(r)' = Pos(r)
    BY <1>1, <1>3 DEF GoWith, Saw, Pos, Placed, Shape
  <2>2. Working(r)'
    BY <1>1, <2>1 DEF Working, At, AtWork
  <2> QED BY <2>2, RequestKept, StockKept DEF RequestInv
<1> QED BY <1>2, <1>3

LEMMA RequestMaterialWorks ==
  ASSUME RequestInv, NEW r \in Req, Step(r), RequestMaterial(r)
  PROVE  RequestInv'
<1> DEFINE lines == CallOf(r).lines
<1>1. At(r, "request") /\ PlaceInv
  BY DEF RequestInv, BomInv, RequestMaterial
<1>2. LineList(lines)
  BY <1>1 DEF PlaceInv, Route, Typed, Op, At, Operations
<1> HIDE DEF lines
<1>3. Refuse(r) \/ GoWith(r, "insert", lines)
  BY DEF RequestMaterial, lines
<1>4. UNCHANGED <<wanted, reserved, stock, batches>>
  BY DEF RequestMaterial
<1> QED BY <1>1, <1>2, <1>3, <1>4, AskedWorks DEF At

\* The lines of an explosion have quantities.
LEMMA ExplodedList ==
  ASSUME NEW lines, BomList(lines), NEW n \in Int
  PROVE  LineList(Exploded(lines, n))
<1> DEFINE e == Exploded(lines, n)
           X == {e[i] : i \in DOMAIN e}
<1>1. Len(lines) \in Nat /\ DOMAIN lines = 1..Len(lines)
  BY LenProperties DEF BomList, LineList
<1>2. DOMAIN e = DOMAIN lines
  BY DEF Exploded
<1>3. ASSUME NEW i \in DOMAIN lines PROVE e[i].qty \in Int
  <2>1. lines[i].qty \in Int /\ lines[i].scrap \in Int
    BY DEF BomList, LineList
  <2>2. e[i].qty = Rounded(lines[i].qty * n * (Scale + AtLeast(0, lines[i].scrap)), Scale * Scale)
    BY DEF Exploded
  <2>3. /\ lines[i].qty * n * (Scale + AtLeast(0, lines[i].scrap)) \in Int
        /\ Scale * Scale \in Nat \ {0}
    <3>1. AtLeast(0, lines[i].scrap) \in Int /\ Scale \in Nat \ {0}
      BY <2>1, ProductionConstants DEF AtLeast
    <3>2. \A x, y, z \in Int : x * y * z \in Int
      OBVIOUS
    <3>3. ASSUME NEW k \in Nat \ {0} PROVE k * k \in Nat \ {0}
      OBVIOUS
    <3>4. Scale + AtLeast(0, lines[i].scrap) \in Int
      BY <3>1
    <3> QED BY <2>1, <3>1, <3>2, <3>3, <3>4
  <2>4. ASSUME NEW a \in Int, NEW b \in Nat \ {0} PROVE Rounded(a, b) \in Int
    <3>1. 2 * a + b \in Int /\ 2 * b \in Nat \ {0}
      OBVIOUS
    <3>2. \A x \in Int, y \in Nat \ {0} : x \div y \in Int
      OBVIOUS
    <3> QED BY <3>1, <3>2 DEF Rounded
  <2> QED BY <2>2, <2>3, <2>4
<1>4. e = [i \in DOMAIN lines |-> e[i]]
  BY DEF Exploded
<1> HIDE DEF e
<1>5. e \in [1..Len(lines) -> X]
  BY <1>1, <1>2, <1>4
<1> HIDE DEF X
<1>6. e \in Seq(X)
  BY <1>1, <1>5, SeqDef
<1> QED BY <1>2, <1>3, <1>6 DEF LineList, X, e

LEMMA ExplodeLinesWorks ==
  ASSUME RequestInv, NEW r \in Req, Step(r), ExplodeLines(r)
  PROVE  RequestInv'
<1> DEFINE c == CallOf(r)
           P == {p.lines : p \in boms[c.bom].parts}
           lines == Exploded(LinesOf(c.bom), c.fgQty)
<1>1. At(r, "explodeLines") /\ PlaceInv /\ BomInv /\ c.bom \in DOMAIN boms
  BY DEF RequestInv, BomInv, SeenWhole, At, ExplodeLines
<1>2. c.fgQty \in Int
  BY <1>1 DEF PlaceInv, Route, Typed, Op, At
<1>3. IsFiniteSet(P) /\ \A l \in P : BomList(l)
  <2>1. IsFiniteSet(boms[c.bom].parts) /\ \A p \in boms[c.bom].parts : BomList(p.lines)
    BY <1>1 DEF BomInv, BomsWhole
  <2>2. IsFiniteSet(P)
    <3> DEFINE S == boms[c.bom].parts
               f == [p \in S |-> p.lines]
    <3>1. f \in Surjection(S, P)
      BY DEF Surjection
    <3> HIDE DEF f, S, P
    <3> QED BY <2>1, <3>1, FS_Surjection DEF S
  <2> QED BY <2>1, <2>2
<1>4. LinesOf(c.bom) = FlattenSeq(SetToSeq(P))
  BY DEF LinesOf
<1> HIDE DEF P
<1>5. BomList(LinesOf(c.bom))
  BY <1>3, <1>4, ListsFlatten
<1>6. LineList(lines)
  BY <1>2, <1>5, ExplodedList
<1>7. (Refuse(r) \/ GoWith(r, "insert", lines)) /\ UNCHANGED <<wanted, reserved, stock, batches>>
  BY DEF ExplodeLines
<1> HIDE DEF lines
<1> QED BY <1>1, <1>6, <1>7, AskedWorks DEF At

LEMMA InsertWorks ==
  ASSUME RequestInv, NEW r \in Req, Step(r), InsertRequest(r)
  PROVE  RequestInv'
<1>1. /\ Placed /\ At(r, "insert") /\ Pos(r) \in Nat \ {0} /\ reserved[r] = <<>>
      /\ LineList(Saw(r)) /\ Reservations(reserved[r]) /\ DOMAIN wanted = Req
  BY DEF RequestInv, BomInv, PlaceInv, Working, AtWork, At, InsertRequest
<1>2. DOMAIN wanted' = Req /\ \A q \in Req \ {r} : wanted'[q] = wanted[q]
  BY <1>1 DEF InsertRequest
<1>3. UNCHANGED <<reserved, stock, batches>>
  BY DEF InsertRequest
<1>4. CASE wanted' = [wanted EXCEPT ![r] = Saw(r)] /\ Go(r, "suggest")
  <2>1. job'[r].at = "suggest" /\ Pos(r)' = Pos(r) /\ wanted'[r] = Saw(r)
    BY <1>1, <1>4, ControlSteps DEF StepsTo, At, Underway, Go, Pos, Placed, Shape
  <2>2. Reserving(r)'
    BY <1>1, <1>3, <2>1, GotNothing DEF Reserving, At
  <2>3. Working(r)'
    BY <1>1, <1>3, <2>1, <2>2 DEF Working, At, AtWork
  <2> QED BY <1>1, <1>2, <1>3, <2>3, RequestKept, StockKept DEF RequestInv
<1>5. CASE Refuse(r) /\ UNCHANGED wanted
  <2>1. job'[r].at = "refused"
    BY <1>1, <1>5, ControlSteps DEF StepsTo, At, Underway
  <2>2. Working(r)'
    BY <1>1, <2>1, <1>3, <1>5, IdleWorks DEF At, AtWork
  <2> QED BY <1>1, <1>2, <1>3, <2>2, RequestKept, StockKept DEF RequestInv
<1> QED BY <1>4, <1>5 DEF InsertRequest

\* What is suggested for a line takes from rows that there are.
LEMMA SuggestionsSound ==
  ASSUME StockKnown, NEW m, NEW need \in Int, NEW picks \in Suggestions(m, need)
  PROVE  /\ picks \in PickList
         /\ FullyCovered(picks, need) /\ picks # <<>> => Total(picks) = need
<1> DEFINE T == DOMAIN stock
           n == Cardinality(Available(m))
<1>1. PICK rows \in SetToSeqs(Available(m)) : picks = Picks(rows, need)
  BY DEF Suggestions
<1>2. Available(m) \subseteq T
  BY DEF Available
<1>3. n \in Nat
  BY <1>2, FS_Subset, FS_CardinalityType DEF StockKnown
<1>4. rows \in [1..n -> T]
  BY <1>1, <1>2 DEF SetToSeqs
<1>5. \A row \in T : stock[row] \in Nat
  BY DEF StockKnown
<1> HIDE DEF T, n
<1>6. /\ Picks(rows, need) \in Seq([row : T, qty : Nat])
      /\ Picks(rows, need) # <<>> /\ Total(Picks(rows, need)) >= need =>
           Total(Picks(rows, need)) = need
  BY <1>3, <1>4, <1>5, PicksSound
<1> QED BY <1>1, <1>6 DEF PickList, FullyCovered, T

LEMMA SuggestWorks ==
  ASSUME RequestInv, NEW r \in Req, Step(r), Suggest(r)
  PROVE  RequestInv'
<1>1. /\ Placed /\ At(r, "suggest") /\ Pos(r) \in Nat \ {0} /\ LineList(wanted[r])
      /\ Reservations(reserved[r]) /\ Reserving(r)
      /\ UNCHANGED <<wanted, reserved, stock, batches>>
  BY DEF RequestInv, BomInv, PlaceInv, Working, AtWork, At, Suggest
<1>2. DOMAIN wanted[r] = 1..Len(wanted[r]) /\ Len(wanted[r]) \in Nat
  BY <1>1, LenProperties DEF LineList
<1>3. CASE Pos(r) > Len(wanted[r]) /\ Done(r)
  <2>1. job'[r].at = "done"
    BY <1>1, <1>3, ControlSteps DEF StepsTo, At, Underway
  <2>2. \A i \in DOMAIN wanted[r] : GotIn(reserved[r], i) \in {0, wanted[r][i].qty}
    BY <1>1, <1>2, <1>3 DEF Reserving
  <2> QED BY <1>1, <2>1, <2>2, RequestKept, StockKept DEF RequestInv, Working, At, AtWork
<1>4. CASE /\ Pos(r) \in DOMAIN wanted[r]
           /\ GoTo(r, "suggest", Pos(r) + 1)
  <2>1. job'[r].at = "suggest" /\ Pos(r)' = Pos(r) + 1
    BY <1>1, <1>4 DEF GoTo, Pos, At, Placed, Shape
  <2>2. Reserving(r)'
    BY <1>1, <1>2, <2>1 DEF Reserving, At
  <2>3. Working(r)'
    BY <1>1, <2>1, <2>2 DEF Working, At, AtWork
  <2> QED BY <1>1, <2>3, RequestKept, StockKept DEF RequestInv
<1>5. ASSUME NEW picks, picks \in PickList, picks # <<>>, Pos(r) \in DOMAIN wanted[r],
             Total(picks) = wanted[r][Pos(r)].qty, GoWith(r, "find", picks)
      PROVE  RequestInv'
  <2>1. job'[r].at = "find" /\ Pos(r)' = Pos(r) /\ Saw(r)' = picks
    BY <1>1, <1>5 DEF GoWith, Pos, Saw, At, Placed, Shape
  <2>2. wanted[r][Pos(r)].qty \in Int
    BY <1>1, <1>5 DEF LineList
  <2>3. Reserving(r)'
    <3> SUFFICES ASSUME NEW i \in DOMAIN wanted[r]
                 PROVE  /\ i < Pos(r) => GotIn(reserved[r], i) \in {0, wanted[r][i].qty}
                        /\ i > Pos(r) => GotIn(reserved[r], i) = 0
                        /\ i = Pos(r) => GotIn(reserved[r], i) + Total(picks) = wanted[r][i].qty
      BY <1>1, <2>1 DEF Reserving, At, Total, Quantities, GotIn
    <3>1. i \in Nat
      BY <1>2
    <3>2. i = Pos(r) => GotIn(reserved[r], i) = 0
      BY <1>1 DEF Reserving
    <3> QED BY <1>1, <1>5, <2>2, <3>1, <3>2 DEF Reserving
  <2>4. picks \in PickList'
    BY <1>1, <1>5 DEF PickList
  <2>5. Working(r)'
    BY <1>1, <1>5, <2>1, <2>3, <2>4 DEF Working, At, AtWork
  <2> QED BY <1>1, <2>5, RequestKept, StockKept DEF RequestInv
<1>6. CASE ~(Pos(r) > Len(wanted[r]))
  <2> DEFINE line == wanted[r][Pos(r)]
  <2>1. Pos(r) \in DOMAIN wanted[r]
    BY <1>1, <1>2, <1>6
  <2>2. line.qty \in Int
    BY <1>1, <2>1 DEF LineList
  <2>3. PICK picks \in Suggestions(line.material, line.qty) :
          IF FullyCovered(picks, line.qty) /\ picks # <<>>
            THEN GoWith(r, "find", picks)
            ELSE GoTo(r, "suggest", Pos(r) + 1)
    BY <1>6 DEF Suggest
  <2>4. /\ picks \in PickList
        /\ FullyCovered(picks, line.qty) /\ picks # <<>> => Total(picks) = line.qty
    BY <2>2, SuggestionsSound DEF RequestInv
  <2> QED BY <1>4, <1>5, <2>1, <2>3, <2>4
<1> QED BY <1>3, <1>6 DEF Suggest

LEMMA FindRowWorks ==
  ASSUME RequestInv, NEW r \in Req, Step(r), FindRow(r)
  PROVE  RequestInv'
<1>1. /\ Placed /\ At(r, "find") /\ Pos(r) \in Nat \ {0} /\ LineList(wanted[r])
      /\ Reservations(reserved[r]) /\ Reserving(r)
      /\ UNCHANGED <<wanted, reserved, stock, batches>>
      /\ Saw(r) \in PickList /\ Saw(r) # <<>> /\ Pos(r) \in DOMAIN wanted[r]
  BY DEF RequestInv, BomInv, PlaceInv, Working, AtWork, At, FindRow
<1>2. CASE Refuse(r)
  <2>1. job'[r].at = "refused"
    BY <1>1, <1>2, ControlSteps DEF StepsTo, At, Underway
  <2> QED BY <1>1, <2>1, RequestKept, StockKept DEF RequestInv, Working, At, AtWork
<1>3. ASSUME NEW row \in DOMAIN stock,
             GoWith(r, "reserve", <<[Head(Saw(r)) EXCEPT !.row = row]>> \o Tail(Saw(r)))
      PROVE  RequestInv'
  <2> DEFINE T == [row : DOMAIN stock, qty : Nat]
             y == [Head(Saw(r)) EXCEPT !.row = row]
             new == <<y>> \o Tail(Saw(r))
  <2>1. Head(Saw(r)) \in T
    <3>1. Saw(r) \in Seq(T) /\ Saw(r) # <<>>
      BY <1>1 DEF PickList
    <3> HIDE DEF T
    <3> QED BY <3>1
  <2>2. y \in T /\ y.qty = Head(Saw(r)).qty
    BY <2>1
  <2>3. \A x \in T : x.qty \in Int
    OBVIOUS
  <2>4. Saw(r) \in Seq(T) /\ Saw(r) # <<>>
    BY <1>1 DEF PickList
  <2> HIDE DEF T, y
  <2>5. new \in Seq(T) /\ new # <<>> /\ Total(new) = Total(Saw(r))
    BY <2>2, <2>3, <2>4, TotalRowFound
  <2>6. GoWith(r, "reserve", new)
    BY <1>3 DEF y
  <2> HIDE DEF new
  <2>7. job'[r].at = "reserve" /\ Pos(r)' = Pos(r) /\ Saw(r)' = new
    BY <1>1, <2>6 DEF GoWith, Pos, Saw, At, Placed, Shape
  <2>8. Reserving(r)'
    <3>1. Total(Saw(r))' = Total(Saw(r))
      BY <2>5, <2>7 DEF Total, Quantities
    <3> QED BY <1>1, <2>7, <3>1 DEF Reserving, At
  <2>9. new \in PickList'
    BY <1>1, <2>5 DEF PickList, T
  <2>10. Working(r)'
    BY <1>1, <2>5, <2>7, <2>8, <2>9 DEF Working, At, AtWork
  <2> QED BY <1>1, <2>10, RequestKept, StockKept DEF RequestInv
<1> QED BY <1>2, <1>3 DEF FindRow

LEMMA ReserveWorks ==
  ASSUME RequestInv, NEW r \in Req, Step(r), Reserve(r)
  PROVE  RequestInv'
<1> DEFINE pick == Head(Saw(r))
           rest == Tail(Saw(r))
           to == <<pick.row[1], pick.row[2], "reserved">>
           e == [line |-> Pos(r), batch |-> pick.row[1], qty |-> pick.qty]
           T == [row : DOMAIN stock, qty : Nat]
<1>1. /\ Placed /\ At(r, "reserve") /\ Pos(r) \in Nat \ {0} /\ LineList(wanted[r])
      /\ Reservations(reserved[r]) /\ Reserving(r)
      /\ UNCHANGED <<wanted, batches>>
      /\ Saw(r) \in Seq(T) /\ Saw(r) # <<>> /\ Pos(r) \in DOMAIN wanted[r]
      /\ DOMAIN reserved = Req /\ StockKnown
  BY DEF RequestInv, BomInv, PlaceInv, Working, AtWork, At, Reserve, PickList
<1>2. CASE Refuse(r) /\ UNCHANGED <<stock, reserved>>
  <2>1. job'[r].at = "refused"
    BY <1>1, <1>2, ControlSteps DEF StepsTo, At, Underway
  <2>2. Working(r)'
    BY <1>1, <1>2, <2>1 DEF RequestInv, Working, At, AtWork
  <2> QED BY <1>1, <1>2, <2>2, RequestKept, StockKept DEF RequestInv
<1>3. CASE /\ StillEnough(pick)
           /\ stock' = SetAt([stock EXCEPT ![pick.row] = @ - pick.qty], to, Qty(to) + pick.qty)
           /\ reserved' = [reserved EXCEPT ![r] = Append(@, e)]
           /\ IF rest = <<>> THEN GoTo(r, "suggest", Pos(r) + 1) ELSE GoWith(r, "find", rest)
  <2>1. pick \in T /\ rest \in Seq(T)
    <3> HIDE DEF T
    <3> QED BY <1>1
  <2>2. pick.row \in DOMAIN stock /\ pick.qty \in Nat
    BY <2>1
  <2>3. /\ Total(Saw(r)) = pick.qty + Total(rest) /\ Total(rest) \in Int
        /\ rest = <<>> => Total(rest) = 0
    <3>1. \A x \in T : x.qty \in Int
      OBVIOUS
    <3> HIDE DEF T
    <3>2. Total(Saw(r)) = pick.qty + Total(rest) /\ Total(rest) \in Int
      BY <1>1, <3>1, TotalTail
    <3>3. ASSUME rest = <<>> PROVE Total(rest) = 0
      <4>1. DOMAIN rest = {}
        BY <3>3
      <4> QED BY <4>1, SumEmpty DEF Total
    <3> QED BY <3>2, <3>3
  <2> HIDE DEF T
  <2>4. StockKnown' /\ DOMAIN stock \subseteq DOMAIN stock'
    <3>1. stock[pick.row] \in Nat /\ stock[pick.row] >= pick.qty
      BY <1>1, <1>3, <2>2 DEF StillEnough, Qty, StockKnown
    <3>2. Qty(to) \in Nat
      BY <1>1 DEF Qty, StockKnown
    <3>3. to[1] = pick.row[1] /\ pick.row[1] \in DOMAIN batches
      BY <1>1, <2>2 DEF StockKnown
    <3>4. IsFiniteSet(DOMAIN stock \cup {to})
      BY <1>1, FS_AddElement DEF StockKnown
    <3> HIDE DEF pick, to
    <3>5. /\ DOMAIN stock' = DOMAIN stock \cup {to} /\ stock'[to] = Qty(to) + pick.qty
          /\ \A x \in DOMAIN stock : x # to =>
               stock'[x] = IF x = pick.row THEN stock[x] - pick.qty ELSE stock[x]
      BY <1>3 DEF SetAt
    <3> QED BY <1>1, <2>2, <3>1, <3>2, <3>3, <3>4, <3>5 DEF StockKnown
  <2>5. /\ DOMAIN reserved' = Req /\ reserved'[r] = Append(reserved[r], e)
        /\ \A q \in Req \ {r} : reserved'[q] = reserved[q]
    BY <1>1, <1>3
  <2>6. e.line = Pos(r) /\ e.line \in Nat /\ e.qty \in Nat /\ e.qty = pick.qty
    BY <1>1, <2>2
  <2> HIDE DEF e
  <2>7. Reservations(reserved'[r])
    BY <1>1, <2>5, <2>6, GotAppend
  <2>8. \A i : /\ GotIn(reserved[r], i) \in Int
               /\ GotIn(reserved'[r], i) =
                    IF i = Pos(r) THEN GotIn(reserved[r], i) + pick.qty ELSE GotIn(reserved[r], i)
    BY <1>1, <2>5, <2>6, GotAppend
  <2>9. \A i \in DOMAIN wanted[r] : i \in Nat
    BY <1>1, LenProperties DEF LineList
  <2>10. \A i \in DOMAIN wanted[r] :
           /\ i < Pos(r) => GotIn(reserved'[r], i) \in {0, wanted[r][i].qty}
           /\ i > Pos(r) => GotIn(reserved'[r], i) = 0
           /\ i = Pos(r) => GotIn(reserved'[r], i) + Total(rest) = wanted[r][i].qty
    <3> SUFFICES ASSUME NEW i \in DOMAIN wanted[r]
                 PROVE  /\ i < Pos(r) => GotIn(reserved'[r], i) \in {0, wanted[r][i].qty}
                        /\ i > Pos(r) => GotIn(reserved'[r], i) = 0
                        /\ i = Pos(r) => GotIn(reserved'[r], i) + Total(rest) = wanted[r][i].qty
      OBVIOUS
    <3>1. i = Pos(r) => GotIn(reserved[r], i) + Total(Saw(r)) = wanted[r][i].qty
      BY <1>1 DEF Reserving, At
    <3> HIDE DEF rest, pick
    <3>2. i = Pos(r) => GotIn(reserved'[r], i) + Total(rest) = wanted[r][i].qty
      BY <2>2, <2>3, <2>8, <3>1
    <3> QED BY <1>1, <2>8, <2>9, <3>2 DEF Reserving
  <2>11. CASE rest = <<>> /\ GoTo(r, "suggest", Pos(r) + 1)
    <3>1. job'[r].at = "suggest" /\ Pos(r)' = Pos(r) + 1
      BY <1>1, <2>11 DEF GoTo, Pos, At, Placed, Shape
    <3>2. Reserving(r)'
      <4> SUFFICES ASSUME NEW i \in DOMAIN wanted[r]
                   PROVE  /\ i < Pos(r) + 1 => GotIn(reserved'[r], i) \in {0, wanted[r][i].qty}
                          /\ i >= Pos(r) + 1 => GotIn(reserved'[r], i) = 0
        <5>1. Pos(r) + 1 \in Nat /\ wanted'[r] = wanted[r]
          BY <1>1
        <5> QED BY <2>9, <3>1, <5>1 DEF Reserving, At
      <4>1. GotIn(reserved'[r], i) \in Int
        BY <1>1, <2>2, <2>8
      <4> QED BY <1>1, <2>3, <2>9, <2>10, <2>11, <4>1
    <3>3. Working(r)'
      BY <1>1, <2>7, <3>1, <3>2 DEF Working, At, AtWork
    <3> QED BY <1>1, <2>4, <2>5, <3>3, RequestKept
  <2>12. CASE rest # <<>> /\ GoWith(r, "find", rest)
    <3>1. job'[r].at = "find" /\ Pos(r)' = Pos(r) /\ Saw(r)' = rest
      BY <1>1, <2>12 DEF GoWith, Pos, Saw, At, Placed, Shape
    <3>2. Reserving(r)'
      <4>1. Total(Saw(r))' = Total(rest)
        BY <3>1 DEF Total, Quantities
      <4> QED BY <1>1, <2>10, <3>1, <4>1 DEF Reserving, At
    <3>3. rest \in PickList'
      <4> DEFINE X == [row : DOMAIN stock', qty : Nat]
      <4>1. T \subseteq X
        BY <2>4 DEF T
      <4> HIDE DEF X
      <4>2. rest \in Seq(X)
        BY <2>1, <4>1, SeqMonotonic
      <4> QED BY <4>2 DEF PickList, X
    <3>4. Working(r)'
      BY <1>1, <2>7, <2>12, <3>1, <3>2, <3>3 DEF Working, At, AtWork
    <3> QED BY <1>1, <2>4, <2>5, <3>4, RequestKept
  <2> QED BY <1>3, <2>11, <2>12
<1> QED BY <1>2, <1>3 DEF Reserve

LEMMA RequestInvInit == BackOfficeInit => RequestInv
<1> SUFFICES ASSUME BackOfficeInit PROVE RequestInv
  OBVIOUS
<1>1. /\ BomInv /\ stock = Stock0 /\ batches = Batches0
      /\ wanted = [r \in Req |-> <<>>] /\ reserved = [r \in Req |-> <<>>]
      /\ \A r \in Req : job[r].at = "waiting"
  BY BomInvInit DEF BackOfficeInit, ProductionInit, HandlersInit
<1>2. StockKnown
  BY <1>1, ProductionConstants DEF StockKnown
<1>3. LineList(<<>>) /\ Reservations(<<>>)
  BY DEF LineList, Reservations
<1> QED BY <1>1, <1>2, <1>3 DEF RequestInv, Working, At, AtWork

LEMMA RequestInvStep == RequestInv /\ [Next]_vars => RequestInv'
<1> SUFFICES ASSUME RequestInv, [Next]_vars PROVE RequestInv'
  OBVIOUS
<1>1. ASSUME NEW r \in Req, Step(r) PROVE RequestInv'
  <2>0. Placed
    BY DEF RequestInv, BomInv, PlaceInv
  <2>1. CASE (Analyze(r) \/ AccountsStep(r) \/ SerialsStep(r)) /\ UNCHANGED prodVars
    <3>1. Hop(r, "aging", {"done"}) \/ AccountsHop(r) \/ SerialsHop(r)
      BY <2>0, <2>1, ReportHops, AccountsHops, SerialsHops
    <3>2. StockKnown' /\ DOMAIN stock \subseteq DOMAIN stock' /\ UNCHANGED <<wanted, reserved>>
      BY <2>1, StockKept DEF prodVars
    <3> QED BY <1>1, <3>1, <3>2, HopsAsideWork
  <2>2. CASE CreateBom(r) \/ UpdateBom(r) \/ DeleteLines(r) \/ SaveBom(r) \/ SaveOrder(r)
    <3>1. /\ UNCHANGED <<wanted, reserved, stock, batches>>
          /\ job[r].at \in {"createBom", "updateBom", "deleteLines", "saveBom", "createOrder", "updateOrder"}
      BY <2>2 DEF CreateBom, UpdateBom, DeleteLines, SaveBom, SaveOrder, UnchangedBoms, UnchangedStock, At
    <3>2. ProductionHop(r)
      BY <2>0, <2>2, ProductionHops DEF ProductionStep
    <3> QED BY <1>1, <3>1, <3>2, StockKept, HopsAsideWork
  <2> QED BY <1>1, <2>1, <2>2, EnterWorks, ReceiveFgWorks, ExplodeWorks, ExplodeLinesWorks,
             RequestMaterialWorks, InsertWorks, SuggestWorks, FindRowWorks, ReserveWorks
          DEF Step, ProductionStep, Analyze
<1>2. CASE UNCHANGED vars
  <2>1. BomInv' /\ StockKnown' /\ DOMAIN reserved' = Req
    BY <1>2, BomInvStep DEF RequestInv, StockKnown, vars
  <2>2. ASSUME NEW r \in Req PROVE Working(r)'
    <3>1. Working(r)
      BY DEF RequestInv
    <3> QED BY <1>2, <3>1 DEF vars, Working, Reserving, PickList, At, Pos, Saw
  <2> QED BY <2>1, <2>2 DEF RequestInv
<1> QED BY <1>1, <1>2 DEF Next, Finished

\* Each line of an acknowledged material request is reserved as a whole or not at
\* all, whatever others take from the stock meanwhile
\* (production.service.ts:205-225, bom.service.ts:235-255).
THEOREM ReservesWholeLines == Spec => []LineReservedWholly
<1>1. RequestInv => LineReservedWholly
  <2>1. \A r, i : Got(r, i) = GotIn(reserved[r], i)
    BY DEF Got, OfLine, GotIn
  <2> QED BY <2>1 DEF RequestInv, Working, LineReservedWholly, At
<1> QED BY <1>1, RequestInvInit, RequestInvStep, PTL DEF Spec

----------------------------------------------------------------------------
(* What goes first. *)

\* The stock of a batch that is there to be had.
AvailRows(x) == {row \in DOMAIN stock : row[1] = x /\ row[3] = "available"}
AvailOf(x) == SumOver(stock, AvailRows(x))

\* What the picks before the j-th take of a batch.
Before(s, j, x) == {i \in 1..(j - 1) : s[i].row[1] = x}
Ahead(s, j, x) == SumOver(Quantities(s), Before(s, j, x))

\* No other call has moved the material of a batch.
Undisturbed(r, b) == <<"material", batches[b].material>> \notin disturbed[r]

\* Batch x is of the material of b, and should go before it.
GoesFirst(x, b) ==
  /\ x \in DOMAIN batches /\ batches[x].material = batches[b].material
  /\ Sooner(batches[b].material, x, b)

\* No stock is left of what should go before a batch that r has reserved ...
TakenFirst(r) ==
  \A k \in DOMAIN reserved[r] :
    LET b == reserved[r][k].batch IN
      /\ b \in DOMAIN batches
      /\ Undisturbed(r, b) => \A x : GoesFirst(x, b) => AvailOf(x) = 0

\* ... and of what should go before a batch that it is about to reserve, no more
\* than it takes before that.
TakesFirst(r) ==
  \A j \in DOMAIN Saw(r) :
    LET b == Saw(r)[j].row[1] IN
      Undisturbed(r, b) => \A x : GoesFirst(x, b) => AvailOf(x) = Ahead(Saw(r), j, x)

Oldest(r) ==
  /\ job[r].at \in AtWork => TakenFirst(r)
  /\ job[r].at \in {"find", "reserve"} => TakesFirst(r)
  /\ At(r, "reserve") => Head(Saw(r)).row[3] = "available"

BatchesDated == \A x \in DOMAIN batches : Dated(batches[x])

OldestInv == RequestInv /\ BatchesDated /\ \A r \in Req : Oldest(r)

\* What an available quantity is made of.
LEMMA AvailFacts ==
  ASSUME StockKnown, NEW x
  PROVE  /\ IsFiniteSet(AvailRows(x)) /\ AvailRows(x) \subseteq DOMAIN stock
         /\ \A row \in AvailRows(x) : stock[row] \in Int /\ stock[row] \in Nat
         /\ AvailOf(x) \in Nat
<1>1. AvailRows(x) \subseteq DOMAIN stock
  BY DEF AvailRows
<1>2. IsFiniteSet(AvailRows(x))
  BY <1>1, FS_Subset DEF StockKnown
<1>3. \A row \in AvailRows(x) : stock[row] \in Int /\ stock[row] \in Nat
  BY <1>1 DEF StockKnown
<1>4. AvailOf(x) \in Int
  BY <1>2, <1>3, SumInt DEF AvailOf
<1>5. SumOver([row \in AvailRows(x) |-> 0], AvailRows(x)) = 0
  BY <1>2, SumZero
<1>6. SumOver([row \in AvailRows(x) |-> 0], AvailRows(x)) <= AvailOf(x)
  <2> DEFINE z == [row \in AvailRows(x) |-> 0]
  <2>1. \A row \in AvailRows(x) : z[row] \in Int /\ stock[row] \in Int /\ z[row] <= stock[row]
    BY <1>3
  <2> HIDE DEF z
  <2>2. SumOver(z, AvailRows(x)) <= SumOver(stock, AvailRows(x))
    BY <1>2, <2>1, SumMonotone
  <2> QED BY <2>2 DEF AvailOf, z
<1> QED BY <1>1, <1>2, <1>3, <1>4, <1>5, <1>6

\* Where nothing of a batch is available, none of its rows has stock.
LEMMA NothingAvailable ==
  ASSUME StockKnown, NEW x, AvailOf(x) = 0, NEW row \in AvailRows(x)
  PROVE  stock[row] = 0
<1> DEFINE S == AvailRows(x)
<1>1. IsFiniteSet(S) /\ \A y \in S : stock[y] \in Int /\ stock[y] \in Nat
  BY AvailFacts
<1>2. IsFiniteSet(S \ {row}) /\ SumOver(stock, S) = stock[row] + SumOver(stock, S \ {row})
  BY <1>1, FS_Subset, SumRemove
<1> DEFINE R == S \ {row}
           z == [y \in R |-> 0]
<1>3. SumOver(z, R) <= SumOver(stock, R) /\ SumOver(z, R) = 0 /\ SumOver(stock, R) \in Int
  <2>1. \A y \in R : z[y] \in Int /\ stock[y] \in Int /\ z[y] <= stock[y] /\ z[y] = 0
    BY <1>1
  <2>2. IsFiniteSet(R)
    BY <1>2
  <2> HIDE DEF z, R
  <2> QED BY <2>1, <2>2, SumMonotone, SumZero, SumInt
<1>4. stock[row] \in Nat /\ SumOver(stock, S) = 0
  BY <1>1 DEF AvailOf
<1> HIDE DEF z, S
<1> QED BY <1>2, <1>3, <1>4 DEF R

\* What happens to other batches leaves what is available of one.
LEMMA AvailKept ==
  ASSUME StockKnown, NEW x,
         \A row : row[1] = x /\ row[3] = "available" =>
           /\ row \in DOMAIN stock' <=> row \in DOMAIN stock
           /\ row \in DOMAIN stock => stock'[row] = stock[row]
  PROVE  AvailOf(x)' = AvailOf(x)
<1>1. AvailRows(x)' = AvailRows(x)
  BY DEF AvailRows
<1>2. \A row \in AvailRows(x) : stock[row] \in Int /\ stock[row] = stock'[row]
  BY AvailFacts DEF AvailRows
<1>3. SumOver(stock, AvailRows(x)) = SumOver(stock', AvailRows(x))
  BY <1>2, AvailFacts, SumEqual
<1> QED BY <1>1, <1>3 DEF AvailOf

----------------------------------------------------------------------------
(* What is suggested goes first. *)

\* The order of the query keeps to the policy.
LEMMA SoonerPrecedes ==
  ASSUME BatchesDated, NEW m, NEW x, NEW y, x[1] \in DOMAIN batches, y[1] \in DOMAIN batches
  PROVE  /\ Sooner(m, x[1], y[1]) => Precedes(UsesFefo(m), x, y)
         /\ ~Sooner(m, x[1], x[1])
<1>1. UsesFefo(m) <=> ("fefoEnabled" \in DOMAIN settings /\ settings.fefoEnabled /\ m \in ShelfLife)
  BY DEF UsesFefo, ResolveStorePolicy, Resolved, DefaultStore
<1>2. Sooner(m, x[1], y[1]) => Precedes(UsesFefo(m), x, y)
  BY <1>1 DEF Sooner, Precedes
<1>3. batches[x[1]].received \in Int /\ batches[x[1]].expiry \in Int
  BY DEF BatchesDated, Dated
<1> QED BY <1>2, <1>3 DEF Sooner

LEMMA SuggestionsFirst ==
  ASSUME StockKnown, BatchesDated, NEW m, NEW need \in Int, NEW picks \in Suggestions(m, need),
         NEW j \in DOMAIN picks, NEW x, GoesFirst(x, picks[j].row[1])
  PROVE  AvailOf(x) = Ahead(picks, j, x)
<1> DEFINE n == Cardinality(Available(m))
<1>1. PICK rows \in SetToSeqs(Available(m)) :
        /\ picks = Picks(rows, need)
        /\ \A i, k \in DOMAIN rows : i < k => ~Precedes(UsesFefo(m), rows[k], rows[i])
  BY DEF Suggestions
<1>2. Available(m) \subseteq DOMAIN stock /\ IsFiniteSet(Available(m)) /\ n \in Nat
  <2>1. Available(m) \subseteq DOMAIN stock
    BY DEF Available
  <2> QED BY <2>1, FS_Subset, FS_CardinalityType DEF StockKnown
<1>3. /\ rows \in [1..n -> Available(m)] /\ DOMAIN rows = 1..n
      /\ \A i, k \in 1..n : rows[i] = rows[k] => i = k
  BY <1>1 DEF SetToSeqs
<1>4. \A row \in Available(m) : \E i \in 1..n : rows[i] = row
  <2>1. IsFiniteSet(1..n) /\ Cardinality(1..n) = n
    BY <1>2, FS_Interval
  <2>2. rows \in Injection(1..n, Available(m))
    BY <1>3 DEF Injection, IsInjective
  <2> HIDE DEF n
  <2>3. rows \in Surjection(1..n, Available(m))
    BY <1>2, <2>1, <2>2, FS_Injection DEF n
  <2> QED BY <2>3 DEF Surjection
<1>5. InOrder(picks, rows, n)
  <2>1. rows \in [1..n -> DOMAIN stock] /\ \A row \in DOMAIN stock : stock[row] \in Nat
    BY <1>2, <1>3 DEF StockKnown
  <2> HIDE DEF n
  <2>2. InOrder(Picks(rows, need), rows, n)
    BY <1>2, <2>1, PicksSound
  <2> QED BY <1>1, <2>2
<1>6. PICK k \in 0..n : /\ DOMAIN picks = 1..k
                        /\ \A i \in 1..k : picks[i].row = rows[i]
                        /\ \A i \in 1..(k - 1) : picks[i].qty = stock[rows[i]]
  BY <1>5 DEF InOrder
<1> HIDE DEF n
<1>7. PICK b : /\ b = picks[j].row[1] /\ b = rows[j][1] /\ j \in 1..k /\ j \in 1..n
               /\ rows[j] \in Available(m) /\ b \in DOMAIN batches /\ batches[b].material = m
               /\ x \in DOMAIN batches /\ batches[x].material = m /\ Sooner(m, x, b)
  <2>1. j \in 1..k /\ j \in 1..n /\ picks[j].row = rows[j]
    BY <1>2, <1>6
  <2>2. rows[j] \in Available(m)
    BY <1>3, <2>1
  <2>3. rows[j][1] \in DOMAIN batches /\ batches[rows[j][1]].material = m
    BY <2>2 DEF Available, StockKnown
  <2> QED BY <2>1, <2>2, <2>3 DEF GoesFirst
<1> DEFINE I == Before(picks, j, x)
           R == {rows[i] : i \in I}
<1>8. /\ I \subseteq 1..(j - 1) /\ IsFiniteSet(I)
      /\ \A i \in I : i \in 1..n /\ i \in 1..k /\ i \in 1..(k - 1) /\ rows[i][1] = x
      /\ \A i \in 1..(j - 1) : rows[i][1] = x => i \in I
  <2>1. \A i \in 1..(j - 1) : i \in 1..n /\ i \in 1..k /\ i \in 1..(k - 1)
    BY <1>2, <1>7
  <2>2. I \subseteq 1..(j - 1)
    BY DEF Before
  <2>3. IsFiniteSet(1..(j - 1))
    <3>1. j - 1 \in Int
      BY <1>7
    <3> QED BY <3>1, FS_Interval
  <2>4. IsFiniteSet(I)
    <3> HIDE DEF I
    <3> QED BY <2>2, <2>3, FS_Subset
  <2> QED BY <1>6, <2>1, <2>2, <2>4 DEF Before
<1> HIDE DEF I
<1>9. R \subseteq AvailRows(x)
  <2> SUFFICES ASSUME NEW i \in I PROVE rows[i] \in AvailRows(x)
    OBVIOUS
  <2>1. rows[i] \in Available(m) /\ rows[i][1] = x
    BY <1>3, <1>8
  <2> QED BY <2>1 DEF Available, AvailRows
<1>10. ASSUME NEW row \in AvailRows(x) \ R PROVE stock[row] = 0
  <2> SUFFICES ASSUME stock[row] > 0 PROVE FALSE
    BY AvailFacts
  <2>1. row \in Available(m)
    BY <1>7 DEF Available, AvailRows
  <2>2. PICK i \in 1..n : rows[i] = row
    BY <1>4, <2>1
  <2>3. i \notin 1..(j - 1) /\ row[1] = x
    BY <1>8, <2>2 DEF AvailRows
  <2>4. i # j
    BY <1>7, <2>2, <2>3, SoonerPrecedes
  <2>5. j < i
    BY <1>7, <2>3, <2>4
  <2>6. Precedes(UsesFefo(m), rows[i], rows[j])
    BY <1>7, <2>2, <2>3, SoonerPrecedes
  <2> QED BY <1>1, <1>3, <1>7, <2>5, <2>6
<1>11. AvailOf(x) = SumOver(stock, R)
  <2>1. R \in SUBSET AvailRows(x)
    BY <1>9
  <2> HIDE DEF R
  <2> QED BY <1>10, <2>1, AvailFacts, SumPart DEF AvailOf
<1>12. SumOver(stock, R) = SumOver(Quantities(picks), I)
  <2>1. \A i \in I : Quantities(picks)[i] = stock[rows[i]] /\ Quantities(picks)[i] \in Int
    <3> SUFFICES ASSUME NEW i \in I
                 PROVE  Quantities(picks)[i] = stock[rows[i]] /\ Quantities(picks)[i] \in Int
      OBVIOUS
    <3>1. i \in 1..(k - 1) /\ i \in 1..k /\ rows[i] \in DOMAIN stock
      BY <1>2, <1>3, <1>8
    <3>2. Quantities(picks)[i] = picks[i].qty
      BY <1>6, <3>1 DEF Quantities
    <3> QED BY <1>6, <3>1, <3>2 DEF StockKnown
  <2>2. \A i, q \in I : rows[i] = rows[q] => i = q
    BY <1>3, <1>8
  <2>3. PICK f, h : f = stock /\ h = Quantities(picks)
    OBVIOUS
  <2>4. \A i \in I : h[i] \in Int /\ h[i] = f[rows[i]]
    BY <2>1, <2>3
  <2>5. Numbers(rows, I, R)
    BY <2>2 DEF Numbers
  <2> HIDE DEF R
  <2>6. SumOver(f, R) = SumOver(h, I)
    <3>1. IsFiniteSet(I)
      BY <1>8
    <3> QED BY <2>4, <2>5, <3>1, SumImage
  <2> QED BY <2>3, <2>6
<1> QED BY <1>11, <1>12 DEF Ahead, I

----------------------------------------------------------------------------
(* What goes first: steps that leave it. *)

\* Batches of a material that is undisturbed for q are as they were.
Spared(q) ==
  \A x \in DOMAIN batches' : <<"material", batches'[x].material>> \notin disturbed'[q] =>
    x \in DOMAIN batches /\ batches'[x] = batches[x] /\ AvailOf(x)' = AvailOf(x)

LEMMA FirstKept ==
  ASSUME NEW q \in Req, settings' = settings, DOMAIN batches \subseteq DOMAIN batches',
         disturbed[q] \subseteq disturbed'[q], Spared(q),
         NEW b \in DOMAIN batches, Undisturbed(q, b)', NEW x, GoesFirst(x, b)'
  PROVE  Undisturbed(q, b) /\ GoesFirst(x, b) /\ AvailOf(x)' = AvailOf(x)
<1>1. batches'[b] = batches[b] /\ Undisturbed(q, b)
  BY DEF Spared, Undisturbed
<1>2. x \in DOMAIN batches /\ batches'[x] = batches[x] /\ AvailOf(x)' = AvailOf(x)
  BY DEF Spared, GoesFirst, Undisturbed
<1>3. GoesFirst(x, b)
  BY <1>1, <1>2 DEF GoesFirst, Sooner
<1> QED BY <1>1, <1>2, <1>3

LEMMA OldestKept ==
  ASSUME OldestInv, NEW r \in Req, Step(r), BatchesDated', settings' = settings,
         DOMAIN batches \subseteq DOMAIN batches', Oldest(r)',
         \A q \in Req \ {r} : reserved'[q] = reserved[q] /\ (job[q].at \in AtWork => Spared(q))
  PROVE  OldestInv'
<1>1. RequestInv'
  BY RequestInvStep DEF OldestInv, Next
<1>2. Remembers /\ \A q \in Req \ {r} : job'[q] = job[q]
  BY StepPlaces DEF OldestInv, RequestInv, BomInv
<1>3. ASSUME NEW q \in Req \ {r} PROVE Oldest(q)'
  <2>1. /\ job'[q] = job[q] /\ Saw(q)' = Saw(q) /\ At(q, "reserve")' = At(q, "reserve")
        /\ reserved'[q] = reserved[q] /\ disturbed[q] \subseteq disturbed'[q]
    BY <1>2 DEF Saw, At, Remembers
  <2>2. ASSUME job[q].at \in AtWork, TakenFirst(q) PROVE TakenFirst(q)'
    BY <2>1, <2>2, FirstKept DEF TakenFirst
  <2>3. ASSUME job[q].at \in {"find", "reserve"}, TakesFirst(q) PROVE TakesFirst(q)'
    <3> SUFFICES ASSUME NEW j \in DOMAIN Saw(q), NEW x,
                        Undisturbed(q, Saw(q)[j].row[1])', GoesFirst(x, Saw(q)[j].row[1])'
                 PROVE  AvailOf(x)' = Ahead(Saw(q), j, x)
      BY <2>1 DEF TakesFirst, Undisturbed, GoesFirst, Sooner, Ahead, Before, Quantities
    <3>1. Saw(q)[j].row[1] \in DOMAIN batches
      <4>1. Saw(q) \in PickList /\ StockKnown
        BY <2>3 DEF OldestInv, RequestInv, Working
      <4>2. Saw(q)[j] \in [row : DOMAIN stock, qty : Nat]
        <5> DEFINE T == [row : DOMAIN stock, qty : Nat]
        <5>1. Saw(q) \in Seq(T)
          BY <4>1 DEF PickList
        <5> HIDE DEF T
        <5> QED BY <5>1, OwnMembers DEF T
      <4> QED BY <4>1, <4>2 DEF StockKnown
    <3>2. job[q].at \in AtWork
      BY <2>3 DEF AtWork
    <3> QED BY <2>1, <2>3, <3>1, <3>2, FirstKept DEF TakesFirst
  <2> QED BY <2>1, <2>2, <2>3 DEF OldestInv, Oldest, AtWork
<1> QED BY <1>1, <1>3 DEF OldestInv

\* A step that moves no stock.
LEMMA StillOldest ==
  ASSUME OldestInv, NEW r \in Req, Step(r), UNCHANGED <<settings, batches, stock>>,
         \A q \in Req \ {r} : reserved'[q] = reserved[q], Oldest(r)'
  PROVE  OldestInv'
<1>1. BatchesDated'
  BY DEF OldestInv, BatchesDated
<1>2. \A q \in Req : Spared(q)
  BY DEF Spared, AvailOf, AvailRows
<1> QED BY <1>1, <1>2, OldestKept

\* A step that does not go on with a request.
LEMMA AsideOldest ==
  ASSUME OldestInv, NEW r \in Req, Step(r), UNCHANGED <<settings, batches, stock, reserved>>,
         job'[r].at \notin AtWork
  PROVE  OldestInv'
<1>1. Oldest(r)'
  BY DEF Oldest, At, AtWork
<1> QED BY <1>1, StillOldest

LEMMA ReceiveFgOldest ==
  ASSUME OldestInv, NEW r \in Req, Step(r), ReceiveFg(r)
  PROVE  OldestInv'
<1> DEFINE c == CallOf(r)
           row == <<c.batch, c.location, "available">>
           new == [material |-> c.material, received |-> Clock, expiry |-> c.expiry]
<1>1. /\ PlaceInv /\ Placed /\ StockKnown /\ At(r, "receiveFg")
      /\ UNCHANGED <<wanted, reserved, settings>>
  BY DEF OldestInv, RequestInv, BomInv, PlaceInv, ReceiveFg, UnchangedBoms
<1>2. job'[r].at \in {"done", "refused"}
  BY <1>1, ControlSteps DEF ReceiveFg, StepsTo, At, Underway
<1>3. Oldest(r)'
  BY <1>2 DEF Oldest, At, AtWork
<1>4. CASE UNCHANGED <<batches, stock>>
  BY <1>1, <1>3, <1>4, StillOldest
<1>5. CASE /\ batches' = SetAt(batches, c.batch, new) /\ stock' = SetAt(stock, row, Qty(row) + c.qty)
           /\ Commits(r, {<<"material", c.material>>})
  <2>1. /\ DOMAIN batches' = DOMAIN batches \cup {c.batch} /\ batches'[c.batch] = new
        /\ \A x \in DOMAIN batches : x # c.batch => batches'[x] = batches[x]
    BY <1>5 DEF SetAt
  <2>2. /\ DOMAIN stock' = DOMAIN stock \cup {row} /\ row[1] = c.batch
        /\ \A y \in DOMAIN stock : y # row => stock'[y] = stock[y]
    BY <1>5 DEF SetAt
  <2>3. Dated(new)
    <3>1. c.expiry \in Int
      BY <1>1 DEF PlaceInv, Route, Typed, Op, At, Operations
    <3> QED BY <3>1, ProductionConstants DEF Dated
  <2>4. BatchesDated'
    BY <2>1, <2>3 DEF OldestInv, BatchesDated
  <2>5. ASSUME NEW q \in Req \ {r}, job[q].at \in AtWork PROVE Spared(q)
    <3>1. <<"material", c.material>> \in disturbed'[q]
      BY <1>5, <2>5 DEF Commits, Underway, AtWork
    <3>2. ASSUME NEW x \in DOMAIN batches', <<"material", batches'[x].material>> \notin disturbed'[q]
          PROVE  x \in DOMAIN batches /\ batches'[x] = batches[x] /\ AvailOf(x)' = AvailOf(x)
      <4>1. x # c.batch
        BY <2>1, <3>1, <3>2
      <4> HIDE DEF row
      <4>2. AvailOf(x)' = AvailOf(x)
        BY <1>1, <2>2, <4>1, AvailKept
      <4> QED BY <2>1, <4>1, <4>2
    <3> QED BY <3>2 DEF Spared
  <2> QED BY <1>1, <1>3, <2>1, <2>4, <2>5, OldestKept
<1> QED BY <1>4, <1>5 DEF ReceiveFg

----------------------------------------------------------------------------
(* What goes first: the steps of a request. *)

LEMMA InsertOldest ==
  ASSUME OldestInv, NEW r \in Req, Step(r), InsertRequest(r)
  PROVE  OldestInv'
<1>1. /\ Placed /\ At(r, "insert") /\ reserved[r] = <<>>
      /\ UNCHANGED <<settings, batches, stock, reserved>>
  BY DEF OldestInv, RequestInv, BomInv, PlaceInv, Working, AtWork, At, InsertRequest, UnchangedBoms
<1>2. job'[r].at \in {"suggest", "refused"}
  BY <1>1, ControlSteps DEF InsertRequest, StepsTo, At, Underway
<1>3. Oldest(r)'
  BY <1>1, <1>2 DEF Oldest, TakenFirst, At, AtWork
<1> QED BY <1>1, <1>3, StillOldest

LEMMA SuggestOldest ==
  ASSUME OldestInv, NEW r \in Req, Step(r), Suggest(r)
  PROVE  OldestInv'
<1>1. /\ Placed /\ At(r, "suggest") /\ Pos(r) \in Nat \ {0} /\ LineList(wanted[r])
      /\ StockKnown /\ BatchesDated /\ TakenFirst(r)
      /\ UNCHANGED <<settings, batches, stock, reserved, disturbed>>
  BY DEF OldestInv, RequestInv, BomInv, PlaceInv, Working, Oldest, AtWork, At, Suggest, UnchangedBoms,
         Quiet
<1>2. DOMAIN wanted[r] = 1..Len(wanted[r]) /\ Len(wanted[r]) \in Nat
  BY <1>1, LenProperties DEF LineList
<1>3. TakenFirst(r)'
  BY <1>1 DEF TakenFirst, Undisturbed, GoesFirst, Sooner, AvailOf, AvailRows
<1>4. CASE job'[r].at \in {"done", "suggest"}
  <2>1. Oldest(r)'
    BY <1>3, <1>4 DEF Oldest, At
  <2> QED BY <1>1, <2>1, StillOldest
<1>5. ASSUME NEW picks, GoWith(r, "find", picks), Pos(r) \in DOMAIN wanted[r],
             picks \in Suggestions(wanted[r][Pos(r)].material, wanted[r][Pos(r)].qty)
      PROVE  OldestInv'
  <2>1. job'[r].at = "find" /\ Saw(r)' = picks
    BY <1>1, <1>5 DEF GoWith, Saw, At, Placed, Shape
  <2>2. wanted[r][Pos(r)].qty \in Int
    BY <1>1, <1>5 DEF LineList
  <2>3. ASSUME NEW j \in DOMAIN picks, NEW x, GoesFirst(x, picks[j].row[1])
        PROVE  AvailOf(x) = Ahead(picks, j, x)
    BY <1>1, <1>5, <2>2, <2>3, SuggestionsFirst
  <2>4. TakesFirst(r)'
    <3> SUFFICES ASSUME NEW j \in DOMAIN picks, NEW x, GoesFirst(x, picks[j].row[1])'
                 PROVE  AvailOf(x)' = Ahead(picks, j, x)
      BY <2>1 DEF TakesFirst, Ahead, Before, Quantities
    <3>1. GoesFirst(x, picks[j].row[1]) /\ AvailOf(x)' = AvailOf(x)
      BY <1>1 DEF GoesFirst, Sooner, AvailOf, AvailRows
    <3> QED BY <2>3, <3>1
  <2>5. Oldest(r)'
    BY <1>3, <2>1, <2>4 DEF Oldest, At
  <2> QED BY <1>1, <2>5, StillOldest
<1>6. CASE Done(r) \/ GoTo(r, "suggest", Pos(r) + 1)
  <2>1. job'[r].at \in {"done", "suggest"}
    BY <1>1, <1>6, ControlSteps DEF StepsTo, At, Underway
  <2> QED BY <1>4, <2>1
<1>7. CASE ~(Pos(r) > Len(wanted[r]))
  <2>1. Pos(r) \in DOMAIN wanted[r]
    BY <1>1, <1>2, <1>7
  <2>2. PICK picks \in Suggestions(wanted[r][Pos(r)].material, wanted[r][Pos(r)].qty) :
          GoWith(r, "find", picks) \/ GoTo(r, "suggest", Pos(r) + 1)
    BY <1>7 DEF Suggest
  <2> QED BY <1>5, <1>6, <2>1, <2>2
<1> QED BY <1>6, <1>7 DEF Suggest

\* Another row of the same batch makes no difference.
LEMMA AheadRowFound ==
  ASSUME NEW T, NEW s \in Seq(T), s # <<>>, NEW y \in T,
         y.row[1] = Head(s).row[1], y.qty = Head(s).qty,
         NEW j \in DOMAIN (<<y>> \o Tail(s)), NEW x
  PROVE  /\ j \in DOMAIN s /\ (<<y>> \o Tail(s))[j].row[1] = s[j].row[1]
         /\ Ahead(<<y>> \o Tail(s), j, x) = Ahead(s, j, x)
<1> DEFINE u == <<y>> \o Tail(s)
<1>1. /\ DOMAIN u = 1..Len(s) /\ DOMAIN s = 1..Len(s) /\ Len(s) \in Nat
      /\ u[1] = y /\ s[1] = Head(s) /\ \A i \in 2..Len(s) : u[i] = s[i]
  OBVIOUS
<1> HIDE DEF u
<1>2. \A i \in 1..Len(s) : u[i].row[1] = s[i].row[1] /\ u[i].qty = s[i].qty
  BY <1>1
<1>3. Quantities(u) = Quantities(s)
  BY <1>1, <1>2 DEF Quantities
<1>4. j \in 1..Len(s) /\ \A i \in 1..(j - 1) : i \in 1..Len(s)
  BY <1>1 DEF u
<1>5. Before(u, j, x) = Before(s, j, x)
  BY <1>2, <1>4 DEF Before
<1> QED BY <1>1, <1>2, <1>3, <1>4, <1>5 DEF Ahead, u

LEMMA FindRowOldest ==
  ASSUME OldestInv, NEW r \in Req, Step(r), FindRow(r)
  PROVE  OldestInv'
<1> DEFINE T == [row : DOMAIN stock, qty : Nat]
<1>1. /\ Placed /\ At(r, "find") /\ StockKnown /\ TakenFirst(r) /\ TakesFirst(r)
      /\ Saw(r) \in Seq(T) /\ Saw(r) # <<>>
      /\ UNCHANGED <<settings, batches, stock, reserved, disturbed>>
  BY DEF OldestInv, RequestInv, BomInv, PlaceInv, Working, PickList, Oldest, AtWork, At, FindRow,
         UnchangedBoms, Quiet
<1>4. TakenFirst(r)'
  <2>1. TakenFirst(r) /\ UNCHANGED <<settings, batches, stock, reserved, disturbed>>
    BY <1>1
  <2> HIDE DEF T
  <2> QED BY <2>1 DEF TakenFirst, Undisturbed, GoesFirst, Sooner, AvailOf, AvailRows
<1>2. CASE Refuse(r)
  <2>1. job'[r].at = "refused"
    BY <1>1, <1>2, ControlSteps DEF StepsTo, At, Underway
  <2> QED BY <1>1, <2>1, AsideOldest DEF AtWork
<1>3. ASSUME NEW row \in DOMAIN stock, row[1] = Head(Saw(r)).row[1], row[3] = "available",
             GoWith(r, "reserve", <<[Head(Saw(r)) EXCEPT !.row = row]>> \o Tail(Saw(r)))
      PROVE  OldestInv'
  <2> DEFINE y == [Head(Saw(r)) EXCEPT !.row = row]
             new == <<y>> \o Tail(Saw(r))
  <2>1. Head(Saw(r)) \in T
    <3> HIDE DEF T
    <3> QED BY <1>1
  <2>2. y \in T /\ y.qty = Head(Saw(r)).qty /\ y.row = row
    BY <2>1
  <2>3. job'[r].at = "reserve" /\ Saw(r)' = new
    BY <1>1, <1>3 DEF GoWith, Saw, At, Placed, Shape
  <2> HIDE DEF T, y
  <2>4. ASSUME NEW j \in DOMAIN new, NEW x
        PROVE  /\ j \in DOMAIN Saw(r) /\ new[j].row[1] = Saw(r)[j].row[1]
               /\ Ahead(new, j, x) = Ahead(Saw(r), j, x)
    BY <1>1, <1>3, <2>2, <2>4, AheadRowFound
  <2>5. Head(new) = y
    BY <1>1, <2>2
  <2>9. PICK u : u = new
    OBVIOUS
  <2> HIDE DEF new
  <2>6. TakesFirst(r)'
    <3> SUFFICES ASSUME NEW j \in DOMAIN u, NEW x, NEW b, b = u[j].row[1],
                        Undisturbed(r, b)', GoesFirst(x, b)'
                 PROVE  AvailOf(x)' = Ahead(u, j, x)
      BY <2>3, <2>9 DEF TakesFirst, Ahead, Before, Quantities
    <3>1. Undisturbed(r, b) /\ GoesFirst(x, b) /\ AvailOf(x)' = AvailOf(x)
      BY <1>1 DEF Undisturbed, GoesFirst, Sooner, AvailOf, AvailRows
    <3>2. j \in DOMAIN Saw(r) /\ b = Saw(r)[j].row[1] /\ Ahead(u, j, x) = Ahead(Saw(r), j, x)
      BY <2>4, <2>9
    <3>3. AvailOf(x) = Ahead(Saw(r), j, x)
      <4>1. TakesFirst(r) /\ Undisturbed(r, Saw(r)[j].row[1]) /\ GoesFirst(x, Saw(r)[j].row[1])
        BY <1>1, <3>1, <3>2
      <4> QED BY <3>2, <4>1 DEF TakesFirst
    <3> QED BY <3>1, <3>2, <3>3
  <2>8. Oldest(r)'
    BY <1>3, <1>4, <2>2, <2>3, <2>5, <2>6, <2>9 DEF Oldest, At
  <2> QED BY <1>1, <2>8, StillOldest
<1> QED BY <1>2, <1>3 DEF FindRow

\* What the first pick takes comes before what the others do.
LEMMA AheadTail ==
  ASSUME NEW T, \A y \in T : y.qty \in Int, NEW s \in Seq(T), s # <<>>,
         NEW j \in DOMAIN Tail(s), NEW x
  PROVE  /\ j + 1 \in DOMAIN s /\ Tail(s)[j] = s[j + 1]
         /\ Ahead(Tail(s), j, x) \in Int
         /\ Ahead(s, j + 1, x) =
              (IF Head(s).row[1] = x THEN Head(s).qty ELSE 0) + Ahead(Tail(s), j, x)
<1> DEFINE t == Tail(s)
           I == Before(t, j, x)
           J == {i \in 2..j : s[i].row[1] = x}
           f == Quantities(s)
           h == Quantities(t)
           next == [i \in Nat |-> i + 1]
<1>1. /\ Len(s) \in Nat /\ Len(t) \in Nat /\ Len(s) = Len(t) + 1 /\ t \in Seq(T)
      /\ DOMAIN s = 1..Len(s) /\ DOMAIN t = 1..Len(t)
      /\ \A i \in 1..Len(t) : t[i] = s[i + 1]
      /\ Head(s) = s[1]
  BY HeadTailProperties, LenProperties
<1> HIDE DEF t
<1>2. j \in Nat /\ j >= 1 /\ j <= Len(t) /\ j + 1 \in 1..Len(s)
  BY <1>1 DEF t
<1>3. /\ \A i \in 1..Len(s) : f[i] = s[i].qty /\ f[i] \in Int
      /\ \A i \in 1..Len(t) : h[i] = t[i].qty /\ h[i] \in Int /\ h[i] = f[i + 1]
  <2>1. (\A i \in DOMAIN s : s[i].qty \in Int) /\ \A i \in DOMAIN t : t[i].qty \in Int
    BY <1>1, OwnMembers
  <2>2. \A i \in 1..Len(t) : i + 1 \in 1..Len(s)
    BY <1>1
  <2> QED BY <1>1, <2>1, <2>2 DEF Quantities
<1> HIDE DEF f, h
<1>4. I \subseteq 1..(j - 1) /\ IsFiniteSet(I) /\ J \subseteq 2..j /\ IsFiniteSet(J)
  <2>1. I \subseteq 1..(j - 1) /\ J \subseteq 2..j /\ j - 1 \in Int
    BY <1>2 DEF Before
  <2>2. IsFiniteSet(1..(j - 1)) /\ IsFiniteSet(2..j)
    BY <1>2, <2>1, FS_Interval
  <2> HIDE DEF I, J
  <2> QED BY <2>1, <2>2, FS_Subset
<1>5. Numbers(next, I, J)
  <2>1. \A i \in I : i \in Nat /\ next[i] = i + 1
    BY <1>4
  <2>2. \A i \in I : i + 1 \in J
    <3> SUFFICES ASSUME NEW i \in I PROVE i + 1 \in J
      OBVIOUS
    <3>1. i \in 1..Len(t) /\ i + 1 \in 2..j
      BY <1>1, <1>2, <1>4
    <3>2. t[i].row[1] = x
      BY DEF Before
    <3> QED BY <1>1, <3>1, <3>2
  <2>3. \A k \in J : k - 1 \in I /\ k = (k - 1) + 1
    <3> SUFFICES ASSUME NEW k \in J PROVE k - 1 \in I /\ k = (k - 1) + 1
      OBVIOUS
    <3>1. k \in 2..j /\ s[k].row[1] = x
      OBVIOUS
    <3>2. k - 1 \in 1..(j - 1) /\ k - 1 \in 1..Len(t) /\ k = (k - 1) + 1
      BY <1>1, <1>2, <3>1
    <3>3. t[k - 1] = s[k]
      BY <1>1, <3>2
    <3> QED BY <3>1, <3>2, <3>3 DEF Before
  <2> HIDE DEF I, J, next
  <2> QED BY <2>1, <2>2, <2>3 DEF Numbers
<1>6. SumOver(f, J) = SumOver(h, I) /\ SumOver(h, I) \in Int
  <2>1. \A i \in I : h[i] \in Int /\ h[i] = f[next[i]]
    <3>1. \A i \in I : i \in 1..Len(t) /\ i \in Nat
      BY <1>1, <1>2, <1>4
    <3> HIDE DEF I
    <3> QED BY <1>3, <3>1
  <2> HIDE DEF I, J, next
  <2>2. SumOver(f, J) = SumOver(h, I)
    <3>1. IsFiniteSet(I)
      BY <1>4
    <3> QED BY <1>5, <2>1, <3>1, SumImage
  <2>3. SumOver(h, I) \in Int
    BY <1>4, <2>1, SumInt
  <2> QED BY <2>2, <2>3
<1>7. \A i \in J \cup {1} : f[i] \in Int
  BY <1>1, <1>2, <1>3, <1>4
<1>8. Before(s, j + 1, x) = IF s[1].row[1] = x THEN J \cup {1} ELSE J
  <2>1. 1..((j + 1) - 1) = {1} \cup (2..j)
    BY <1>2
  <2>2. Before(s, j + 1, x) = {i \in {1} \cup (2..j) : s[i].row[1] = x}
    BY <2>1 DEF Before
  <2> QED BY <2>2
<1>9. SumOver(f, J \cup {1}) = f[1] + SumOver(f, J)
  <2>1. 1 \notin J
    BY <1>4
  <2> HIDE DEF J
  <2> QED BY <1>4, <1>7, <2>1, SumAdd
<1>10. f[1] = Head(s).qty /\ f[1] \in Int
  BY <1>1, <1>2, <1>3
<1>11. Ahead(s, j + 1, x) = SumOver(f, Before(s, j + 1, x)) /\ Ahead(t, j, x) = SumOver(h, I)
  BY DEF Ahead, f, h
<1> HIDE DEF I, J
<1>12. Ahead(s, j + 1, x) = (IF s[1].row[1] = x THEN f[1] ELSE 0) + Ahead(t, j, x)
  <2>1. CASE s[1].row[1] = x
    BY <1>6, <1>8, <1>9, <1>11, <2>1
  <2>2. CASE s[1].row[1] # x
    BY <1>6, <1>8, <1>11, <2>2
  <2> QED BY <2>1, <2>2
<1> QED BY <1>1, <1>2, <1>6, <1>10, <1>11, <1>12 DEF t

\* A reservation takes from what is available of its batch.
LEMMA ReserveTakes ==
  ASSUME StockKnown, NEW row \in DOMAIN stock, row[3] = "available",
         NEW n \in Nat, n <= stock[row], NEW to, to[3] = "reserved",
         DOMAIN stock' = DOMAIN stock \cup {to},
         \A y \in DOMAIN stock : y # to =>
           stock'[y] = IF y = row THEN stock[y] - n ELSE stock[y]
  PROVE  /\ AvailOf(row[1])' = AvailOf(row[1]) - n
         /\ \A x : x # row[1] => AvailOf(x)' = AvailOf(x)
         /\ \A x : AvailOf(x) = 0 => AvailOf(x)' = 0
<1>1. \A y \in DOMAIN stock : y[3] = "available" => y # to
  OBVIOUS
<1>2. \A x : AvailRows(x)' = AvailRows(x)
  <2> SUFFICES ASSUME NEW x PROVE AvailRows(x)' = AvailRows(x)
    OBVIOUS
  <2>1. \A y : y[3] = "available" => (y \in DOMAIN stock' <=> y \in DOMAIN stock)
    OBVIOUS
  <2> QED BY <2>1 DEF AvailRows
<1>3. AvailOf(row[1])' = AvailOf(row[1]) - n
  <2> DEFINE S == AvailRows(row[1])
  <2>1. row \in S /\ IsFiniteSet(S) /\ \A y \in S : y \in DOMAIN stock /\ y # to /\ stock[y] \in Int
    BY <1>1, AvailFacts DEF AvailRows
  <2>2. stock'[row] = stock[row] - n /\ \A y \in S \ {row} : stock'[y] = stock[y]
    BY <2>1
  <2>3. \A y \in S : stock[y] \in Int /\ stock'[y] \in Int
    BY <2>1, <2>2
  <2>4. AvailOf(row[1]) = SumOver(stock, S) /\ AvailOf(row[1])' = SumOver(stock', S)
    BY <1>2 DEF AvailOf
  <2>5. SumOver(stock, S) \in Int
    <3> HIDE DEF S
    <3> QED BY <2>1, SumInt
  <2> HIDE DEF S
  <2>6. SumOver(stock', S) = SumOver(stock, S) - stock[row] + stock'[row]
    BY <2>1, <2>2, <2>3, SumChange
  <2> QED BY <2>1, <2>2, <2>4, <2>5, <2>6
<1>4. ASSUME NEW x, x # row[1] PROVE AvailOf(x)' = AvailOf(x)
  <2>1. \A y : y[1] = x /\ y[3] = "available" =>
          /\ y \in DOMAIN stock' <=> y \in DOMAIN stock
          /\ y \in DOMAIN stock => stock'[y] = stock[y]
    BY <1>4
  <2> QED BY <2>1, AvailKept
<1>5. ASSUME AvailOf(row[1]) = 0 PROVE AvailOf(row[1])' = 0
  <2>1. row \in AvailRows(row[1])
    BY DEF AvailRows
  <2>2. stock[row] = 0
    BY <1>5, <2>1, NothingAvailable
  <2> QED BY <1>3, <1>5, <2>2
<1> QED BY <1>3, <1>4, <1>5

\* An entry at the end of a list.
LEMMA AppendFacts ==
  ASSUME NEW s, s \in Seq({s[k] : k \in DOMAIN s}), NEW e, NEW k \in DOMAIN Append(s, e)
  PROVE  (k \in DOMAIN s /\ Append(s, e)[k] = s[k]) \/ Append(s, e)[k] = e
<1> DEFINE T == {s[i] : i \in DOMAIN s} \cup {e}
<1>1. s \in Seq(T) /\ e \in T
  BY SeqMonotonic
<1> HIDE DEF T
<1> QED BY <1>1

LEMMA ReserveOldest ==
  ASSUME OldestInv, NEW r \in Req, Step(r), Reserve(r)
  PROVE  OldestInv'
<1> DEFINE T == [row : DOMAIN stock, qty : Nat]
<1>1. /\ Placed /\ At(r, "reserve") /\ StockKnown /\ TakenFirst(r) /\ TakesFirst(r)
      /\ Saw(r) \in Seq(T) /\ Saw(r) # <<>> /\ Reservations(reserved[r]) /\ DOMAIN reserved = Req
      /\ Head(Saw(r)).row[3] = "available"
      /\ UNCHANGED <<settings, batches>>
  BY DEF OldestInv, RequestInv, BomInv, PlaceInv, Working, PickList, Oldest, AtWork, At, Reserve,
         UnchangedBoms
<1>2. CASE Refuse(r) /\ UNCHANGED <<stock, reserved>>
  <2>1. job'[r].at = "refused"
    BY <1>1, <1>2, ControlSteps DEF StepsTo, At, Underway
  <2> QED BY <1>1, <1>2, <2>1, AsideOldest DEF AtWork
<1>3. Head(Saw(r)) \in T /\ 1 \in DOMAIN Saw(r) /\ Saw(r)[1] = Head(Saw(r))
  <2>1. Saw(r) \in Seq(T) /\ Saw(r) # <<>>
    BY <1>1
  <2> HIDE DEF T
  <2> QED BY ONLY <2>1
<1>4. ASSUME NEW pick, NEW rest, NEW to, NEW e, NEW m,
             pick = Head(Saw(r)), rest = Tail(Saw(r)),
             to = <<pick.row[1], pick.row[2], "reserved">>,
             e = [line |-> Pos(r), batch |-> pick.row[1], qty |-> pick.qty],
             m = batches[pick.row[1]].material,
             StillEnough(pick),
             stock' = SetAt([stock EXCEPT ![pick.row] = @ - pick.qty], to, Qty(to) + pick.qty),
             reserved' = [reserved EXCEPT ![r] = Append(@, e)],
             IF rest = <<>> THEN GoTo(r, "suggest", Pos(r) + 1) ELSE GoWith(r, "find", rest),
             Commits(r, {<<"material", m>>})
      PROVE  OldestInv'
  <2>1. PICK row, n, b : row = pick.row /\ n = pick.qty /\ b = row[1]
    OBVIOUS
  <2>2. row \in DOMAIN stock /\ n \in Nat /\ row[3] = "available" /\ pick \in T
    <3>1. pick \in T
      BY <1>3, <1>4
    <3> QED BY <1>1, <1>4, <2>1, <3>1
  <2>3. b \in DOMAIN batches /\ m = batches[b].material /\ e.batch = b
    BY <1>1, <1>4, <2>1, <2>2 DEF StockKnown
  <2>4. n <= stock[row] /\ to[3] = "reserved"
    BY <1>1, <1>4, <2>1, <2>2 DEF StillEnough, Qty, StockKnown
  <2>5. /\ DOMAIN stock' = DOMAIN stock \cup {to}
        /\ \A y \in DOMAIN stock : y # to =>
             stock'[y] = IF y = row THEN stock[y] - n ELSE stock[y]
    BY <1>4, <2>1, <2>2 DEF SetAt
  <2>6. /\ AvailOf(b)' = AvailOf(b) - n
        /\ \A x : x # b => AvailOf(x)' = AvailOf(x)
        /\ \A x : AvailOf(x) = 0 => AvailOf(x)' = 0
    <3>1. StockKnown
      BY <1>1
    <3>2. to[3] = "reserved" /\ n <= stock[row] /\ n \in Nat /\ row[3] = "available" /\ row \in DOMAIN stock
      BY <2>2, <2>4
    <3>3. b = row[1]
      BY <2>1
    <3> HIDE DEF T
    <3>4. /\ AvailOf(row[1])' = AvailOf(row[1]) - n
          /\ \A x : x # row[1] => AvailOf(x)' = AvailOf(x)
          /\ \A x : AvailOf(x) = 0 => AvailOf(x)' = 0
      BY ONLY <3>1, <3>2, <2>5, ReserveTakes
    <3> QED BY ONLY <3>3, <3>4
  <2>7. BatchesDated'
    BY <1>1 DEF OldestInv, BatchesDated
  <2>8. ASSUME NEW q \in Req \ {r} PROVE reserved'[q] = reserved[q] /\ (job[q].at \in AtWork => Spared(q))
    <3>1. reserved'[q] = reserved[q]
      BY <1>1, <1>4
    <3>2. ASSUME job[q].at \in AtWork PROVE Spared(q)
      <4>1. <<"material", m>> \in disturbed'[q]
        BY <1>4, <3>2 DEF Commits, Underway, AtWork
      <4> QED BY <1>1, <2>3, <2>6, <4>1 DEF Spared
    <3> QED BY <3>1, <3>2
  <2>9. \A y, x : /\ Undisturbed(r, y)' <=> Undisturbed(r, y)
                  /\ GoesFirst(x, y)' <=> GoesFirst(x, y)
    <3>1. disturbed'[r] = disturbed[r]
      BY <1>4 DEF Commits
    <3> QED BY <1>1, <3>1 DEF Undisturbed, GoesFirst, Sooner
  <2>10. ASSUME NEW x, GoesFirst(x, b), Undisturbed(r, b) PROVE AvailOf(x) = 0
    <3>1. 1 \in DOMAIN Saw(r) /\ Saw(r)[1] = pick /\ Saw(r)[1].row[1] = b
      BY <1>3, <1>4, <2>1
    <3>2. AvailOf(x) = Ahead(Saw(r), 1, x)
      BY <1>1, <2>10, <3>1 DEF TakesFirst
    <3>3. Before(Saw(r), 1, x) = {}
      BY DEF Before
    <3> QED BY <3>2, <3>3, SumEmpty DEF Ahead
  <2>11. TakenFirst(r)'
    <3>1. reserved'[r] = Append(reserved[r], e)
      BY <1>1, <1>4
    <3> SUFFICES ASSUME NEW k \in DOMAIN Append(reserved[r], e), NEW y,
                        y = Append(reserved[r], e)[k].batch
                 PROVE  /\ y \in DOMAIN batches'
                        /\ Undisturbed(r, y)' => \A x : GoesFirst(x, y)' => AvailOf(x)' = 0
      BY <3>1 DEF TakenFirst
    <3>2. (k \in DOMAIN reserved[r] /\ y = reserved[r][k].batch) \/ y = b
      BY <1>1, <2>3, AppendFacts DEF Reservations
    <3>3. y \in DOMAIN batches
      BY <1>1, <2>3, <3>2 DEF TakenFirst
    <3>4. ASSUME Undisturbed(r, y), NEW x, GoesFirst(x, y) PROVE AvailOf(x) = 0
      BY <1>1, <2>10, <3>2, <3>4 DEF TakenFirst
    <3> QED BY <1>1, <2>6, <2>9, <3>3, <3>4
  <2>12. CASE rest = <<>>
    <3> HIDE DEF T
    <3>0. GoTo(r, "suggest", Pos(r) + 1)
      BY <1>4, <2>12
    <3>1. job'[r].at = "suggest"
      BY <1>1, <3>0 DEF GoTo, Placed, Shape
    <3>2. Oldest(r)'
      BY <2>11, <3>1 DEF Oldest, At
    <3> QED BY <1>1, <2>7, <2>8, <3>2, OldestKept
  <2>13. CASE rest # <<>>
    <3> HIDE DEF T
    <3>0. GoWith(r, "find", rest)
      BY <1>4, <2>13
    <3>1. job'[r].at = "find" /\ Saw(r)' = rest
      BY <1>1, <3>0 DEF GoWith, Saw, At, Placed, Shape
    <3> USE DEF T
    <3>2. ASSUME NEW j \in DOMAIN rest, NEW y, y = rest[j].row[1], Undisturbed(r, y),
                 NEW x, GoesFirst(x, y)
          PROVE  AvailOf(x)' = Ahead(rest, j, x)
      <4>1. \A z \in T : z.qty \in Int
        OBVIOUS
      <4> HIDE DEF T
      <4>2. /\ j + 1 \in DOMAIN Saw(r) /\ rest[j] = Saw(r)[j + 1]
            /\ Ahead(rest, j, x) \in Int
            /\ Ahead(Saw(r), j + 1, x) =
                 (IF pick.row[1] = x THEN pick.qty ELSE 0) + Ahead(rest, j, x)
        <5>1. /\ j + 1 \in DOMAIN Saw(r) /\ Tail(Saw(r))[j] = Saw(r)[j + 1]
              /\ Ahead(Tail(Saw(r)), j, x) \in Int
              /\ Ahead(Saw(r), j + 1, x) =
                   (IF Head(Saw(r)).row[1] = x THEN Head(Saw(r)).qty ELSE 0)
                     + Ahead(Tail(Saw(r)), j, x)
          <6>1. Saw(r) \in Seq(T) /\ Saw(r) # <<>>
            BY <1>1
          <6>2. j \in DOMAIN Tail(Saw(r))
            BY <1>4
          <6> QED BY ONLY <4>1, <6>1, <6>2, AheadTail
        <5> QED BY <1>4, <5>1
      <4>3. AvailOf(x) = Ahead(Saw(r), j + 1, x)
        BY <1>1, <3>2, <4>2 DEF TakesFirst
      <4>4. AvailOf(x) = (IF b = x THEN n ELSE 0) + Ahead(rest, j, x)
        BY <2>1, <4>2, <4>3
      <4>5. CASE x = b
        BY <2>2, <2>6, <4>2, <4>4, <4>5
      <4>6. CASE x # b
        BY <2>6, <4>2, <4>4, <4>6
      <4> QED BY <4>5, <4>6
    <3>3. TakesFirst(r)'
      <4> SUFFICES ASSUME NEW j \in DOMAIN rest, NEW y, y = rest[j].row[1], Undisturbed(r, y)',
                          NEW x, GoesFirst(x, y)'
                   PROVE  AvailOf(x)' = Ahead(rest, j, x)
        BY <3>1 DEF TakesFirst, Ahead, Before, Quantities
      <4> QED BY <2>9, <3>2
    <3>4. Oldest(r)'
      BY <2>11, <3>1, <3>3 DEF Oldest, At
    <3> QED BY <1>1, <2>7, <2>8, <3>4, OldestKept
  <2> QED BY <2>12, <2>13
<1> QED BY <1>2, <1>4 DEF Reserve

----------------------------------------------------------------------------
(* What goes first: the theorem. *)

LEMMA OldestInvInit == BackOfficeInit => OldestInv
<1> SUFFICES ASSUME BackOfficeInit PROVE OldestInv
  OBVIOUS
<1>1. batches = Batches0 /\ \A r \in Req : job[r].at = "waiting"
  BY DEF BackOfficeInit, ProductionInit, HandlersInit
<1>2. BatchesDated
  BY <1>1, ProductionConstants DEF BatchesDated
<1> QED BY <1>1, <1>2, RequestInvInit DEF OldestInv, Oldest, At, AtWork

LEMMA OldestInvStep == OldestInv /\ [Next]_vars => OldestInv'
<1> SUFFICES ASSUME OldestInv, [Next]_vars PROVE OldestInv'
  OBVIOUS
<1>1. ASSUME NEW r \in Req, Step(r) PROVE OldestInv'
  <2>0. Placed /\ Op(r) \in Operations
    BY DEF OldestInv, RequestInv, BomInv, PlaceInv, Placed
  <2>1. CASE (Enter(r) \/ Analyze(r) \/ AccountsStep(r) \/ SerialsStep(r)) /\ UNCHANGED prodVars
    <3>1. \/ Hop(r, "waiting", {Op(r)}) \/ Hop(r, "aging", {"done"})
          \/ AccountsHop(r) \/ SerialsHop(r)
      BY <2>0, <2>1, EnterHop, ReportHops, AccountsHops, SerialsHops
    <3>2. job'[r].at \notin AtWork
      BY <2>0, <3>1 DEF Hop, At, StepsTo, AccountsHop, SerialsHop, AtWork, Operations
    <3> QED BY <1>1, <2>1, <3>2, AsideOldest DEF prodVars
  <2>2. CASE \/ CreateBom(r) \/ UpdateBom(r) \/ DeleteLines(r) \/ SaveBom(r) \/ SaveOrder(r)
             \/ Explode(r) \/ ExplodeLines(r) \/ RequestMaterial(r)
    <3>1. /\ UNCHANGED <<settings, batches, stock, reserved>>
          /\ job[r].at \in {"createBom", "updateBom", "deleteLines", "saveBom", "createOrder", "updateOrder",
                            "explode", "explodeLines", "request"}
      BY <2>2 DEF CreateBom, UpdateBom, DeleteLines, SaveBom, SaveOrder, Explode, ExplodeLines, RequestMaterial,
                  UnchangedBoms, UnchangedStock, At
    <3>2. ProductionHop(r)
      BY <2>0, <2>2, ProductionHops DEF ProductionStep
    <3>3. job'[r].at \notin AtWork
      BY <3>1, <3>2 DEF Hop, At, StepsTo, ProductionHop, AtWork
    <3> QED BY <1>1, <3>1, <3>3, AsideOldest
  <2> QED BY <1>1, <2>1, <2>2, InsertOldest, SuggestOldest, FindRowOldest, ReserveOldest,
             ReceiveFgOldest
          DEF Step, ProductionStep, Analyze
<1>2. CASE UNCHANGED vars
  <2>1. RequestInv'
    BY RequestInvStep DEF OldestInv
  <2>2. BatchesDated'
    BY <1>2 DEF OldestInv, BatchesDated, vars
  <2>3. ASSUME NEW r \in Req PROVE Oldest(r)'
    <3>1. Oldest(r)
      BY DEF OldestInv
    <3>2. UNCHANGED <<job, disturbed, settings, batches, stock, reserved>>
      BY <1>2 DEF vars
    <3>3. \A x, y : /\ Undisturbed(r, y)' <=> Undisturbed(r, y)
                    /\ GoesFirst(x, y)' <=> GoesFirst(x, y)
      BY <3>2 DEF Undisturbed, GoesFirst, Sooner
    <3>4. \A x : AvailOf(x)' = AvailOf(x)
      BY <3>2 DEF AvailOf, AvailRows
    <3>5. Saw(r)' = Saw(r) /\ job'[r].at = job[r].at
      BY <3>2 DEF Saw
    <3>6. TakenFirst(r) => TakenFirst(r)'
      BY <3>2, <3>3, <3>4 DEF TakenFirst
    <3>7. TakesFirst(r) => TakesFirst(r)'
      BY <3>3, <3>4, <3>5 DEF TakesFirst, Ahead, Before, Quantities
    <3> QED BY <3>1, <3>5, <3>6, <3>7 DEF Oldest, At
  <2> QED BY <2>1, <2>2, <2>3 DEF OldestInv
<1> QED BY <1>1, <1>2 DEF Next, Finished

\* When a request is done whose material no other call has moved meanwhile, it has
\* reserved what the policy has go first: nothing of what expires sooner, or was
\* received sooner, is left (fifo.engine.ts:27-48).
THEOREM ReservesOldestFirst == Spec => PicksOldest
<1>1. ASSUME OldestInv, [Next]_vars, NEW r \in Req, ~At(r, "done"), job'[r].at = "done",
             NEW i \in DOMAIN reserved[r], NEW b, b = reserved[r][i].batch,
             <<"material", batches[b].material>> \notin disturbed[r],
             NEW row \in Available(batches[b].material)
      PROVE  ~Sooner(batches[b].material, row[1], b)
  <2> SUFFICES ASSUME Sooner(batches[b].material, row[1], b) PROVE FALSE
    OBVIOUS
  <2>1. PICK q \in Req : Step(q)
    BY <1>1 DEF Next, Finished, vars, At
  <2>2. job[r].at \notin {"done", "refused"}
    BY <1>1, <2>1, StepPlaces DEF OldestInv, RequestInv, BomInv, At
  <2>3. job[r].at \in AtWork
    <3>1. job[r].at \notin AtWork => DOMAIN reserved[r] = {}
      BY <1>1, <2>2 DEF OldestInv, RequestInv, Working
    <3> QED BY <1>1, <3>1
  <2>4. Undisturbed(r, b) /\ GoesFirst(row[1], b) /\ row \in AvailRows(row[1]) /\ stock[row] > 0
    BY <1>1 DEF Undisturbed, GoesFirst, Available, AvailRows, OldestInv, RequestInv, StockKnown
  <2>5. AvailOf(row[1]) = 0
    BY <1>1, <2>3, <2>4 DEF OldestInv, Oldest, TakenFirst
  <2>6. stock[row] = 0
    BY <1>1, <2>4, <2>5, NothingAvailable DEF OldestInv, RequestInv
  <2> QED BY <2>4, <2>6
<1>2. OldestInv /\ [Next]_vars =>
        [\A r \in Req : ~At(r, "done") /\ job'[r].at = "done" =>
           \A i \in DOMAIN reserved[r] :
             LET b == reserved[r][i].batch
                 m == batches[b].material
             IN  <<"material", m>> \notin disturbed[r] =>
                   \A row \in Available(m) : ~Sooner(m, row[1], b)]_vars
  BY <1>1
<1> QED BY <1>2, OldestInvInit, OldestInvStep, PTL DEF Spec, PicksOldest

----------------------------------------------------------------------------
(* The report. *)

\* A number has as many of a set below it as it has a place in it.
Below(S, n) == {x \in S : x < n}

\* In a set of n numbers, each of the places from 1 to n is taken.
LEMMA RankTaken ==
  ASSUME NEW S \in SUBSET Int, IsFiniteSet(S), NEW k \in 1..Cardinality(S)
  PROVE  \E n \in S : Cardinality(Below(S, n)) = k - 1
<1> DEFINE C == Cardinality(S)
           P == 0..(C - 1)
           f == [n \in S |-> Cardinality(Below(S, n))]
<1>1. C \in Nat
  BY FS_CardinalityType
<1>2. IsFiniteSet(P) /\ Cardinality(P) = C
  <2> HIDE DEF C
  <2> QED BY <1>1, FS_Interval
<1>3. ASSUME NEW n \in S
      PROVE  /\ IsFiniteSet(Below(S, n)) /\ Cardinality(Below(S, n)) \in P
  <2>1. Below(S, n) \in SUBSET S /\ Below(S, n) # S
    BY DEF Below
  <2>2. IsFiniteSet(Below(S, n)) /\ Cardinality(Below(S, n)) <= C /\ C # Cardinality(Below(S, n))
    BY <2>1, FS_Subset
  <2>3. Cardinality(Below(S, n)) \in Nat
    BY <2>2, FS_CardinalityType
  <2> HIDE DEF C
  <2> QED BY <1>1, <2>2, <2>3
<1>4. ASSUME NEW m \in S, NEW n \in S, m < n
      PROVE  Cardinality(Below(S, m)) # Cardinality(Below(S, n))
  <2>0. m \in Int /\ n \in Int /\ \A x \in S : x \in Int
    OBVIOUS
  <2>1. /\ Below(S, m) \in SUBSET Below(S, n)
        /\ m \in Below(S, n) /\ m \notin Below(S, m)
    <3>1. \A x \in Below(S, m) : x \in S /\ x < n
      BY <1>4, <2>0 DEF Below
    <3>2. m \in Below(S, n)
      BY <1>4 DEF Below
    <3>3. ~(m < m)
      BY <2>0
    <3> QED BY <3>1, <3>2, <3>3 DEF Below
  <2>2. IsFiniteSet(Below(S, n))
    BY <1>3
  <2>3. Cardinality(Below(S, n)) = Cardinality(Below(S, m)) => Below(S, n) = Below(S, m)
    BY <2>1, <2>2, FS_Subset
  <2> QED BY <2>1, <2>3
<1>5. f \in Injection(S, P)
  <2>1. f \in [S -> P]
    BY <1>3
  <2>2. ASSUME NEW m \in S, NEW n \in S, f[m] = f[n] PROVE m = n
    <3>1. m < n \/ n < m \/ m = n
      OBVIOUS
    <3>2. f[m] = Cardinality(Below(S, m)) /\ f[n] = Cardinality(Below(S, n))
      OBVIOUS
    <3> HIDE DEF f
    <3> QED BY <1>4, <2>2, <3>1, <3>2
  <2> HIDE DEF f, P
  <2> QED BY <2>1, <2>2 DEF Injection, IsInjective
<1>6. f \in Surjection(S, P)
  <2> HIDE DEF f, P, C
  <2>1. Cardinality(S) = Cardinality(P)
    BY <1>2 DEF C
  <2> QED BY <1>2, <1>5, <2>1, FS_Injection
<1>7. k - 1 \in P
  <2> HIDE DEF C
  <2>1. k \in 1..C
    BY DEF C
  <2> QED BY <1>1, <2>1
<1>8. \E n \in S : f[n] = k - 1
  <2> HIDE DEF f, P
  <2> QED BY <1>6, <1>7 DEF Surjection
<1> QED BY <1>8

LEMMA RankedFacts ==
  ASSUME NEW S \in SUBSET Int, IsFiniteSet(S), NEW k \in 1..Cardinality(S)
  PROVE  Ranked(S, k) \in S /\ Cardinality(Below(S, Ranked(S, k))) = k - 1
<1>1. \E n \in S : Cardinality({x \in S : x < n}) = k - 1
  BY RankTaken DEF Below
<1> QED BY <1>1 DEF Ranked, Below

\* The numbers at later places are greater.
LEMMA RankedAscends ==
  ASSUME NEW S \in SUBSET Int, IsFiniteSet(S),
         NEW i \in 1..Cardinality(S), NEW j \in 1..Cardinality(S), i < j
  PROVE  Ranked(S, i) < Ranked(S, j)
<1>1. PICK m, n : m = Ranked(S, i) /\ n = Ranked(S, j)
  OBVIOUS
<1>2. /\ m \in S /\ n \in S
      /\ Cardinality(Below(S, m)) = i - 1 /\ Cardinality(Below(S, n)) = j - 1
  BY <1>1, RankedFacts
<1>3. ASSUME n <= m PROVE FALSE
  <2>0. m \in Int /\ n \in Int /\ \A x \in S : x \in Int
    BY <1>2
  <2>1. Below(S, n) \in SUBSET Below(S, m) /\ Below(S, m) \in SUBSET S
    <3>1. \A x \in Below(S, n) : x \in S /\ x < m
      BY <1>3, <2>0 DEF Below
    <3> QED BY <3>1 DEF Below
  <2>2. IsFiniteSet(Below(S, m))
    BY <2>1, FS_Subset
  <2>3. Cardinality(Below(S, n)) <= Cardinality(Below(S, m))
    BY <2>1, <2>2, FS_Subset
  <2>4. i \in Int /\ j \in Int
    OBVIOUS
  <2> QED BY <1>2, <2>3, <2>4
<1>4. m \in Int /\ n \in Int
  BY <1>2
<1> QED BY <1>1, <1>3, <1>4

\* The least of a set of numbers.
LEMMA MinFacts ==
  ASSUME NEW S \in SUBSET Int, IsFiniteSet(S), S # {}
  PROVE  Min(S) \in S /\ \A x \in S : Min(S) <= x
<1>1. 1 \in 1..Cardinality(S)
  <2>1. Cardinality(S) \in Nat /\ Cardinality(S) # 0
    BY FS_EmptySet, FS_CardinalityType
  <2> QED BY <2>1
<1>2. PICK n \in S : Cardinality(Below(S, n)) = 1 - 1
  BY <1>1, RankTaken
<1>3. Below(S, n) = {}
  <2>1. Below(S, n) \in SUBSET S
    BY DEF Below
  <2>2. IsFiniteSet(Below(S, n))
    BY <2>1, FS_Subset
  <2> QED BY <1>2, <2>2, FS_EmptySet
<1>4. \A x \in S : n <= x
  BY <1>3 DEF Below
<1> QED BY <1>4 DEF Min

\* The bounds of bands: positive, and each greater than those before.
Ascending(s) ==
  /\ s \in Seq(Int)
  /\ \A i \in 1..Len(s) : s[i] > 0
  /\ \A i, j \in 1..Len(s) : i < j => s[i] < s[j]

LEMMA BandsAscend ==
  ASSUME NEW given \in Seq(Int)
  PROVE  Ascending(Bands(given))
<1> DEFINE P == {n \in ToSet(given) : n > 0}
           L == AtMost(8, Cardinality(P))
           s == [k \in 1..L |-> Ranked(P, k)]
<1>1. P \in SUBSET Int /\ IsFiniteSet(P) /\ \A n \in P : n \in Int /\ n > 0
  <2>1. ToSet(given) = {given[i] : i \in DOMAIN given} /\ \A n \in ToSet(given) : n \in Int
    BY DEF ToSet
  <2>2. IsFiniteSet(ToSet(given))
    <3>1. DOMAIN given = 1..Len(given) /\ Len(given) \in Nat
      OBVIOUS
    <3>2. IsFiniteSet(DOMAIN given)
      BY <3>1, FS_Interval
    <3> DEFINE g == [i \in DOMAIN given |-> given[i]]
    <3>3. g \in Surjection(DOMAIN given, ToSet(given))
      BY <2>1 DEF Surjection
    <3> HIDE DEF g
    <3> QED BY <3>2, <3>3, FS_Surjection
  <2>3. P \in SUBSET ToSet(given)
    OBVIOUS
  <2>4. IsFiniteSet(P)
    BY <2>2, <2>3, FS_Subset
  <2> QED BY <2>1, <2>4
<1> HIDE DEF P
<1>2. L \in Nat /\ 1..L \subseteq 1..Cardinality(P)
  <2>1. Cardinality(P) \in Nat
    BY <1>1, FS_CardinalityType
  <2> QED BY <2>1 DEF AtMost
<1> HIDE DEF L
<1>3. \A k \in 1..L : Ranked(P, k) \in P
  BY <1>1, <1>2, RankedFacts
<1>4. \A i, j \in 1..L : i < j => Ranked(P, i) < Ranked(P, j)
  BY <1>1, <1>2, RankedAscends
<1>5. s \in Seq(Int) /\ Len(s) = L /\ \A k \in 1..L : s[k] = Ranked(P, k)
  <2>1. L \in Nat /\ \A k \in 1..L : Ranked(P, k) \in Int
    BY <1>1, <1>2, <1>3
  <2>2. s \in [1..L -> Int]
    BY <2>1
  <2>3. s \in Seq(Int) /\ DOMAIN s = 1..L
    <3> HIDE DEF s
    <3> QED BY <2>1, <2>2
  <2>4. Len(s) \in Nat /\ DOMAIN s = 1..Len(s)
    <3> HIDE DEF s
    <3> QED BY <2>3
  <2>5. Len(s) = L
    <3> HIDE DEF s
    <3> QED BY <2>1, <2>3, <2>4
  <2> QED BY <2>3, <2>5
<1>6. Bands(given) = s
  BY DEF Bands, P, L
<1> HIDE DEF s
<1> QED BY <1>1, <1>2, <1>3, <1>4, <1>5, <1>6 DEF Ascending

\* What a policy is resolved to.
LEMMA PolicyFacts ==
  ASSUME NEW blob, InDays(blob)
  PROVE  LET policy == ResolveStorePolicy(blob) IN
           /\ Ascending(policy.agingBands)
           /\ policy.deadStockDays \in Int /\ policy.slowStockDays \in Int
           /\ policy.slowStockDays <= policy.deadStockDays
<1> DEFINE policy == ResolveStorePolicy(blob)
           dead == Days(blob, "deadStockDays")
<1>1. Ascending(DefaultStore.agingBands)
  <2>1. DefaultStore.agingBands = <<30, 60, 90, 180, 365>>
    BY DEF DefaultStore
  <2>2. Ascending(<<30, 60, 90, 180, 365>>)
    BY DEF Ascending
  <2> QED BY <2>1, <2>2
<1>2. "agingBands" \in DOMAIN blob => Ascending(Bands(blob["agingBands"]))
  BY BandsAscend DEF InDays
<1>3. Ascending(policy.agingBands)
  BY <1>1, <1>2 DEF ResolveStorePolicy
<1>4. dead \in Int
  BY DEF Days, DefaultStore, InDays
<1>5. SlowDays(blob, dead) \in Int /\ SlowDays(blob, dead) <= dead
  <2>1. ASSUME NEW d \in Int, NEW x \in Int PROVE AtMost(d, x) \in Int /\ AtMost(d, x) <= d
    BY DEF AtMost
  <2>2. DefaultStore.slowStockDays \in Int
    BY DEF DefaultStore
  <2>3. "slowStockDays" \in DOMAIN blob => blob["slowStockDays"] \in Int
    BY DEF InDays
  <2>4. AtLeast(1, dead \div 2) \in Int
    BY <1>4 DEF AtLeast
  <2>5. AtMost(DefaultStore.slowStockDays, AtLeast(1, dead \div 2)) \in Int
    BY <2>1, <2>2, <2>4
  <2> HIDE DEF dead
  <2> QED BY <1>4, <2>1, <2>3, <2>5 DEF SlowDays
<1>6. policy.deadStockDays = dead /\ policy.slowStockDays = SlowDays(blob, dead)
  BY DEF ResolveStorePolicy
<1> QED BY <1>3, <1>4, <1>5, <1>6

\* What falls into which part of a whole: the sums over the parts add up.
Part(S, g, i) == {x \in S : g[x] = i}

LEMMA SumParts ==
  ASSUME NEW S, IsFiniteSet(S), NEW f, \A x \in S : f[x] \in Int,
         NEW n \in Nat, NEW g, \A x \in S : g[x] \in 1..n,
         NEW q, \A i \in 1..n : q[i] = SumOver(f, Part(S, g, i))
  PROVE  SumOver(q, 1..n) = SumOver(f, S)
<1> DEFINE UpTo(i) == {x \in S : g[x] <= i}
           G == {k \in 0..n : SumOver(q, 1..k) = SumOver(f, UpTo(k))}
<1>1. \A i \in 1..n : q[i] \in Int
  <2> SUFFICES ASSUME NEW i \in 1..n PROVE q[i] \in Int
    OBVIOUS
  <2>1. Part(S, g, i) \in SUBSET S /\ \A x \in Part(S, g, i) : f[x] \in Int
    BY DEF Part
  <2>2. q[i] = SumOver(f, Part(S, g, i))
    OBVIOUS
  <2>3. IsFiniteSet(Part(S, g, i))
    BY <2>1, FS_Subset
  <2> QED BY <2>1, <2>2, <2>3, SumInt
<1>2. 0 \in G
  <2>1. 1..0 = {} /\ UpTo(0) = {}
    OBVIOUS
  <2> QED BY <2>1, SumEmpty
<1>3. \A k \in 0..n : k \in G /\ k < n => k + 1 \in G
  <2> SUFFICES ASSUME NEW k \in 0..n, k \in G, k < n PROVE k + 1 \in G
    OBVIOUS
  <2>1. /\ UpTo(k + 1) = UpTo(k) \cup Part(S, g, k + 1) /\ UpTo(k) \cap Part(S, g, k + 1) = {}
        /\ UpTo(k) \in SUBSET S /\ Part(S, g, k + 1) \in SUBSET S
    BY DEF Part
  <2>2. /\ k + 1 \in 1..n /\ 1..(k + 1) = (1..k) \cup {k + 1} /\ k + 1 \notin 1..k
        /\ 1..k \subseteq 1..n
    OBVIOUS
  <2>3. SumOver(q, 1..k) = SumOver(f, UpTo(k)) /\ q[k + 1] = SumOver(f, Part(S, g, k + 1))
    BY <2>2
  <2> HIDE DEF UpTo, G
  <2>4. IsFiniteSet(UpTo(k)) /\ IsFiniteSet(Part(S, g, k + 1))
    BY <2>1, FS_Subset
  <2>5. \A x \in UpTo(k) \cup Part(S, g, k + 1) : f[x] \in Int
    BY <2>1
  <2>6. SumOver(f, UpTo(k) \cup Part(S, g, k + 1)) = SumOver(f, UpTo(k)) + SumOver(f, Part(S, g, k + 1))
    BY <2>1, <2>4, <2>5, SumUnion
  <2>7. IsFiniteSet(1..k)
    BY FS_Interval
  <2>8. \A i \in (1..k) \cup {k + 1} : q[i] \in Int
    BY <1>1, <2>2
  <2>9. SumOver(q, (1..k) \cup {k + 1}) = q[k + 1] + SumOver(q, 1..k)
    BY <2>2, <2>7, <2>8, SumAdd
  <2>10. SumOver(f, UpTo(k)) \in Int /\ SumOver(f, Part(S, g, k + 1)) \in Int
    BY <2>4, <2>5, SumInt
  <2>11. SumOver(q, 1..(k + 1)) = SumOver(f, UpTo(k + 1))
    <3>1. SumOver(q, 1..(k + 1)) = q[k + 1] + SumOver(q, 1..k)
      BY <2>2, <2>9
    <3>2. SumOver(f, UpTo(k + 1)) = SumOver(f, UpTo(k)) + SumOver(f, Part(S, g, k + 1))
      BY <2>1, <2>6
    <3> QED BY <2>3, <2>10, <3>1, <3>2
  <2> QED BY <2>2, <2>11 DEF G
<1>4. n \in G
  <2> HIDE DEF G
  <2>1. 0..n \subseteq G
    BY <1>2, <1>3, CountInduction
  <2> QED BY <2>1
<1>5. UpTo(n) = S
  OBVIOUS
<1> QED BY <1>4, <1>5

\* The band of an age is the one that it is within the bounds of.
LEMMA BandIs ==
  ASSUME NEW bands, Ascending(bands), NEW row, AgeDays(row) \in Nat
  PROVE  /\ BandOf(bands, row) \in 1..(Len(bands) + 1)
         /\ \A i \in 1..(Len(bands) + 1) :
              BandOf(bands, row) = i <=>
                /\ Lower(bands, i) <= AgeDays(row)
                /\ i < Len(bands) + 1 => AgeDays(row) < Lower(bands, i + 1)
<1>1. PICK a, n, b : a = AgeDays(row) /\ n = Len(bands) /\ b = BandOf(bands, row)
  OBVIOUS
<1> DEFINE fits == {i \in DOMAIN bands : a <= bands[i]}
<1>2. n \in Nat /\ DOMAIN bands = 1..n /\ a \in Nat /\ \A i \in 1..n : bands[i] \in Int
  BY <1>1 DEF Ascending
<1>3. b = IF fits = {} THEN n + 1 ELSE Min(fits)
  BY <1>1 DEF BandOf
<1>4. b \in 1..(n + 1) /\ (b < n + 1 => a <= bands[b]) /\ \A i \in 1..n : i < b => bands[i] < a
  <2>1. CASE fits = {}
    <3>1. \A i \in 1..n : ~(a <= bands[i])
      BY <1>2, <2>1
    <3>2. b = n + 1
      BY <1>3, <2>1
    <3> QED BY <1>2, <3>1, <3>2
  <2>2. CASE fits # {}
    <3>1. fits \in SUBSET (1..n) /\ fits \in SUBSET Int
      BY <1>2
    <3>2. IsFiniteSet(1..n)
      BY <1>2, FS_Interval
    <3>3. IsFiniteSet(fits)
      BY <3>1, <3>2, FS_Subset
    <3>4. Min(fits) \in fits /\ \A i \in fits : Min(fits) <= i
      <4> HIDE DEF fits
      <4> QED BY <2>2, <3>1, <3>3, MinFacts
    <3>5. b \in fits /\ \A i \in fits : b <= i
      BY <1>3, <2>2, <3>4
    <3>6. b \in 1..n /\ a <= bands[b]
      BY <1>2, <3>5
    <3>7. \A i \in 1..n : i < b => ~(a <= bands[i])
      BY <1>2, <3>5, <3>6
    <3> HIDE DEF fits
    <3> QED BY <1>2, <3>6, <3>7
  <2> QED BY <2>1, <2>2
<1> HIDE DEF fits
<1>5. \A i, j \in 1..n : i < j => bands[i] < bands[j]
  BY <1>1, <1>2 DEF Ascending
<1>6. \A i \in 1..(n + 1) : Lower(bands, i) = IF i = 1 THEN 0 ELSE bands[i - 1] + 1
  BY DEF Lower
<1>7. ASSUME NEW i \in 1..(n + 1)
      PROVE  b = i <=> Lower(bands, i) <= a /\ (i < n + 1 => a < Lower(bands, i + 1))
  <2>1. i < n + 1 => i \in 1..n /\ Lower(bands, i + 1) = bands[i] + 1
    BY <1>2 DEF Lower
  <2>2. i > 1 => i - 1 \in 1..n /\ Lower(bands, i) = bands[i - 1] + 1
    BY <1>2, <1>6
  <2>3. i = 1 => Lower(bands, i) = 0
    BY <1>6, <1>2
  <2>4. ASSUME b = i PROVE Lower(bands, i) <= a /\ (i < n + 1 => a < Lower(bands, i + 1))
    BY <1>2, <1>4, <2>1, <2>2, <2>3, <2>4
  <2>5. ASSUME i < b PROVE ~(i < n + 1 => a < Lower(bands, i + 1))
    <3>1. i \in 1..n
      BY <1>2, <1>4, <2>5
    <3>2. bands[i] < a
      BY <1>4, <2>5, <3>1
    <3> QED BY <1>2, <2>1, <3>1, <3>2
  <2>6. ASSUME b < i PROVE ~(Lower(bands, i) <= a)
    <3>1. b \in 1..n /\ i - 1 \in 1..n /\ b <= i - 1 /\ i > 1
      BY <1>2, <1>4, <2>6
    <3>2. a <= bands[b] /\ bands[b] <= bands[i - 1]
      BY <1>2, <1>4, <1>5, <3>1
    <3> QED BY <1>2, <2>2, <3>1, <3>2
  <2>7. b < i \/ b = i \/ i < b
    BY <1>2, <1>4
  <2> QED BY <2>4, <2>5, <2>6, <2>7
<1> QED BY <1>1, <1>4, <1>7

ReportInv == OldestInv /\ InDays(settings) /\ DOMAIN report = Req

\* What is counted is finite, and of an age.
LEMMA CountedFacts ==
  ASSUME StockKnown, BatchesDated
  PROVE  /\ IsFiniteSet(Counted) /\ \A row \in Counted : stock[row] \in Int
         /\ \A row \in Counted : AgeDays(row) \in Nat
<1>1. Counted \in SUBSET (DOMAIN stock)
  BY DEF Counted
<1>2. IsFiniteSet(Counted)
  <2>1. IsFiniteSet(DOMAIN stock)
    BY DEF StockKnown
  <2> QED BY <1>1, <2>1, FS_Subset
<1>3. ASSUME NEW row \in Counted PROVE stock[row] \in Int /\ AgeDays(row) \in Nat
  <2>1. stock[row] \in Int /\ row[1] \in DOMAIN batches
    BY <1>1 DEF StockKnown
  <2>2. PICK t : t = batches[row[1]].received
    OBVIOUS
  <2>3. t \in Int /\ t <= Clock /\ Clock \in Int /\ DayLength \in Nat \ {0}
    BY <2>1, <2>2, ProductionConstants, AgingConstants DEF BatchesDated, Dated
  <2>4. (Clock - t) \div DayLength \in Nat
    <3>1. Clock - t \in Nat
      BY <2>3
    <3>2. ASSUME NEW a \in Nat, NEW d \in Nat \ {0} PROVE a \div d \in Nat
      OBVIOUS
    <3> QED BY <2>3, <3>1, <3>2
  <2> QED BY <2>1, <2>2, <2>4 DEF AgeDays
<1> QED BY <1>2, <1>3

\* The bands of a report, when their bounds ascend.
LEMMA BucketsAddUp ==
  ASSUME StockKnown, BatchesDated, NEW s, Ascending(s), NEW bands, bands = Buckets(s, Counted)
  PROVE  /\ \A i \in DOMAIN bands : bands[i].qty = Units(InBand(bands, i))
         /\ Total(bands) = Units(Counted)
<1>1. PICK n : n = Len(s) + 1
  OBVIOUS
<1>2. n \in Nat /\ n >= 1
  BY <1>1 DEF Ascending
<1>3. /\ DOMAIN bands = 1..n
      /\ \A i \in 1..n : /\ bands[i].from = Lower(s, i)
                         /\ bands[i].qty = SumOver(stock, {x \in Counted : BandOf(s, x) = i})
  BY <1>1 DEF Buckets, SumOver
<1>4. bands \in Seq({bands[i] : i \in 1..n}) /\ Len(bands) = n
  <2>1. DOMAIN bands = 1..n /\ bands = [i \in 1..n |-> bands[i]]
    BY <1>1 DEF Buckets
  <2> QED BY <1>2, <2>1
<1>5. ASSUME NEW i \in 1..n PROVE bands[i].qty = Units(InBand(bands, i))
  <2>1. ASSUME NEW x \in Counted
        PROVE  BandOf(s, x) = i <=> /\ bands[i].from <= AgeDays(x)
                                    /\ i < Len(bands) => AgeDays(x) < bands[i + 1].from
    <3>1. AgeDays(x) \in Nat
      BY CountedFacts
    <3>2. BandOf(s, x) = i <=> /\ Lower(s, i) <= AgeDays(x)
                               /\ i < n => AgeDays(x) < Lower(s, i + 1)
      BY <1>1, <3>1, BandIs
    <3>3. i < n => i + 1 \in 1..n
      BY <1>2
    <3> QED BY <1>3, <1>4, <3>2, <3>3
  <2>2. {x \in Counted : BandOf(s, x) = i} = InBand(bands, i)
    BY <2>1 DEF InBand
  <2> QED BY <1>3, <2>2 DEF Units
<1>6. Total(bands) = Units(Counted)
  <2> DEFINE q == Quantities(bands)
             g == [x \in Counted |-> BandOf(s, x)]
  <2>1. DOMAIN q = 1..n /\ \A i \in 1..n : q[i] = bands[i].qty
    BY <1>3 DEF Quantities
  <2>2. \A x \in Counted : g[x] \in 1..n /\ g[x] = BandOf(s, x)
    BY <1>1, CountedFacts, BandIs
  <2>3. \A i \in 1..n : {x \in Counted : BandOf(s, x) = i} = Part(Counted, g, i)
    BY DEF Part
  <2> HIDE DEF q, g
  <2>4. \A i \in 1..n : q[i] = SumOver(stock, Part(Counted, g, i))
    BY <1>3, <2>1, <2>3
  <2>5. IsFiniteSet(Counted) /\ \A x \in Counted : stock[x] \in Int
    BY CountedFacts
  <2>6. SumOver(q, 1..n) = SumOver(stock, Counted)
    BY ONLY <1>2, <2>2, <2>4, <2>5, SumParts
  <2> QED BY <1>3, <2>6 DEF Total, Units, q
<1> QED BY <1>3, <1>5, <1>6

\* A list of finitely many rows holds them all, or is full.
LEMMA ListedFacts ==
  ASSUME NEW rows, IsFiniteSet(rows), NEW list \in Listed(rows)
  PROVE  list \subseteq rows /\ (list = rows \/ Cardinality(list) = ListLimit)
<1>1. list \in SUBSET rows /\ Cardinality(list) = AtMost(ListLimit, Cardinality(rows))
  BY DEF Listed, kSubset
<1>2. Cardinality(list) = Cardinality(rows) \/ Cardinality(list) = ListLimit
  BY <1>1 DEF AtMost
<1>3. Cardinality(rows) = Cardinality(list) => rows = list
  BY <1>1, FS_Subset
<1> QED BY <1>1, <1>2, <1>3

\* What is slow or dead is what is as old as the limit for slow stock.
LEMMA SlowOrDead ==
  ASSUME StockKnown, BatchesDated, InDays(settings),
         NEW policy, policy = ResolveStorePolicy(settings), NEW x \in Counted
  PROVE  Slow(policy, x) \/ Dead(policy, x) <=> AgeDays(x) >= policy.slowStockDays
<1>1. /\ policy.deadStockDays \in Int /\ policy.slowStockDays \in Int
      /\ policy.slowStockDays <= policy.deadStockDays
  BY PolicyFacts
<1>2. AgeDays(x) \in Nat
  BY CountedFacts
<1> QED BY <1>1, <1>2 DEF Slow, Dead

LEMMA ListsSlowOrDead ==
  ASSUME StockKnown, BatchesDated, InDays(settings), NEW answer,
         answer.policy = ResolveStorePolicy(settings),
         answer.slow \in Listed({x \in Counted : Slow(answer.policy, x)}),
         answer.dead \in Listed({x \in Counted : Dead(answer.policy, x)})
  PROVE  ListsOld(answer)
<1>1. PICK policy, slow, dead : policy = answer.policy /\ slow = answer.slow /\ dead = answer.dead
  OBVIOUS
<1>2. PICK S, D : /\ S = {x \in Counted : Slow(policy, x)}
                  /\ D = {x \in Counted : Dead(policy, x)}
  OBVIOUS
<1>3. IsFiniteSet(S) /\ IsFiniteSet(D)
  <2>1. S \in SUBSET Counted /\ D \in SUBSET Counted /\ IsFiniteSet(Counted)
    BY <1>2, CountedFacts
  <2> QED BY <2>1, FS_Subset
<1>4. /\ slow \subseteq S /\ (slow = S \/ Cardinality(slow) = ListLimit)
      /\ dead \subseteq D /\ (dead = D \/ Cardinality(dead) = ListLimit)
  <2>1. slow \in Listed(S) /\ dead \in Listed(D)
    BY <1>1, <1>2
  <2> QED BY <1>3, <2>1, ListedFacts
<1>5. \A x \in Counted : Slow(policy, x) \/ Dead(policy, x) <=> AgeDays(x) >= policy.slowStockDays
  BY <1>1, SlowOrDead
<1>6. \A x \in Counted : Slow(policy, x) => ~Dead(policy, x)
  BY DEF Slow
<1>7. slow \cup dead \subseteq {x \in Counted : AgeDays(x) >= policy.slowStockDays}
  BY <1>2, <1>4, <1>5
<1>8. ASSUME NEW x \in Counted, AgeDays(x) >= policy.slowStockDays, x \notin slow \cup dead
      PROVE  Cardinality(IF Dead(policy, x) THEN dead ELSE slow) = ListLimit
  BY <1>2, <1>4, <1>5, <1>8
<1> QED BY <1>1, <1>7, <1>8 DEF ListsOld

LEMMA ReportInvInit == BackOfficeInit => ReportInv
BY OldestInvInit, AgingConstants DEF ReportInv, BackOfficeInit, ProductionInit

LEMMA ReportInvStep == ReportInv /\ [Next]_vars => ReportInv'
<1> SUFFICES ASSUME ReportInv, [Next]_vars PROVE ReportInv'
  OBVIOUS
<1>1. ASSUME NEW r \in Req, Step(r) PROVE UNCHANGED settings /\ DOMAIN report' = Req
  <2>1. CASE Enter(r) /\ UNCHANGED <<prodVars, report, accVars, serVars>>
    BY <2>1 DEF ReportInv, prodVars
  <2>2. CASE ProductionStep(r) /\ UNCHANGED <<report, accVars, serVars>>
    BY <2>2 DEF ReportInv, ProductionStep, UnchangedBoms, UnchangedStock, CreateBom, UpdateBom,
                DeleteLines, SaveBom, SaveOrder, Explode, ExplodeLines, RequestMaterial, InsertRequest, Suggest,
                FindRow, Reserve, ReceiveFg
  <2>3. CASE Analyze(r) /\ UNCHANGED <<accVars, serVars>>
    BY <2>3 DEF ReportInv, Analyze, prodVars
  <2>4. CASE AccountsStep(r) /\ UNCHANGED <<prodVars, report, serVars>>
    BY <2>4 DEF ReportInv, prodVars
  <2>5. CASE SerialsStep(r) /\ UNCHANGED <<prodVars, report, accVars>>
    BY <2>5 DEF ReportInv, prodVars
  <2> QED BY <1>1, <2>1, <2>2, <2>3, <2>4, <2>5 DEF Step
<1>2. UNCHANGED settings /\ DOMAIN report' = Req
  BY <1>1 DEF Next, Finished, vars, ReportInv
<1> QED BY <1>2, OldestInvStep DEF ReportInv, InDays

\* The report counts each unit once, in the band of its age, and leaves out of its
\* lists of slow and dead stock nothing that is as old as the limit says unless the
\* list is full, whatever the settings give (aging.engine.ts:60-93).
THEOREM ReportsEachUnitOnce == Spec => ReportAddsUp
<1>1. ASSUME ReportInv, [Next]_vars, NEW r \in Req, At(r, "aging"), job'[r].at = "done"
      PROVE  LET answer == report'[r]
                 bands == answer.buckets
             IN /\ \A i \in DOMAIN bands : bands[i].qty = Units(InBand(bands, i))
                /\ Total(bands) = Units(Counted)
                /\ ListsOld(answer)
  <2>1. PICK q \in Req : Step(q)
    BY <1>1 DEF Next, Finished, vars, At
  <2>2. q = r
    BY <1>1, <2>1, StepPlaces DEF ReportInv, OldestInv, RequestInv, BomInv, At
  <2>3. Analyze(r)
    <3>1. Placed
      BY <1>1 DEF ReportInv, OldestInv, RequestInv, BomInv, PlaceInv
    <3>2. job[r].at = "aging"
      BY <1>1 DEF At
    <3>3. ~Hop(r, "waiting", {Op(r)}) /\ ~ProductionHop(r) /\ ~AccountsHop(r) /\ ~SerialsHop(r)
      BY <3>2 DEF Hop, At, ProductionHop, AccountsHop, SerialsHop
    <3>4. ~Enter(r) /\ ~ProductionStep(r) /\ ~AccountsStep(r) /\ ~SerialsStep(r)
      BY <3>1, <3>3, EnterHop, ProductionHops, AccountsHops, SerialsHops
    <3>5. Step(r)
      BY <2>1, <2>2
    <3> QED BY <3>4, <3>5 DEF Step
  <2>4. PICK policy, answer :
          /\ policy = ResolveStorePolicy(settings) /\ answer = report'[r]
          /\ answer.buckets = Buckets(policy.agingBands, Counted) /\ answer.policy = policy
          /\ answer.slow \in Listed({x \in Counted : Slow(policy, x)})
          /\ answer.dead \in Listed({x \in Counted : Dead(policy, x)})
    <3> DEFINE policy == ResolveStorePolicy(settings)
    <3>2. PICK dead \in Listed({x \in Counted : Dead(policy, x)}),
               slow \in Listed({x \in Counted : Slow(policy, x)}),
               expired \in Listed({x \in Counted : Expired(x)}),
               nearExpiry \in Listed({x \in Counted : NearExpiry(policy, x)}) :
            report' = [report EXCEPT ![r] =
              [buckets |-> Buckets(policy.agingBands, Counted), policy |-> policy,
               dead |-> dead, slow |-> slow, expired |-> expired, nearExpiry |-> nearExpiry]]
      BY <2>3, Zenon DEF Analyze
    <3>3. PICK answer : answer = report'[r]
      OBVIOUS
    <3>4. /\ answer.buckets = Buckets(policy.agingBands, Counted) /\ answer.policy = policy
          /\ answer.slow = slow /\ answer.dead = dead
      BY <1>1, <3>2, <3>3 DEF ReportInv
    <3> HIDE DEF policy
    <3> QED BY <3>2, <3>3, <3>4 DEF policy
  <2>5. StockKnown /\ BatchesDated /\ InDays(settings)
    BY <1>1 DEF ReportInv, OldestInv, RequestInv
  <2>6. Ascending(policy.agingBands)
    BY <2>4, <2>5, PolicyFacts
  <2>7. /\ \A i \in DOMAIN answer.buckets :
             answer.buckets[i].qty = Units(InBand(answer.buckets, i))
        /\ Total(answer.buckets) = Units(Counted)
    BY <2>4, <2>5, <2>6, BucketsAddUp
  <2>8. ListsOld(answer)
    <3>1. /\ answer.policy = ResolveStorePolicy(settings)
          /\ answer.slow \in Listed({x \in Counted : Slow(answer.policy, x)})
          /\ answer.dead \in Listed({x \in Counted : Dead(answer.policy, x)})
      BY <2>4
    <3> QED BY <2>5, <3>1, ListsSlowOrDead
  <2> QED BY <2>4, <2>7, <2>8
<1>2. ReportInv /\ [Next]_vars =>
        [\A r \in Req : At(r, "aging") /\ job'[r].at = "done" =>
           LET answer == report'[r]
               bands == answer.buckets
           IN /\ \A i \in DOMAIN bands : bands[i].qty = Units(InBand(bands, i))
              /\ Total(bands) = Units(Counted)
              /\ ListsOld(answer)]_vars
  BY <1>1
<1> QED BY <1>2, ReportInvInit, ReportInvStep, PTL DEF Spec, ReportAddsUp

----------------------------------------------------------------------------
(* The types, and the references. *)

\* A serial number is there to be had, or is gone.
SerialsKnown == \A s \in DOMAIN serials : serials[s].status \in {"available", "issued"}

OfficeInv == RequestInv /\ AccInv /\ SerialInv /\ SerialsKnown

LEMMA SerialsKnownStep ==
  ASSUME SerialInv, SerialsKnown, NEW r \in Req, SerialsStep(r)
  PROVE  SerialsKnown'
<1>1. CASE UNCHANGED serials
  BY <1>1 DEF SerialsKnown
<1>2. ASSUME NEW s, NEW m, serials' = SetAt(serials, s, [material |-> m, status |-> "available"])
      PROVE  SerialsKnown'
  BY <1>2 DEF SerialsKnown, SetAt
<1>3. CASE serials' = Overlay(writes[r], serials)
  <2>1. \A s \in DOMAIN writes[r] : writes[r][s].status = "issued"
    BY DEF SerialInv, WritesLeave
  <2> QED BY <1>3, <2>1 DEF SerialsKnown, Overlay
<1>4. \/ UNCHANGED serials \/ serials' = Overlay(writes[r], serials)
      \/ \E s, m : serials' = SetAt(serials, s, [material |-> m, status |-> "available"])
  BY DEF SerialsStep, Register, Begin, FindSerial, WriteSerial, EndCircle, CommitSerials, serVars
<1> QED BY <1>1, <1>2, <1>3, <1>4

LEMMA OfficeInvInit == BackOfficeInit => OfficeInv
BY RequestInvInit, AccInvInit, SerialInvInit, SerialsConstants
   DEF OfficeInv, SerialsKnown, BackOfficeInit, SerialsInit

LEMMA OfficeInvStep == OfficeInv /\ [Next]_vars => OfficeInv'
<1> SUFFICES ASSUME OfficeInv, [Next]_vars PROVE OfficeInv'
  OBVIOUS
<1>1. ASSUME NEW r \in Req, Step(r) PROVE SerialsKnown'
  <2>1. SerialsStep(r) \/ UNCHANGED serials
    BY <1>1 DEF Step, serVars
  <2> QED BY <2>1, SerialsKnownStep DEF OfficeInv, SerialsKnown
<1>2. SerialsKnown'
  BY <1>1 DEF Next, Finished, vars, OfficeInv, SerialsKnown
<1> QED BY <1>2, RequestInvStep, AccInvStep, SerialInvStep DEF OfficeInv

\* Stock is never negative and is of known batches, a receipt is on a known
\* invoice, what is booked stays verified and marked, and nothing uncommitted
\* outlives its transaction.
THEOREM OfficeTypeCorrect == Spec => []OfficeTypeOK
<1>1. OfficeInv => OfficeTypeOK
  <2> SUFFICES ASSUME OfficeInv PROVE OfficeTypeOK
    OBVIOUS
  <2>1. \A row \in DOMAIN stock : stock[row] >= 0 /\ row[1] \in DOMAIN batches
    BY DEF OfficeInv, RequestInv, StockKnown
  <2>2. \A g \in DOMAIN receipts : receipts[g].invoice \in DOMAIN invoices \cup {"none"}
    BY DEF OfficeInv, AccInv, ReceiptsKnown
  <2>3. \A k \in DOMAIN bookings :
          /\ invoices[bookings[k].invoice] = "verified"
          /\ \A g \in bookings[k].receipts : receipts[g].booked
    BY DEF OfficeInv, AccInv, BookedAndMarked, IsVerified
  <2>4. \A r \in Req : writes[r] # Empty => InTransaction(r)
    BY DEF OfficeInv, SerialInv, WritesLeave
  <2> QED BY <2>1, <2>2, <2>3, <2>4 DEF OfficeTypeOK, OfficeInv, SerialsKnown
<1> QED BY <1>1, OfficeInvInit, OfficeInvStep, PTL DEF Spec
=============================================================================
