------------------------------ MODULE Accounts ------------------------------
(***************************************************************************)
(* Supplier invoices and their booking.  Amounts, account lines and the    *)
(* attachments are left out.                                               *)
(***************************************************************************)
EXTENDS Handlers

CONSTANTS
  Ready,     \* the goods receipts that are ready for accounts
  Receipts0, Invoices0

ASSUME AccountsConstants ==
  Receipts0 \in [DOMAIN Receipts0 -> [invoice : DOMAIN Invoices0 \cup {"none"}, booked : BOOLEAN]]

VARIABLES
  receipts,  \* goods receipts: their invoice, and whether they are booked
  invoices,  \* by number: verified or not
  bookings   \* the invoice, the receipts and the call of each, in order

accVars == <<receipts, invoices, bookings>>

AccountsInit ==
  /\ receipts = Receipts0 /\ invoices = Invoices0
  /\ bookings = <<>>

ReceiptsOf(i) == {g \in DOMAIN receipts : receipts[g].invoice = i}

\* POST invoices: the receipts must be ready; nothing asks whether they are
\* booked, or on another invoice.
AttachInvoice(r) ==
  /\ At(r, "attach")
  /\ LET c == CallOf(r) IN
       IF c.receipts # {} /\ c.receipts \subseteq Ready THEN Go(r, "connect") ELSE Refuse(r)
  /\ Quiet /\ UNCHANGED accVars

\* The invoice and its receipts in one transaction; the number is unique.
ConnectReceipts(r) ==
  /\ At(r, "connect")
  /\ LET c == CallOf(r) IN
       IF c.number \notin DOMAIN invoices
         THEN /\ invoices' = SetAt(invoices, c.number, "pending")
              /\ receipts' = [g \in DOMAIN receipts |->
                                IF g \in c.receipts
                                  THEN [receipts[g] EXCEPT !.invoice = c.number]
                                  ELSE receipts[g]]
              /\ Done(r) /\ Commits(r, {<<"invoice", c.number>>})
         ELSE Refuse(r) /\ Quiet /\ UNCHANGED <<receipts, invoices>>
  /\ UNCHANGED bookings

VerifyInvoice(r) ==
  /\ At(r, "verify")
  /\ LET i == CallOf(r).number IN
       IF i \in DOMAIN invoices /\ invoices[i] # "verified" THEN Go(r, "setVerified") ELSE Refuse(r)
  /\ Quiet /\ UNCHANGED accVars

SetVerified(r) ==
  /\ At(r, "setVerified")
  /\ invoices' = [invoices EXCEPT ![CallOf(r).number] = "verified"]
  /\ Done(r) /\ Commits(r, {<<"invoice", CallOf(r).number>>})
  /\ UNCHANGED <<receipts, bookings>>

BookingsOf(i) == {k \in DOMAIN bookings : bookings[k].invoice = i}

IsVerified(i) == i \in DOMAIN invoices /\ invoices[i] = "verified"

\* POST bookings reads the invoice ...
BookPurchase(r) ==
  /\ At(r, "book")
  /\ IF IsVerified(CallOf(r).number) THEN Go(r, "readReceipts") ELSE Refuse(r)
  /\ Quiet /\ UNCHANGED accVars

\* ... its receipts ...
ReadReceipts(r) ==
  /\ At(r, "readReceipts")
  /\ GoWith(r, "readBookings", ReceiptsOf(CallOf(r).number))
  /\ Quiet /\ UNCHANGED accVars

\* Variant: an invoice that has a booking is booked again.
OneAtMost(i) == Cardinality(BookingsOf(i)) <= 1

Unbooked(i) == BookingsOf(i) = {}

\* ... and its bookings, each by a query of its own;
ReadBookings(r) ==
  /\ At(r, "readBookings")
  /\ IF Unbooked(CallOf(r).number) THEN Go(r, "saveBooking") ELSE Refuse(r)
  /\ Quiet /\ UNCHANGED accVars

\* then it creates the booking and marks the receipts, in one transaction.
SaveBooking(r) ==
  /\ At(r, "saveBooking")
  /\ LET i == CallOf(r).number IN
       /\ bookings' = Append(bookings, [invoice |-> i, receipts |-> Saw(r), by |-> r])
       /\ receipts' = [g \in DOMAIN receipts |->
                         IF g \in Saw(r) THEN [receipts[g] EXCEPT !.booked = TRUE] ELSE receipts[g]]
       /\ Done(r) /\ Commits(r, {<<"invoice", i>>})
  /\ UNCHANGED invoices

\* POST grn/:id/book, without an invoice.
MarkBooked(r) ==
  /\ At(r, "mark")
  /\ LET g == CallOf(r).receipt IN
       IF g \in Ready /\ ~receipts[g].booked THEN Go(r, "setBooked") ELSE Refuse(r)
  /\ Quiet /\ UNCHANGED accVars

SetBooked(r) ==
  /\ At(r, "setBooked")
  /\ receipts' = [receipts EXCEPT ![CallOf(r).receipt].booked = TRUE]
  /\ Done(r) /\ Quiet
  /\ UNCHANGED <<invoices, bookings>>

AccountsStep(r) ==
  \/ AttachInvoice(r) \/ ConnectReceipts(r) \/ VerifyInvoice(r) \/ SetVerified(r)
  \/ BookPurchase(r) \/ ReadReceipts(r) \/ ReadBookings(r) \/ SaveBooking(r)
  \/ MarkBooked(r) \/ SetBooked(r)
=============================================================================
