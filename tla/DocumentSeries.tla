--------------------------- MODULE DocumentSeries ---------------------------
(***************************************************************************)
(* Document numbers.  A posting handler asks DocumentSeriesService.next    *)
(* for a number and inserts its document in a transaction, under a unique  *)
(* index on company and number.  next reads at most ScanLimit documents of *)
(* the type, in no stated order, and returns the highest number among them *)
(* plus one; it never sees what other transactions have not committed.     *)
(*                                                                         *)
(* Handlers differ in when and where they call it:                         *)
(*   before      a return or a transfer, before opening its transaction;   *)
(*   second      an issue, inside its transaction but on the shared        *)
(*               client, so that it needs a second connection;             *)
(*   within      goods receipts, QC inspections and finished goods, on     *)
(*               the transaction;                                          *)
(*   none        shipping a dispatch, and reservations, which take none.   *)
(*                                                                         *)
(* Nothing in the code locks the series, so two handlers may compute the   *)
(* same number; the unique index makes the later insert wait for the       *)
(* earlier transaction and fail if it commits.                             *)
(*                                                                         *)
(* Abstractions: a number is its sequence part; the prefix, the year and   *)
(* the padding are fixed; a transaction takes one number.                  *)
(***************************************************************************)
EXTENDS Transactions, Integers, FiniteSets

CONSTANTS
  DocType,     \* document types with a series
  DocOf,       \* the type each transaction posts, or NoDoc
  Numbering,   \* when and where each transaction takes its number
  NoDoc,
  Posted0,     \* how many documents of each type exist at the start
  ScanLimit,   \* take: 5000 in maxSeq
  PoolSize     \* connection_limit of the database URL

ASSUME SeriesConstants ==
  /\ NoDoc \notin DocType
  /\ DocOf \in [Tx -> DocType \cup {NoDoc}]
  /\ Numbering \in [Tx -> {"before", "second", "within", "none"}]
  /\ \A t \in Tx : DocOf[t] = NoDoc <=> Numbering[t] = "none"
  /\ Posted0 \in [DocType -> Nat]
  /\ ScanLimit \in Nat \ {0}
  /\ PoolSize \in Nat \ {0}

VARIABLES
  numbers,   \* committed numbers of each type
  number,    \* the number each transaction computed, 0 before
  step       \* where each transaction is

seriesVars == <<numbers, number, step>>

Steps == {"idle", "counted", "open", "scanned", "numbered", "posted", "failed"}

\* Transactions holding a connection of the pool.
Connected == {t \in Tx : step[t] \in {"open", "scanned", "numbered"}}
FreeConnection == Cardinality(Connected) < PoolSize

\* Variant: numbers from a counter that also counts what is in progress, as a
\* database sequence would.
CountedSeq(d) ==
  {Cardinality(numbers[d]) + Cardinality({u \in Tx : DocOf[u] = d /\ number[u] # 0})}

\* Variant: the highest number of a page of one document.
OnePageSeq(d) == IF numbers[d] = {} THEN {0} ELSE numbers[d]

\* maxSeq: the highest number in any ScanLimit of the documents.
MaxSeq(d) ==
  LET seen == IF Cardinality(numbers[d]) < ScanLimit
                THEN Cardinality(numbers[d]) ELSE ScanLimit
  IN  IF numbers[d] = {} THEN {0}
      ELSE {m \in numbers[d] :
              Cardinality({x \in numbers[d] : x <= m}) >= seen}

SeriesInit ==
  /\ numbers = [d \in DocType |-> 1..Posted0[d]]
  /\ number  = [t \in Tx |-> 0]
  /\ step    = [t \in Tx |-> "idle"]

\* $transaction takes a connection for as long as the callback runs.
Open(t) ==
  /\ FreeConnection
  /\ \/ /\ step[t] = "idle" /\ Numbering[t] # "before"
        /\ step' = [step EXCEPT ![t] = "open"]
     \/ /\ step[t] = "counted"
        /\ step' = [step EXCEPT ![t] = "scanned"]
  /\ UNCHANGED <<numbers, number>>

\* next.  On the shared client it takes a free connection, and gives it back
\* once it has answered.
Scan(t) ==
  /\ \/ /\ Numbering[t] = "before" /\ step[t] = "idle" /\ FreeConnection
        /\ step' = [step EXCEPT ![t] = "counted"]
     \/ /\ Numbering[t] = "second" /\ step[t] = "open" /\ FreeConnection
        /\ step' = [step EXCEPT ![t] = "scanned"]
     \/ /\ Numbering[t] = "within" /\ step[t] = "open"
        /\ step' = [step EXCEPT ![t] = "scanned"]
  /\ \E m \in MaxSeq(DocOf[t]) : number' = [number EXCEPT ![t] = m + 1]
  /\ UNCHANGED numbers

\* The unique index makes the insert wait while the same number is uncommitted.
SameNumber(t) ==
  {u \in Tx \ {t} : /\ step[u] = "numbered"
                    /\ DocOf[u] = DocOf[t]
                    /\ number[u] = number[t]}

Insert(t) ==
  /\ step[t] = "scanned"
  /\ SameNumber(t) = {}
  /\ number[t] \notin numbers[DocOf[t]]
  /\ step' = [step EXCEPT ![t] = "numbered"]
  /\ UNCHANGED <<numbers, number>>

\* A transaction without a number goes straight to its lines: a dispatch's was taken
\* when it was created, and reservations have none.
SkipNumber(t) ==
  /\ step[t] = "open"
  /\ DocOf[t] = NoDoc
  /\ step' = [step EXCEPT ![t] = "numbered"]
  /\ UNCHANGED <<numbers, number>>

Fail(t) ==
  /\ step' = [step EXCEPT ![t] = "failed"]
  /\ UNCHANGED <<numbers, number>>

\* The unique index refuses a number that is committed.
Duplicate(t) ==
  /\ step[t] = "scanned"
  /\ SameNumber(t) = {}
  /\ number[t] \in numbers[DocOf[t]]
  /\ Fail(t)

\* Variant: a transaction without a series records its number too.
PostUnnumbered(t) ==
  /\ step[t] = "numbered"
  /\ numbers' = [d \in DocType \cup {DocOf[t]} |->
                   (IF d \in DocType THEN numbers[d] ELSE {})
                   \cup (IF d = DocOf[t] THEN {number[t]} ELSE {})]
  /\ step' = [step EXCEPT ![t] = "posted"]
  /\ UNCHANGED number

\* The document commits with its number.
Post(t) ==
  /\ step[t] = "numbered"
  /\ numbers' = [d \in DocType |-> IF d = DocOf[t]
                                     THEN numbers[d] \cup {number[t]}
                                     ELSE numbers[d]]
  /\ step' = [step EXCEPT ![t] = "posted"]
  /\ UNCHANGED number

\* t needs a connection, for its transaction or for its number, and the pool
\* has none.
PoolExhausted(t) ==
  /\ \/ step[t] = "counted"
     \/ step[t] = "open" /\ Numbering[t] = "second"
  /\ ~FreeConnection

----------------------------------------------------------------------------
(* Properties. *)

SeriesTypeOK ==
  /\ numbers \in [DocType -> SUBSET Nat]
  /\ number \in [Tx -> Nat]
  /\ step \in [Tx -> Steps]

\* Between its insert and its commit a document has its series to itself: no
\* two transactions of one type are past their insert together.  This is what
\* serialises the postings of one type, though no lock in the code says so
\* (issue.service.ts:102-118, 528-541, document-series.service.ts:98-110).
OneAtATime ==
  \A t, u \in Tx :
    (t # u /\ step[t] = "numbered" /\ step[u] = "numbered" /\ DocOf[t] # NoDoc)
      => DocOf[t] # DocOf[u]

\* Numbers are handed out without gaps, whatever fails or is rolled back
\* (document-series.service.ts:134-140).
NoGaps == \A d \in DocType : \A n \in numbers[d] : 1..n \subseteq numbers[d]

\* A document that finds its number taken lost it to a rival, another handler
\* that computed the same number and has posted since.  Only from ScanLimit + 1
\* on may the number have been in use all along, because maxSeq may not have read
\* the highest (document-series.service.ts:125-140).
TakenByRival ==
  \A t \in Tx :
    (step[t] \in {"counted", "scanned"} /\ number[t] \in numbers[DocOf[t]])
      => \/ \E u \in Tx \ {t} : /\ step[u] = "posted"
                                /\ DocOf[u] = DocOf[t]
                                /\ number[u] = number[t]
         \/ number[t] > ScanLimit
=============================================================================
