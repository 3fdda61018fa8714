--------------------------- MODULE PostedDocuments ---------------------------
(***************************************************************************)
(* Posting a stock document: createIssue, createReturn, createTransfer and *)
(* GRN posting.  Each opens a transaction, takes a number from its series  *)
(* before or after that, inserts its header (DocumentSeries), makes the    *)
(* stock engine's calls for its lines (StockEngine) and commits.  Shipping *)
(* a dispatch and reservations do the same without a number; a QC          *)
(* inspection takes one within its transaction.                            *)
(*                                                                         *)
(* The two modules share the transactions: step "numbered" of the series   *)
(* is where the engine's phases "find" and "write" take place.             *)
(***************************************************************************)
EXTENDS StockEngine, DocumentSeries

docVars == <<live, qty, ledger, phase, todo, found, read, dirty, val, pend,
             numbers, number, step>>

DocInit == StockInit /\ SeriesInit

OpenTransaction(t) == Open(t) /\ UNCHANGED stockVars
TakeNumber(t)      == Scan(t) /\ UNCHANGED stockVars

\* The header row is in: the lines start.
InsertHeader(t) == (Insert(t) \/ SkipNumber(t)) /\ Begin(t)

NumberTaken(t) == Duplicate(t) /\ UNCHANGED stockVars

StockCall(t) == (Find(t) \/ Write(t)) /\ UNCHANGED seriesVars

\* A call throws: the transaction rolls back, header and number included.
LineFails(t) == (Refuse(t) \/ UniqueViolation(t) \/ BreakDeadlock(t)) /\ Fail(t)

PostDoc(t) == Commit(t) /\ Post(t)

\* A process crash, or the transaction's own timeout while it works.
Crash(t) ==
  \/ Abort(t) /\ Fail(t)
  \/ step[t] \in {"counted", "open", "scanned"} /\ Fail(t) /\ UNCHANGED stockVars

\* Variant: the wait for a second connection has no timeout.
WaitForConnection(t) == PoolExhausted(t) /\ UNCHANGED docVars

\* The pool's timeout while a request waits for a connection.
PoolTimeout(t) == PoolExhausted(t) /\ Fail(t) /\ UNCHANGED stockVars

\* A request has started and has not been answered.
Underway(t) == step[t] \in {"counted", "open", "scanned", "numbered"}

DocProgress(t) ==
  \/ OpenTransaction(t) /\ Underway(t)
  \/ TakeNumber(t)
  \/ InsertHeader(t)
  \/ NumberTaken(t)
  \/ StockCall(t)
  \/ LineFails(t)
  \/ PostDoc(t)
  \/ PoolTimeout(t)

DocNext == \E t \in Tx : OpenTransaction(t) \/ DocProgress(t) \/ Crash(t)

DocSpec == DocInit /\ [][DocNext]_docVars

\* The handler of a request keeps running, the database answers it, and the
\* timeout of a request that waits in vain for a connection expires.
FairDocSpec == DocSpec /\ \A t \in Tx : WF_docVars(DocProgress(t))

----------------------------------------------------------------------------
(* Properties. *)

DocTypeOK == StockTypeOK /\ SeriesTypeOK

\* The keys a transaction may touch.
KeysOf(t) == UNION {{s[i].key : i \in DOMAIN s} : s \in Script[t]}

\* The condition under which stock is serial: transactions that may touch the
\* same key post documents of the same type.  The code does not enforce it.
OneTypePerKey ==
  \A t, u \in Tx :
    (t # u /\ KeysOf(t) \cap KeysOf(u) # {})
      => DocOf[t] = DocOf[u] /\ DocOf[t] # NoDoc

OneOpeningRow == \A r, s \in OpeningRow : KeyOf[r] = KeyOf[s] => r = s

\* The entries s form an unbroken chain of balances on each row: an entry's
\* balanceAfter is that of the row's entry before it, or base[row] for its
\* first, plus the entry's own quantity.
Chained(s, base) ==
  \A i \in DOMAIN s :
    /\ (\A j \in DOMAIN s : j < i => s[j].row # s[i].row)
         => s[i].balanceAfter = base[s[i].row] + s[i].qty
    /\ \A j \in DOMAIN s :
         (/\ j < i /\ s[j].row = s[i].row
          /\ \A k \in DOMAIN s : j < k /\ k < i => s[k].row # s[i].row)
           => s[i].balanceAfter = s[j].balanceAfter + s[i].qty

\* The ledger is such a chain from the opening stock: no update is lost, so
\* the stock of a row is its opening quantity plus all its entries
\* (stock.engine.ts:67-104, 146-167, issue.service.ts:102-118).
BalanceChain == Chained(ledger, Opening)

\* A key keeps a single row, even one without a location, which the unique
\* index does not cover (stock.engine.ts:55-86).
OneRowPerKey ==
  \A r, s \in live : KeyOf[r] = KeyOf[s] => r = s

\* Every request that got a number or a transaction ends, though it may wait
\* for a row, for a number or for a connection that every other waits for too
\* (issue.service.ts:102-103).  A request is made once, so this is to say that
\* there comes a time when none is underway.
EveryDocumentEnds == []<>(\A t \in Tx : ~Underway(t))

\* The stock of each key and the documents posted behave as if documents were
\* posted one at a time, each in one step.
StockOf(k) == SumOver(qty, {r \in live : KeyOf[r] = k})

Serial ==
  INSTANCE StockLedger
    WITH Stock0 <- [k \in Key |-> SumOver(Opening, {r \in OpeningRow : KeyOf[r] = k})],
         stock  <- [k \in Key |-> StockOf(k)],
         posted <- {t \in Tx : phase[t] = "committed"}

\* Documents of one type implement the serial ledger (stock.engine.ts:39-223).
SerialLedger == Serial!Spec
=============================================================================
