---------------------------- MODULE StockEngine ----------------------------
(***************************************************************************)
(* The stock engine of the store module: add, deduct and move over the     *)
(* table inventory_stock, with the inventory_transactions ledger, run by   *)
(* concurrent database transactions.                                       *)
(*                                                                         *)
(* Every caller (issue, GRN, QC, transfer, return, dispatch, reservation)  *)
(* opens one interactive transaction and calls the engine once or more in  *)
(* it; a call is a findFirst, a check, and an UPDATE or INSERT that writes *)
(* the absolute value computed from what findFirst returned, followed by   *)
(* one ledger row.  The database runs these at READ COMMITTED: a read      *)
(* takes no lock and sees what is committed plus the transaction's own     *)
(* writes; a written row stays locked until commit or rollback.            *)
(*                                                                         *)
(* Abstractions: quantities are integers (Float in the schema); a Key      *)
(* stands for company, material, batch, warehouse, location and status; a  *)
(* transaction's writes stay in dirty/val/pend until Commit installs them. *)
(***************************************************************************)
EXTENDS Transactions, Integers, Sequences, Maps

CONSTANTS
  Key,          \* stock keys
  Row,          \* identities of inventory_stock rows that may ever exist
  KeyOf,        \* the key each row is created with; it never changes
  IndexedKey,   \* keys with a location: NULLs are distinct in the unique index
  OpeningRow,   \* rows present at the start
  Opening,      \* their quantities
  Script,       \* Script[t]: the sequences of engine calls t may start with
  Further,      \* Further[t]: those it may decide on once they are done
  NoRow         \* findFirst returned null

Op == [kind : {"add", "deduct"}, key : Key, qty : Int]

ASSUME StockConstants ==
  /\ KeyOf \in [Row -> Key]
  /\ OpeningRow \subseteq Row
  /\ Opening \in [Row -> Nat]
  /\ \A r \in Row \ OpeningRow : Opening[r] = 0
  /\ NoRow \notin Row
  /\ \A t \in Tx : Script[t] \subseteq Seq(Op) /\ Further[t] \subseteq Seq(Op)

VARIABLES
  live,      \* committed rows
  qty,       \* their committed quantities
  ledger,    \* committed ledger entries, in commit order
  phase,     \* where each transaction is
  todo,      \* engine calls each transaction still has to make
  found,     \* the row the pending call's findFirst returned
  read,      \* the quantity it returned
  dirty,     \* rows written and locked by each open transaction
  val,       \* the values it wrote there
  pend       \* its uncommitted ledger entries

tableVars == <<live, qty, ledger>>
txVars    == <<phase, todo, found, read, dirty, val, pend>>
stockVars == <<live, qty, ledger, phase, todo, found, read, dirty, val, pend>>

Entry  == [tx : Tx, row : Row, qty : Int, balanceAfter : Int]
Phases == {"idle", "find", "write", "committed", "aborted"}

----------------------------------------------------------------------------
(* READ COMMITTED. *)

\* Variant: the engine looks for the row through the shared client.
SharedClientVisible(t, r) == r \in live

Visible(t, r) == r \in live \/ r \in dirty[t]

\* Variant: the engine reads through the shared client, not its transaction.
SharedClientValue(t, r) == qty[r]

ValueSeen(t, r) == IF r \in dirty[t] THEN val[t][r] ELSE qty[r]

\* What findFirst may return for key k; without an ORDER BY, any match.
Matches(t, k) == {r \in Row : KeyOf[r] = k /\ Visible(t, r)}

\* The transactions the pending statement of t waits for: holders of the row
\* lock, or inserters of the same unique key.
Blockers(t) ==
  IF phase[t] # "write" THEN {}
  ELSE {u \in Tx \ {t} :
          IF found[t] # NoRow
            THEN found[t] \in dirty[u]
            ELSE LET k == Head(todo[t]).key
                 IN  k \in IndexedKey /\ \E r \in dirty[u] \ live : KeyOf[r] = k}

Deadlocked(t) ==
  /\ Blockers(t) # {}
  /\ \E S \in SUBSET Tx : t \in S /\ \A s \in S : Blockers(s) \cap S # {}

\* The end of a transaction that does not commit: nothing it wrote remains.
Rollback(t) ==
  /\ phase' = [phase EXCEPT ![t] = "aborted"]
  /\ todo'  = [todo EXCEPT ![t] = <<>>]
  /\ found' = [found EXCEPT ![t] = NoRow]
  /\ read'  = [read EXCEPT ![t] = 0]
  /\ dirty' = [dirty EXCEPT ![t] = {}]
  /\ val'   = [val EXCEPT ![t] = [r \in Row |-> 0]]
  /\ pend'  = [pend EXCEPT ![t] = <<>>]
  /\ UNCHANGED tableVars

----------------------------------------------------------------------------
(* The engine's calls. *)

Deduct(k, q) == [kind |-> "deduct", key |-> k, qty |-> q]
Add(k, q)    == [kind |-> "add", key |-> k, qty |-> q]

\* move: deduct from one key, then add to the other, in one transaction.
Move(from, to, q) == <<Deduct(from, q), Add(to, q)>>

Signed(op) == IF op.kind = "add" THEN op.qty ELSE -op.qty

\* existing?.quantity ?? 0
Have(t, r) == IF r = NoRow THEN 0 ELSE ValueSeen(t, r)

\* Variant: deduct without its check.
UncheckedRefuses(t, op, r) == op.qty <= 0

\* "Quantity must be positive", "Insufficient ... stock (need, have)".
Refuses(t, op, r) ==
  \/ op.qty <= 0
  \/ op.kind = "deduct" /\ Have(t, r) < op.qty

\* The rows findFirst may return, NoRow when none matches.
FindFirst(t, k) == IF Matches(t, k) = {} THEN {NoRow} ELSE Matches(t, k)

StockInit ==
  /\ live   = OpeningRow
  /\ qty    = Opening
  /\ ledger = <<>>
  /\ phase  = [t \in Tx |-> "idle"]
  /\ todo   = [t \in Tx |-> <<>>]
  /\ found  = [t \in Tx |-> NoRow]
  /\ read   = [t \in Tx |-> 0]
  /\ dirty  = [t \in Tx |-> {}]
  /\ val    = [t \in Tx |-> [r \in Row |-> 0]]
  /\ pend   = [t \in Tx |-> <<>>]

\* A caller opens its transaction, knowing the first calls it will make.
Begin(t) ==
  /\ phase[t] = "idle"
  /\ \E s \in Script[t] : todo' = [todo EXCEPT ![t] = s]
  /\ phase' = [phase EXCEPT ![t] = "find"]
  /\ UNCHANGED <<live, qty, ledger, found, read, dirty, val, pend>>

\* The caller makes further calls s, after reading what the ones before did.
CallWith(t, s) ==
  /\ phase[t] = "find"
  /\ todo[t] = <<>>
  /\ todo' = [todo EXCEPT ![t] = s]
  /\ UNCHANGED <<live, qty, ledger, phase, found, read, dirty, val, pend>>

Call(t) == \E s \in Further[t] : CallWith(t, s)

\* The findFirst of the next call, which passes the check.
Find(t) ==
  /\ phase[t] = "find"
  /\ todo[t] # <<>>
  /\ \E r \in FindFirst(t, Head(todo[t]).key) :
       /\ ~Refuses(t, Head(todo[t]), r)
       /\ found' = [found EXCEPT ![t] = r]
       /\ read'  = [read EXCEPT ![t] = Have(t, r)]
  /\ phase' = [phase EXCEPT ![t] = "write"]
  /\ UNCHANGED <<live, qty, ledger, todo, dirty, val, pend>>

\* Variant: a line that fails is caught and skipped.
SkipRefused(t) ==
  /\ phase[t] = "find"
  /\ todo[t] # <<>>
  /\ \E r \in FindFirst(t, Head(todo[t]).key) : Refuses(t, Head(todo[t]), r)
  /\ todo' = [todo EXCEPT ![t] = Tail(@)]
  /\ UNCHANGED <<tableVars, phase, found, read, dirty, val, pend>>

\* Variant: a line that fails is tried again until stock arrives.
RetryRefused(t) ==
  /\ phase[t] = "find"
  /\ todo[t] # <<>>
  /\ \E r \in FindFirst(t, Head(todo[t]).key) : Refuses(t, Head(todo[t]), r)
  /\ UNCHANGED stockVars

\* The check throws: the caller's transaction rolls back.
Refuse(t) ==
  /\ phase[t] = "find"
  /\ todo[t] # <<>>
  /\ \E r \in FindFirst(t, Head(todo[t]).key) : Refuses(t, Head(todo[t]), r)
  /\ Rollback(t)

\* Variant: update by the found id, without the create branch.
UpdateFound(t) == {found[t]}

\* The row written: the one found, or a new one for its key.
Target(t) ==
  IF found[t] # NoRow THEN {found[t]}
  ELSE {r \in Row \ live : /\ KeyOf[r] = Head(todo[t]).key
                           /\ \A u \in Tx : r \notin dirty[u]}

\* The unique index refuses an insert once the same key is committed.
DuplicateKey(t) ==
  /\ found[t] = NoRow
  /\ Head(todo[t]).key \in IndexedKey
  /\ \E r \in live : KeyOf[r] = Head(todo[t]).key

\* Variant: the ledger records the balance before the change.
BalanceBefore(t, r, op, newQty) ==
  [tx |-> t, row |-> r, qty |-> Signed(op), balanceAfter |-> newQty - Signed(op)]

\* inventoryTransaction.create with the quantity just written.  The table does not
\* name the stock row: "row" is a ghost, by which the properties tell rows apart.
LedgerEntry(t, r, op, newQty) ==
  [tx |-> t, row |-> r, qty |-> Signed(op), balanceAfter |-> newQty]

\* The UPDATE or INSERT, then the ledger row.
Write(t) ==
  /\ phase[t] = "write"
  /\ Blockers(t) = {}
  /\ ~DuplicateKey(t)
  /\ \E r \in Target(t) :
       LET op == Head(todo[t])
           newQty == read[t] + Signed(op)
       IN  /\ dirty' = [dirty EXCEPT ![t] = @ \cup {r}]
           /\ val'   = [val EXCEPT ![t][r] = newQty]
           /\ pend'  = [pend EXCEPT ![t] = Append(@, LedgerEntry(t, r, op, newQty))]
  /\ todo'  = [todo EXCEPT ![t] = Tail(@)]
  /\ found' = [found EXCEPT ![t] = NoRow]
  /\ read'  = [read EXCEPT ![t] = 0]
  /\ phase' = [phase EXCEPT ![t] = "find"]
  /\ UNCHANGED tableVars

UniqueViolation(t) ==
  /\ phase[t] = "write"
  /\ Blockers(t) = {}
  /\ DuplicateKey(t)
  /\ Rollback(t)

Commit(t) ==
  /\ phase[t] = "find"
  /\ todo[t] = <<>>
  /\ live'   = live \cup dirty[t]
  /\ qty'    = [r \in Row |-> IF r \in dirty[t] THEN val[t][r] ELSE qty[r]]
  /\ ledger' = ledger \o pend[t]
  /\ phase'  = [phase EXCEPT ![t] = "committed"]
  /\ dirty'  = [dirty EXCEPT ![t] = {}]
  /\ val'    = [val EXCEPT ![t] = [r \in Row |-> 0]]
  /\ pend'   = [pend EXCEPT ![t] = <<>>]
  /\ UNCHANGED <<todo, found, read>>

InFlight(t) == phase[t] \in {"find", "write"}

\* The request dies: the process crashes or the transaction times out.
Abort(t) == InFlight(t) /\ Rollback(t)

\* The database's deadlock detector picks a victim.
BreakDeadlock(t) == Deadlocked(t) /\ Rollback(t)

Progress(t) ==
  \/ Find(t)
  \/ Refuse(t)
  \/ Write(t)
  \/ UniqueViolation(t)
  \/ Commit(t)
  \/ BreakDeadlock(t)

StockNext == \E t \in Tx : Begin(t) \/ Call(t) \/ Progress(t) \/ Abort(t)

StockSpec == StockInit /\ [][StockNext]_stockVars

\* An open transaction's handler keeps running and the database keeps
\* answering it; nothing makes a client open one, and nothing makes one crash.
FairStockSpec == StockSpec /\ \A t \in Tx : WF_stockVars(Progress(t))

----------------------------------------------------------------------------
(* Properties. *)

\* Every variable keeps its shape: in particular each ledger entry names a
\* transaction and a row, and an uncommitted write belongs to a row.
StockTypeOK ==
  /\ live \subseteq Row
  /\ qty \in [Row -> Int]
  /\ ledger \in Seq(Entry)
  /\ phase \in [Tx -> Phases]
  /\ todo \in [Tx -> Seq(Op)]
  /\ found \in [Tx -> Row \cup {NoRow}]
  /\ read \in [Tx -> Int]
  /\ dirty \in [Tx -> SUBSET Row]
  /\ val \in [Tx -> [Row -> Int]]
  /\ pend \in [Tx -> Seq(Entry)]

\* No interleaving of deducts, adds and moves leaves a negative quantity, in
\* the table or in the ledger's balances: the check and the write of deduct
\* use the same read, however stale it is (stock.engine.ts:140-149).
NonNegative ==
  /\ \A r \in Row : qty[r] >= 0
  /\ \A i \in DOMAIN ledger : ledger[i].balanceAfter >= 0

\* b is the balance of row r at the end of the entries s: that of its last
\* entry, or base if it has none.
EndsAt(s, r, base, b) ==
  /\ (\A i \in DOMAIN s : s[i].row # r) => b = base
  /\ \A i \in DOMAIN s :
       (s[i].row = r /\ \A j \in DOMAIN s : j > i => s[j].row # r)
         => b = s[i].balanceAfter

\* The balance column tells the truth about the row: whatever order the
\* transactions commit in, a row holds the balanceAfter of the last ledger
\* entry committed for it, and a row without entries its opening quantity
\* (stock.engine.ts:67-72, 88-98, 146-161).
RowIsLastBalance == \A r \in Row : EndsAt(ledger, r, Opening[r], qty[r])

\* The entries of t among those of s, in their order.
EntriesIn(s, t) ==
  LET f[i \in 0..Len(s)] ==
        IF i = 0 THEN <<>>
        ELSE IF s[i].tx = t THEN Append(f[i-1], s[i]) ELSE f[i-1]
  IN  f[Len(s)]

EntriesOf(t) == EntriesIn(ledger, t)

\* The calls a transaction starts with reach the ledger all together or not at all: a move
\* never shows its deduct without its add, a failing line of a document
\* leaves nothing of the lines before it (stock.engine.ts:190-222).
AllOrNothing ==
  \A t \in Tx :
    IF phase[t] = "committed"
      THEN \E s \in Script[t] :
             /\ Len(EntriesOf(t)) >= Len(s)
             /\ Further[t] = {} => Len(EntriesOf(t)) = Len(s)
             /\ \A i \in DOMAIN s : /\ EntriesOf(t)[i].qty = Signed(s[i])
                                    /\ KeyOf[EntriesOf(t)[i].row] = s[i].key
      ELSE EntriesOf(t) = <<>>

\* Every transaction a caller opens ends, committed or rolled back: neither a
\* row lock nor a unique-index wait, nor two moves in opposite directions,
\* holds one for ever (stock.engine.ts:190-222).
EveryTransactionEnds ==
  \A t \in Tx : InFlight(t) ~> ~InFlight(t)

\* What the ledger entries s add to key k.
EntriesFor(s, k) == [i \in DOMAIN s |-> IF KeyOf[s[i].row] = k THEN s[i].qty ELSE 0]
Booked(s, k) == SumOver(EntriesFor(s, k), DOMAIN s)

\* What the ledger says is left of a key: the opening rows plus every entry.
OnHandByLedger(k) ==
  SumOver(Opening, {r \in OpeningRow : KeyOf[r] = k}) + Booked(ledger, k)

\* What "Insufficient ... stock (need, have)" promises (stock.engine.ts:140):
\* the deductions of a key never exceed what it held and received.
NeverOverdrawn == \A k \in Key : OnHandByLedger(k) >= 0
=============================================================================
